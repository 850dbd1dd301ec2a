# Formal model of the service platform's jobs, broker listener and sessions

This directory holds TLA+ models of the Go service under `src/`. It also holds
TLC configurations that model-check them, and TLAPS proofs of their main
safety properties.

## The system

The worker binary (`app/cmd/worker`) runs a `WorkerService`
(`app/pkg/worker/handler.go`). That service starts three things:

- a **worker pool** (`app/pkg/worker/pool.go`) of N goroutines;
- a **retry scheduler** goroutine;
- a health monitor.

Jobs are created by the **JobManager** (`app/manager/job_manager.go`). The
manager is called from the API and from the SQS **broker listener**
(`app/pkg/sqs/listener.go`). `CreateJob` does two things:

1. It writes a PENDING row to the Postgres `jobs` table through the **job
   repository** (`app/database/constant/role/role.go`).
2. It LPUSHes a JSON copy of the job onto the Redis list `{jobs}:queue` through
   the **Redis queue** (`src/unnamed/part_005`, `redisQueue`).

Each pool goroutine loops in `runWorker`:

1. BRPOP a copy off the list, then `incrementActiveWorkers`.
2. In `processJob`:
   - `MarkProcessing` (ZADD to `{jobs}:processing`);
   - `UpdateJobToProcessing`;
   - the handler.
3. If the handler succeeded, `handleJobSuccess`:
   - `UpdateJobToCompleted`;
   - `MarkCompleted` (ZREM);
   - `TotalProcessed++`.
4. If the handler failed, `handleJobFailure`:
   - `Attempts++` on the in-memory copy;
   - `UpdateJobToFailed` or `UpdateJobToRetrying`, each of which also does
     `attempts = attempts + 1` in SQL;
   - `MarkFailed` (ZREM, and ZADD to `{jobs}:retry_schedule`);
   - `TotalFailed++`.
5. Back in `runWorker`, `decrementActiveWorkers`.

Every store and Redis call in processing uses a detached context. A failed call
is logged and skipped, except MarkProcessing: its failure makes processJob
return at once. Once a minute, the retry scheduler asks the store for FAILED
rows with `attempts < max_attempts`, sets them to PENDING and enqueues them
again.

The **broker listener** (`app/pkg/sqs/listener.go`) starts goroutines that
poll SQS. Each poller receives a batch of messages (ReceiveMessage), then
handles each message in turn:

1. It parses and validates the message.
2. It calls `JobManager.CreateJob` with the event as the payload.
3. It deletes the message, unless `shouldRetry` says the failure is retryable.

`Start` blocks until `Stop` or the context ends, and then waits for the
pollers to finish.

**Sessions** (`src/unnamed/part_001`, with the auth service in `part_008` and
`part_010`) are the rows of the sessions table:

- Login inserts a session. `Insert` first revokes the old token and every
  session of the user, in separate statements.
- Refresh looks the token up (`FindByToken`, on the read replica), checks that
  the session is live, and rotates it.
- Logout revokes by token.

## Modules

| Module | Models | State | Actions |
|---|---|---|---|
| `JobLifecycle` | JobManager.CreateJob, redisQueue, jobRepository status updates, workerPool | `db` (jobs table), `queue` (the Redis list), `processingSet` and `retrySchedule` (the zsets), `pc` and `held` (each goroutine's place in runWorker/processJob and its `jobEntity`), `activeWorkers`, `totalProcessed`, `totalFailed` (PoolStats), `cancelled` (p.ctx), `faults`, `crashes` | `CreateJob`, `Dequeue`, `WorkerExit`, `MarkProcessing`, `UpdateJobToProcessing`, `Handle`, `UpdateJobToCompleted`, `MarkCompleted`, `UpdateJobToFailedOrRetrying`, `MarkFailed`, `Stop`, `Crash` |
| `RetryScheduler` | `WorkerService.processRetryableJobs`, `GetRetryableJobs` | that of JobLifecycle | `ProcessRetryableJob` (one returned job per step) |
| `JobStatus` | the job status machine of spec §3: what the jobs table promises whoever writes it | `jobs` | `Admit`, `Begin`, `Complete`, `Fail`, `Revive` |
| `SQSListener` | `Listener` (`app/pkg/sqs/listener.go`), `JobManagerBridge.HandleMessage`, the SQS client calls in `app/pkg/worker/log.go`, `SQSListenerService.Stop`; EXTENDS JobLifecycle | JobLifecycle's state, plus `sqs` (each message visible, in flight or deleted), `origin` (the message id in a job's `_sqs_metadata`), `running`, `startPc` (where Start is), `ctxDone`, `stopCall`, and per poller `ppc`, `batch`, `cur`; `early` counts early visibility timeouts | `LoopTop`, `Receive`, `NextMessage`, `HandleMessage`, `DeleteAfterHandle` (each runWorker goroutine); `StartBegin`, `SpawnPollers`, `Wake`, `Drain` (Start); `ListenerStop`, `CancelCtx`, `VisibilityTimeout`, `EarlyTimeout`; the pool's `WorkerStep` |
| `Sessions` | `DefaultAuthManager.Login/RefreshToken/Logout` (`src/unnamed/part_008`), `DefaultSessionRepository` (`part_001`), `entity.Session` (`part_010`) | `sessions` (the primary table, by token hash), `replica`, `expired`, `issued` and `returned` tokens, and per client goroutine `pc`, `req`; `faults` | `Login`, `RefreshToken`, `ValidateSession`, `InsertRevokeToken`, `InsertRevokeUser`, `InsertRow`, `RevokeOld`, `Logout`; `Replicate`, `Expire` |
| `JobLifecycleProofs`, `JobLifecycleRefinement`, `JobLifecycleStatsProofs` | TLAPS proofs about JobLifecycle | | |
| `SessionsProofs` | TLAPS proofs about Sessions | | |
| `SQSListenerProofs` | TLAPS proof of the listener's type invariant | | |
| `MCJobLifecycle`, `MCRetryScheduler`, `MCSQSListener`, `MCSessions` | TLC instances (model values for jobs, workers, messages, pollers, users, tokens, clients) | | |

How the model follows the code:

- **Calls are steps.** Each store or Redis call is one step of a worker, so the
  calls of different workers, of `CreateJob`, of `Stop` and of a crash
  interleave freely.
- **Failures.** Every call that can fail has a failure disjunct, bounded by
  `MaxFaults`. It does exactly what the code does on that error path: a log
  and going on, or an early return.
- **Crash.** `Crash` models the process dying and being restarted. Goroutine
  state and PoolStats are lost; Postgres and Redis keep what they hold.
- **Jobs.** A job is abstracted to `[id, attempts, maxAttempts]`. Type,
  payload, priority and timestamps are left out: `getQueueKey` sends every
  priority to one key, and no modelled step reads a timestamp.
- **Handler outcome.** A missing handler and a handler error both reach
  `handleJobFailure`, so `Handle` is one nondeterministic success or failure.

How the listener and session models follow the code:

- **Composition.** `SQSListener` EXTENDS `JobLifecycle`. `HandleMessage`
  *is* JobLifecycle's `CreateJob` with max_attempts 0, and the pool's
  `WorkerStep`s run the jobs it creates. `origin` records which message a job
  came from (the `_sqs_metadata` that `addSQSMetadata` puts in the payload).
- **SQS.** Each message is visible, in flight or deleted. `VisibilityTimeout`
  makes an unheld in-flight message visible again, as SQS does when nobody
  deletes it. `EarlyTimeout` does the same while a poller still holds it: the
  processing outlives `VisibilityTimeoutSeconds`. It is bounded by
  `MaxEarlyTimeouts`.
- **Poison.** `Poison` is the set of bodies that fail `json.Unmarshal`,
  `validateMessage` or `convertPayloadToMap`. They are deleted without a job.
- **Start and Stop.** `Start` is four steps (`StartBegin`, `SpawnPollers`,
  `Wake`, `Drain`). `Stop` is one step. It hands its value to Start only if
  Start is blocked in its select at that moment, as a non-blocking send on an
  unbuffered channel does.
- **Sessions.** A row is `[user, revoked, deleted]`, keyed by the token hash.
  Every repository statement is one step of its client goroutine, so two
  requests' statements interleave. Any statement may fail, bounded by
  `MaxFaults`. A failed revoke is ignored, as the code ignores it. The replica
  is a copy that `Replicate` brings up to date. With `ReplicaLags = FALSE` the
  replica is the primary. `Expire` lets time pass an `expires_at`.
  Passwords, JWT signing and the users table are left out. Their failures
  return before any session write.

## Runs

| Run | Config | Checks | Result |
|---|---|---|---|
| lifecycle_safety | `MCJobLifecycle.cfg` | TypeOK, NoDoubleExecution, FailedOnlyWhenExhausted, ActiveWorkersAccurate, ImplementsJobStatus | pass (about 15k distinct states) |
| lifecycle_liveness | `MCJobLifecycleLive.cfg` | JobEventuallySettled | pass |
| lifecycle_failure_strands | `MCJobLifecycleFault.cfg` | JobEventuallySettled | violation: one store or Redis failure, or a restart after BRPOP, strands a job |
| retry_never_terminal | `MCRetrySchedulerStuck.cfg` | JobEventuallyTerminal | violation: RETRYING is never re-admitted |
| session_single_client | `MCSessions.cfg` | TypeOK, AtMostOneActiveSession | pass (about 40k distinct states) |
| session_refusal_final | `MCSessionsRefused.cfg` | RefusedStaysRefused | pass (about 870k distinct states) |
| session_second_active | `MCSessionsRace.cfg` | AtMostOneActiveSession | violation: two concurrent logins, or a discarded RevokeByUserID error |
| session_stale_replica | `MCSessionsStale.cfg` | RefreshAcceptsOnlyLiveSession | violation: refresh accepted from the replica after logout |
| listener_delivery | `MCSQSListener.cfg` | ListenerTypeOK, MessageEventuallyAcked | pass (about 70k distinct states) |
| listener_ack_without_job | `MCSQSListenerAck.cfg` | AckedMessageHasJob | violation: message deleted after a failed CreateJob |
| listener_duplicate_delivery | `MCSQSListenerDup.cfg` | AtMostOneCompletionPerMessage | violation: redelivery after a failed delete, or a second poller during an early timeout |
| listener_stop_lost | `MCSQSListenerStop.cfg` | StopTakesEffect | violation: Stop before Start's select is dropped |

What the properties mean:

- **NoDoubleExecution:** the list holds each id at most once, no two workers
  hold the same id, and no worker holds an id that is still queued.
- **FailedOnlyWhenExhausted:** the worker's in-memory decision and the row's
  SQL increment agree. Without that, a FAILED row could keep attempts left and
  be re-admitted.
- **ActiveWorkersAccurate:** the `ActiveWorkers` gauge equals the number of
  goroutines inside processJob. The clamp in `decrementActiveWorkers` would
  hide a missed decrement.
- **ImplementsJobStatus:** the refinement. The jobs table of JobLifecycle,
  mapped to itself, moves only as the status machine `JobStatus` allows. It
  is `INSTANCE JobStatus WITH jobs <- db`, checked as a temporal property.
  A row is:
  - created PENDING;
  - started only from PENDING;
  - finalized only from PENDING or PROCESSING;
  - on a failure, given one more attempt, and made FAILED exactly when that
    reaches max_attempts.
- **JobEventuallySettled:** every queued job is eventually settled by a worker
  (COMPLETED, FAILED or RETRYING), unless the pool is stopped.
- **JobEventuallyTerminal:** the spec's promise (§3, §4.6, scenario S2) that
  every created job reaches COMPLETED or FAILED.
- **AtMostOneActiveSession:** for every user, at most one session row is
  neither revoked nor deleted (spec §8 property 1).
- **RefreshAcceptsOnlyLiveSession:** an action property. When
  `validateSession` accepts a refresh token, the primary holds that session
  live, unrevoked and unexpired (scenarios S5 and S6). Only the violation run
  checks it: with the replica read it fails, and with primary reads it would
  restate `ValidSession`.
- **RefusedStaysRefused:** an action property. Once `validateSession` would
  refuse a refresh token handed to a caller (rotated, logged out or
  expired), it refuses it in every later state. The run has two concurrent
  clients, a lagging replica and a failed statement. The interleaved
  statements of concurrent `Insert`s, `RefreshToken`'s final revoke and
  `Logout` must never bring a revoked row back.
- **ListenerTypeOK:** the listener's type invariant. It also says that a batch
  is at most `MaxMessages` long and that no poison body becomes a job.
- **MessageEventuallyAcked:** while the listener runs, every message is
  eventually deleted from SQS. That holds across a failed call, a poison
  body, a visibility timeout and a redelivery.
- **AckedMessageHasJob:** a message deleted after a handling attempt has a job
  created from it (spec §4.8 step 3: no ack on a retryable error).
- **AtMostOneCompletionPerMessage:** at most one COMPLETED job per message
  (spec §8.4: a redelivered event produces no second COMPLETED job).
- **StopTakesEffect:** once `Stop` has sent its value, the listener stops
  running.

### Findings

1. **The retry scheduler is dead code.** `GetRetryableJobs`
   (`role.go:216-229`) wants `status = failed AND attempts < max_attempts`.
   That state is unreachable: `handleJobFailure` writes FAILED only when
   attempts reach max_attempts, and writes RETRYING otherwise. Nothing reads
   `{jobs}:retry_schedule`. So a job that fails once with attempts left stays
   RETRYING forever. `FailedOnlyWhenExhaustedThm` proves that the scheduler's
   filter never matches, for every instance.
2. **Finalization errors strand jobs** (`pool.go:170`, and the logged errors
   of `UpdateJobToCompleted` and `UpdateJobToFailed/Retrying`). One failure
   leaves a dequeued job PENDING or PROCESSING for good. Spec §4.5 and §5 say
   finalization always runs to completion, with one local retry (§7).
3. **A restart loses in-flight jobs** (`pool.go:144`). `{jobs}:processing` is
   written and never read.
4. **Two active sessions.** `Insert` (`part_001:165-176`) is not atomic, and
   it ignores the revoke errors. Two concurrent logins, or one failed
   `RevokeByUserID`, leave a user two active sessions. Spec §4.2 and §8
   property 1 say otherwise.
5. **Stale refresh.** `FindByToken` reads the replica (`part_001:180`). A
   refresh right after logout or rotation can be accepted, against S5 and S6.
6. **Lost events.** `shouldRetry` is always false for the job
   `createJobFromMessage` builds, since Attempts and MaxAttempts are 0
   (`listener.go:439`). A failed CreateJob deletes the message with no job,
   against §4.8 step 3.
7. **Duplicate jobs per event.** A failed `DeleteMessage` (`listener.go:419`),
   or a visibility timeout during processing, redelivers the message. The
   listener does not deduplicate, so two jobs for one event complete, against
   §8.4.
8. **Lost stop signal.** `Listener.Stop`'s non-blocking send on the
   unbuffered `stopCh` (`listener.go:239`) is dropped when `Start` is not yet
   in its select. The listener keeps running until its context ends.

### Bounds

- **Lifecycle size:** two job ids and two workers. That is enough for two
  workers racing on one list, a job held while another is queued, and two jobs
  finishing in either order.
- **max_attempts:** the requests `{0, 1}` give max_attempts 3 (the default, so
  a failure is retried) and 1 (the first failure is final). Both branches of
  handleJobFailure are reached.
- **Lifecycle failures:** two transient faults and one crash per behaviour put
  a failure on any call, and a restart between any two steps. The violation
  run has one fault and one crash, the least that shows either way of
  stranding a job.
- **Symmetry:** in the lifecycle runs, job ids and workers are
  interchangeable model values.
- **Sessions:** two users, three token handles, one or two clients and at most
  one failed statement (the violation run has two clients and one fault, so
  either the race or the discarded error can produce the second session). Three handles allow a login, a rotation and
  a second login. Two clients are what the interleaving needs.
- **Listener:** two messages (one poison), two job ids, one worker and one or
  two pollers, batches of up to two, one fault and one early timeout (the
  duplicate-delivery run has both pollers, the fault and the timeout).

The liveness runs have no crashes. The lifecycle liveness run also has no
faults, since a fault strands a job (finding 2). In those runs
JobEventuallySettled holds.

### Fairness

- **Lifecycle:** each worker goroutine gets weak fairness,
  `WF_vars(WorkerStep(w))`. The Go scheduler runs every runnable goroutine,
  and each store or Redis call returns: with the detached 30-second contexts,
  a call either succeeds or fails. Callers of CreateJob, Stop and crashes
  belong to the environment and get no fairness.
- **Retry scheduler:** its ticker fires every minute, which justifies weak
  fairness for `SchedulerStep`.
- **Listener:** each poller, the Start goroutine and each message's
  `VisibilityTimeout` get weak fairness. SQS always ends a visibility timeout.
  `ListenerStop`, `CancelCtx` and early timeouts are the environment's choice.
- **Sessions:** no fairness. Only safety is checked there, and the runs
  disable deadlock checking because every behaviour ends once the token
  handles are used up.

### Mutants

Each passing property has a mutant. The mutant is a plausible bug in the code
it models, and TLC finds the property violated under the run's own config:

| Mutant | What it does | Property it breaks |
|---|---|---|
| `EffectiveMaxAttemptsOffByOne` | the default applied only to negative requests | TypeOK |
| `DequeueNoPop` | LINDEX instead of BRPOP | NoDoubleExecution |
| `MarkProcessingNoDecrement` | the early return also skips decrementActiveWorkers | ActiveWorkersAccurate |
| `UpdateJobToFailedNoIncrement` | UpdateJobToFailed writes FAILED without attempts + 1 (RETRYING is written as in the code) | FailedOnlyWhenExhausted |
| `UpdateJobToRetryingAsPending` | a retry written as PENDING | JobEventuallySettled, ImplementsJobStatus |
| `InsertRevokeUserSkipped` | Insert without RevokeByUserID | AtMostOneActiveSession |
| `ValidateSessionWrongUser` | the new session created for the request's unset user, not FindByID's | TypeOK (Sessions) |
| `ValidateSessionNoRotation` | RefreshToken reuses the presented handle instead of generating a new one | RefusedStaysRefused |
| `NextMessageNoValidate` | processMessage without validateMessage | ListenerTypeOK |
| `DeleteAfterHandleSkipped` | handleJobAndCleanup returns without deleting | MessageEventuallyAcked |

## Proofs

`JobLifecycleProofs` proves the following for every finite, nonempty set of
jobs and workers, and every bound on faults and crashes (`ConstAssumption`):

- `IInvHolds`: `Spec => []IInv`;
- `TypeCorrect`: `Spec => []TypeOK`;
- `NoDoubleExecutionThm`: `Spec => []NoDoubleExecution`;
- `FailedOnlyWhenExhaustedThm`: `Spec => []FailedOnlyWhenExhausted`.

Neither the type invariant nor NoDoubleExecution is inductive on its own. For
example, an UPDATE on `held[w].id` keeps the row type only if that row exists.
The inductive invariant `IInv` therefore adds two conjuncts:

- **QueueConsistent:** every queued copy stands for an existing row and carries
  that row's attempts and max_attempts.
- **HeldConsistent:** a worker inside processJob holds a copy of an existing
  row, with equal max_attempts. Its attempts equal the row's before the failure
  handler, and are one more after `Attempts++`. An idle worker holds nothing.

HeldConsistent is what makes FailedOnlyWhenExhausted inductive. When a worker
writes FAILED, its copy has `attempts >= maxAttempts`, and the row becomes
`attempts + 1`, which equals the copy's count. TLC checked IInv as an invariant
of the 2×2 instance before the proof was written.

`JobLifecycleRefinement` proves the refinement and one consequence of it, under
the same assumptions:

- `ImplementsJobStatusThm`: `Spec => ImplementsJobStatus`. The initial table
  maps to `JobStatus!Init`, and every step of `Next` is a `JobStatus` step on
  `db` or leaves `db` unchanged.
- `AttemptsWithinMaxThm`: `Spec => []JobStatus!AttemptsWithinMax`, that is,
  attempts never exceeds max_attempts (spec §3). It follows from the
  refinement and an inductive invariant of the machine itself (`RowsBounded`:
  a PENDING, PROCESSING or RETRYING row has an attempt left). That invariant
  needs every admitted max_attempts to be positive, which
  `EffectiveMaxAttempts` guarantees.

The refinement needs a second invariant on top of IInv, `StatusConsistent`:

- a queued job's row is PENDING;
- a worker before `UpdateJobToProcessing` holds a PENDING row;
- a worker before finalizing holds a PENDING or PROCESSING row.

Without it, an UPDATE by a worker could not be shown to be a legal step:
- `Begin` needs PENDING;
- `Complete` and `Fail` need PENDING or PROCESSING.

It is preserved because of NoDoubleExecution: no other worker and no queued
copy has the row a worker writes. HeldConsistent is what shows that the
worker's FAILED/RETRYING choice, made on its copy, is the machine's
`attempts + 1 >= max_attempts`. TLC checked StatusConsistent on the 2×2
instance before the proof. How the proof is laid out:

- one lemma per action (`CreateJobRefines`, `DequeueRefines`, and so on) that
  proves `StatusConsistent'` and `[JobStatus!Next]_db`;
- two shared lemmas (`LeaveRow`, `WriteOwnRow`) for how a step can keep the
  invariant;
- `StepRefines`, which splits `[Next]_vars`;
- a final PTL step.

How the proofs of both modules are laid out:

- There is one lemma per action (`CreateJobStep`, `DequeueStep`, and so on).
  Each has one step per conjunct the action can disturb.
- Helper lemmas cover the list operations: `PopRightFacts` for BRPOP and
  `LPushFacts`/`LPushCopy` for LPUSH, on top of the `SequenceTheorems` library.
- `IInvInductive` splits `[Next]_vars` by case.
- Each theorem closes with PTL.

`JobLifecycleStatsProofs` proves `ActiveWorkersAccurateThm`:
`Spec => []ActiveWorkersAccurate`. `BusySet` is the set of workers inside
processJob; it is finite because `Workers` is. `TypeOK /\
ActiveWorkersAccurate` is inductive, and its step uses FiniteSetTheorems:

- `Dequeue` adds one worker to the set and increments the gauge (`EnterBusy`,
  `FS_AddElement`);
- the early return of `MarkProcessing`, `MarkCompleted` and `MarkFailed`
  remove the worker and decrement the gauge (`LeaveBusy`, `FS_RemoveElement`).
  The worker was counted, so the gauge is positive and the clamp in
  `decrementActiveWorkers` never applies;
- a step inside processJob keeps the set (`StayBusy`);
- `Crash` empties the set and resets the gauge.

`SessionsProofs` proves two theorems about the session model. They hold for
every finite set of users, tokens and clients, every fault bound and either
value of `ReplicaLags` (`SessionAssumption`):

- `SessionsTypeCorrect`: `Spec => []TypeOK`. It needs `HandlesIssued`: every
  handle a request carries into `validateSession` or the writes of `Insert`
  was issued, and an unissued token has no row. Without it, a write could
  land on `NoToken`.
- `RefusedStaysRefusedThm`: `Spec => RefusedStaysRefused`. The inductive
  invariant `RInv` adds `FreshHandles`:
  - a handle handed to a caller has a row;
  - inside `Insert`, the request's handle has no row yet;
  - no two requests inside `Insert` share a handle.

  These facts hold because `createSession` draws a handle that was never
  drawn before. So the one write that can make a row live, the INSERT, never
  touches a handed-out token (`InsertRowFresh`). Every other statement only
  revokes (`RevokeShape`), and `expired` only grows (`RefusedByRevoke`).
  TLC checked `RInv` on the `session_refusal_final` instance before the
  proof.

`SQSListenerProofs` proves `ListenerTypeCorrect`:
`ListenerSpec => []ListenerTypeOK`. This holds for every finite set of
messages and any number of pollers and jobs. The type invariant includes two
facts:

- a batch holds at most `MaxMessages` messages;
- no job's origin is a poison message.

The inductive invariant `LInv` adds `Handling`:

- a poller at `handle` or `delete` holds a well-formed message;
- every batch is a finite set.

Finiteness is what lets `FS_Subset` bound the rest of a batch after
`NextMessage` takes a message. `ListenerAssumption` therefore requires
`Messages` to be finite. `HandleMessage` never takes the retry branch, since
`ShouldRetry(0, 0)` is false. TLC checked `LInv` on the `listener_delivery`
instance (69,946 states) before the proof.

These are left to TLC:

- **Liveness** (`JobEventuallySettled`, `JobEventuallyTerminal`,
  `MessageEventuallyAcked`). TLAPS does not reason about fairness or ENABLED
  here.
- **AtMostOneActiveSession.** It holds with one client and no failed
  statement (`session_single_client`). The code breaks it with two
  concurrent requests or one discarded RevokeByUserID error
  (`session_second_active`). The HTTP server is concurrent and statements do
  fail, so no theorem states it under those restrictions.
- **The properties of the violation runs.** They are `AckedMessageHasJob`,
  `AtMostOneCompletionPerMessage`, `StopTakesEffect` and
  `RefreshAcceptsOnlyLiveSession`. They are false of the code, and TLC's
  counterexamples are the result.

## Not modelled

- **The HTTP API, middleware, JWT and bcrypt.** These are request handling
  and cryptography, with no shared concurrent state.
- **Configuration loading, the gocron locker and the EODHD client.** These
  are I/O with no state the models need.
- **The statistics collector's queue depths.** They are read-only.
- **`sqs.Queue` (`app/pkg/sqs/queue.go`).** Only tests and `GetQueue` use it.
  The listener calls the SQS client directly.
- **Validators, query helpers and Redis wrappers.** These are pure
  functions, or single calls that the modelled steps already stand for.
- **`DeleteByID` and `DeleteByUserID`.** No code calls them.

## Plan for later work

1. Action properties of the listener, proved from `LInv`.
2. Compose the retry scheduler with the refinement. `Revive` is the step it
   would make, if a FAILED row with attempts left were ever reachable.
3. An abstract at-least-once delivery spec for the listener, with
   SQSListener shown to refine it when `shouldRetry` is fixed.
4. Larger instances of the session model (three clients) under a symmetry
   reduction.
