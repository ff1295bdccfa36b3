# Formal models of datacenter-project

TLA+ models of the concurrent and failure-handling parts of this repository,
TLC runs on small instances, and TLAPS proofs of the central safety properties.
Paths below are relative to the repository.

1. [Inventory](#1-inventory) - 2. [Modules and the code](#2-modules-and-the-code)
- 3. [Runs](#3-runs) - 4. [Fairness](#4-fairness) - 5. [Proofs](#5-proofs)
- 6. [Finding](#6-finding) - 7. [Not modelled](#7-not-modelled) - 8. [Plan](#8-plan)

## 1. Inventory

The system is a monitoring demo with production-grade operational code around
it: a simulator posts server measurements to a FastAPI service that classifies
and stores them in MySQL and exports Prometheus metrics; an analysis endpoint
hands a summary to a Dify workflow; the model comes from an MLflow registry
whose authentication database is migrated, backed up and restored by dedicated
one-shot programs.

| Component | State | Operations | Interacts with |
|---|---|---|---|
| Retry controller, `backend/startup.py` | start time, shared budget, frame of the current `run()` | `run`, `timeout`, registry transport, database timeout adapters | everything `main.py` does before serving |
| Application start, `backend/main.py`, `backend/model_loader.py` | module-level `model`, temporary directories, MLflow environment overrides, preflight engine, `startup_complete` latch | import, two startup hooks, shutdown hook | retry controller, MLflow, MySQL, verifier |
| Write-free verifier, `backend/write_free_verifier.py` | `_active`, `_requests`, `_inference_task`, `_server_task`, recorded inodes | `start`, `stop`, request boundary, `_verify` | event loop, uvicorn, worker threads, file system |
| Measurement pipeline, `simulator/main.py`, `POST /predict` | the table, counters and gauges of one process | send, time out, insert, commit, count, set gauges | MySQL, Prometheus |
| Analysis, `POST /analysis/run`, `backend/dify.py` | one transaction's snapshot, one workflow run | two SELECTs, one POST, response checks | MySQL, Dify |
| Auth migration, `k8s/mlflow/auth/fenced_migration.py` | schema, version table, advisory lock, sessions | lock, preflight, upgrade per revision, commit, report, release | MySQL, alembic, checkpoints file |
| Backup and restore, `tools/mlflow_backup_s3.py` | bucket versions, manifest, output file, temporary files | `backup`, `restore` | S3, file system |
| Auth bootstrap, `k8s/mlflow/auth/bootstrap_admin.py` | rows of the table `users` | check, create, verify, exit code | migration, MLflow, MySQL |
| Auth runtime guard and server, `runtime_guard.py`, `auth_server.py` | the child's process group, pending signals | verify schema and users, spawn, relay, forward SIGTERM | both jobs, MLflow, kubelet |
| Schema tool, `backend/initialize_schema.py`, `schema.py`, `db_config.py` | the objects of the application's schema | inspect, create, validate | MySQL, the starting application |
| GitOps gate, `scripts/gitops_safety.py` | evidence file, verdict | `snapshot`, `check` | kubectl, kustomize, the checkout |
| Read-only proxy, launcher, schema fingerprint | none of their own | allow or deny, spawn, parse | MLflow, MySQL |
| Training, manifests, dashboards | none | offline computation, declarations | - |

What is hard about it, and what has to be true (every hazard with its line is
in `PROJECT.json`):

* **Startup.** Time passes between any two reads of the budget, also inside
  operations, backoff and `dispose()`. Operations must not be begun after the
  deadline over and over, late successes must be rejected, only transient
  failures retried, and everything allocated on the way given back on each of
  the many exits; a start that is undecided at the deadline must never publish
  readiness, and a process whose startup hook failed must not keep it.
* **Verifier.** Requests, the uvicorn task, `stop()`, the worker thread and its
  completion callback interleave; clients disconnect while a shielded
  calculation goes on. There must be one calculation at a time, none after
  expiry or stop, and cleanup only when none runs - and it must undo exactly
  what `start()` did, touching nobody else's files, and terminate.
* **Pipeline.** The simulator goes on after its timeout while the handler still
  runs, so handlers overlap; commits may be confirmed or not; the process may
  crash, also between two metrics. No row may be doubled or reported without being
  stored, and metrics must stay explicable by rows.
* **Analysis.** Two statements see a moving table; `measured_at` is the
  client's. The context must agree with itself, and a workflow must not be run
  twice because of a timeout.
* **Migration.** Jobs overlap and die; MySQL commits at every DDL statement and
  keeps dead clients' sessions, which may still execute. Nothing may be applied
  twice or on top of a half-applied revision, reports must stay true, and no job
  may hang on a dead one's lock.
* **Auth rollout.** The bootstrap looks at the users and creates one in separate
  transactions, and MLflow says nothing of a name that is taken; the runtime
  guard reads table after table while migration and bootstrap may be at work;
  processes are killed, and SIGTERM can come before there is a handler or after
  the leader of the group is dead. Two successful bootstraps must agree on the
  password, nobody may be created in or served from a half-migrated schema, and
  a forwarded signal must end the container.
* **Schema tool.** `CREATE TABLE` commits at once, whatever the surrounding
  transaction does: executions overlap each other, die after it, and meet
  objects of others, while the application already starts.
* **Classification.** Exceptions are linked in five ways, in cycles, and only
  24 are looked at. A permanent sign must not be overlooked, and nothing be
  retried without a transient one.
* **GitOps.** Evidence is taken at one time and compared at another; files of the
  checkout are edited between inspection and rendering, between two renderings, and
  between two files of one; two snapshots want one file. A PASS
  must rest on something that was really the case.
* **Backup.** Runs race for paths, S3 may lose answers, be asked again, or return other bytes.
  What is visible must be complete and verified; nothing is overwritten.

## 2. Modules and the code

| Module | Models | Abstract specification |
|---|---|---|
| `Startup` | `backend/startup.py`: `run`, budget, adapters | `DeadlineGate` |
| `FailureClass` | `backend/startup.py`: `_chain`, `classify_registry`, `classify_db` | `VerdictFitsCauses` is one |
| `AppStartup` (extends `Startup`) | `backend/main.py:78-160`, `backend/model_loader.py` | the `Startup` actions, synchronised |
| `SchemaInit` | `backend/initialize_schema.py`, `backend/schema.py` | - |
| `SchemaStartup` (extends `AppStartup`, `SchemaInit`) | the tool next to `validate_database` | both, synchronised on the table |
| `WriteFreeVerifier` | `backend/write_free_verifier.py`, hooks of `main.py` | `InferenceLease` |
| `MeasurementPipeline` | `simulator/main.py`, `POST /predict`, `backend/inference.py` | `MeasurementFeed` |
| `AnalysisRun` | `build_analysis_context`, `backend/dify.py` | - |
| `FencedMigration` | `k8s/mlflow/auth/fenced_migration.py`, `auth_config.py` | `MigrationLog` |
| `AuthBootstrap` (extends `FencedMigration`) | `k8s/mlflow/auth/bootstrap_admin.py` | - |
| `AuthServer` (extends `AuthBootstrap`) | `k8s/mlflow/auth/runtime_guard.py`, `auth_server.py` | - |
| `BackupRestore` | `tools/mlflow_backup_s3.py` | `DumpArchive` |
| `GitOpsGate` | `scripts/gitops_safety.py` | - |
| `*Proofs` | `StartupProofs`: `Startup`, `AppStartup`, `SchemaStartup`; `AuthProofs`: `FencedMigration`, `AuthServer`; `FailureProofs`, `VerifierProofs`, `PipelineProofs`, `AnalysisProofs`, `BackupProofs`, `GitOpsProofs`: the module of that part | - |
| `MC*` | instances for TLC | - |

`PROJECT.json`, key `map`, gives the lines of every definition.
Operators called `Bug...` stand next to a definition and give the form a
plausible bug would give it; no specification uses them, they document which
mistake each property detects (`PROJECT.json`, key `mutants`).

**Startup.** `Plan` is the list of `run()` calls a program makes. The state is
the frame of the call in progress: `call` and `attempt` are the loop variables,
`failure` and `reason` the classification and the `StartupError`, `now` the
clock, `wake` the end of the sleep. Each read of `remaining()` is a step:
`CheckBudget` (head of the loop), `EnterOperation` (snapshot of the allowance
by `registry_transport` or the database adapters; whole seconds for the
registry), `JudgeFailure` (the `except` branch), `ScheduleRetry` (the second read, against
the delay), `Wake`, `AcceptResult` (a success after the deadline is rejected).
`AdapterRejects` is a `StartupError` raised by a timeout adapter inside a
database attempt, which `run()` passes on. `raised` records what the last operation
really raised, apart from what was made of it. How exceptions are classified is
abstracted to the result, `retryable` or `permanent`, which is the subject of
`FailureClass`; calls without a classifier only fail permanently.

**FailureClass.** An exception is a node of a graph: its `kind` is what the
classifiers can tell of it (type, status, error code, errno), `links` what
`_chain` follows, in its order. `Visit` is an iteration of `_chain` (stack
`pending`, result `chain`, at most `limit`), `Classify` the verdict on what was
yielded. The property states the meaning of the verdict over `Involved`, the exceptions
reachable from the root, without a traversal or an order.

**AppStartup** lists the eleven `run()` calls of a start with
`MODEL_SOURCE=registry` (`Steps`) and conjoins each controller action with what
the code around it does: the download's temporary directory (`temps`), the list
the loader cleans (`downloaded`), environment overrides (`overrides`), `model`,
the dispose of the preflight engine after the schema check (`Dispose`), the
latch (`complete`), the second startup hook and the shutdown hook (`host`). The
last budget check (`Accept`) and the latch (`Publish`) are two steps, as in
the code: time can pass between them. The second hook runs with the latch set;
the shutdown hook clears it only if the verifier is enabled (`verifier`).

**SchemaInit, SchemaStartup.** `Inspect`, `CreateTable` and `Validate` are the tool's
statements; each sees and changes `schema` at once, as MySQL commits DDL
implicitly, and `Reject` undoes nothing. `Occupy` is somebody else's DDL. In
`SchemaStartup` the application's step "schema" can succeed only while the table is
readable; everything else interleaves freely.

**WriteFreeVerifier.** A step is the code between two awaits (event loop), one
file-system call of `start()` or `_cleanup`, or a step of the worker thread.
`pc` goes through `start()`, serving and `stop()`. A request is `unsent`, waiting for its
`body`, at `dispatch`, `awaiting` its calculation, and finally `answered`,
`rejected` or `cancelled`; its calculation is `queued`, `native` (in the thread),
`returned`, `done` (asyncio task completed) and `closed` (callback ran).
`path` and `entry` say whose directory and socket are at the well-known names,
`held` which identities were recorded. Every system call of `start()` may fail;
what it had created but not yet identified by then - a directory whose mode is not as asked
for, a socket that cannot be inspected - stays, since `_cleanup` only removes
identified inodes, and `NothingLeftBehind` says so. `StopCancelled` cancels `stop()` itself (second signal,
forced exit): while it awaits the server, it goes on to the
calculation; while it awaits the calculation, `CancelledError` passes the
`except Exception` and the `finally` cleans up with the thread still at work
(`cut`). The lease is then `abandoned` instead of `returned`, and the rest of
the properties still hold. `Interfere` is another process that
replaces directory or socket, once, before cleanup begins.

**MeasurementPipeline.** The simulator sends measurement `current` and waits;
`GiveUp` is its timeout or a connection error. Each handler runs its INSERT,
commit, two counters (`CountPrediction`, `CountAnomaly`) and four gauges as separate
steps. `CommitUnconfirmed` is a
commit whose confirmation is lost. `Crash` empties handlers and metrics and
keeps committed rows. `MeasurementFeed` knows no handlers: a measurement is taken,
recorded, told, counted and shown in single steps; for an anomaly the alarm follows
the count (`due`), and a service that did not learn of its own commit does not owe
the count (`owed`).

**AnalysisRun.** `SelectSummary` opens the transaction and fixes the snapshot,
`SelectRecent` reads from it; rows are inserted at any time. `Newest` is the
`ORDER BY ... LIMIT`: a row's place is the number of rows that go before it. The Dify workflow
starts, ends, is answered or not; the client may time out at every point, and even
the answer of a workflow that succeeded can be lost or refused (502).

**FencedMigration.** `Script` is the sequence of all DDL, DML and version-stamp
statements of all revisions. `Issue` hands one to the session after asking for
the lock's owner, `Execute` is the server: DDL commits what is pending and
itself. Of all that `MigrationLog` keeps three things: how many statements are in
effect, which checkpoints were reported, who reported success. It has no jobs
that overlap, sessions, locks or failures: a next piece of the script is applied,
a checkpoint is acknowledged while it is exactly what is applied, success needs
the whole script. `Abort` ends the job anywhere, leaving an `orphan` session that executes
on and keeps the lock until `EndSession`. `durable` is what is committed.

**AuthBootstrap, AuthServer.** `CheckUsers` reads revision, rows of the name and
the number of rows in one snapshot, `CreateAdmin` is MLflow's own transaction,
`VerifyAdmin` a fresh connection. Jobs may have different passwords, since a
secret can be rotated between them. `VerifyTables` and
`VerifyRevisionAndUsers` are the two reads of the runtime guard, `Forward` is the
signal handler with the group it reaches, `Relayed` the end of file of the
pipe all members hold. `Terminate` and `Kill` are the kubelet, `MemberEnds` a
process that ends for reasons of its own.

**BackupRestore.** Every run is a sequence of steps with its own temporary
file; the two published paths are shared; `bucket` is the list of object
versions. `PutAgain` is boto3's own retry after a lost answer (`create_s3_client` leaves its
default on): the same bytes are stored as one more version, of which a manifest names the last,
and `PutUnconfirmed` is when it gives up. `Complete` includes the check of the downloaded bytes, `Publish` is
`os.link`, `Unlink` the `finally` block. `Meddle` creates a foreign file or
rewrites the dump. `DumpArchive` is both commands as two atomic steps: `Archive`
puts a dump into an empty place, `Restore` copies it to an empty place, and only
a run that did one of them can `Succeed`; in between it may `GiveUp`. `Held` tells
what a file stands for there.

**GitOpsGate.** `repo` is what is wrong with each source of the checkout now: its
`form`, with which the inspection finds fault, or its `content`, which makes what is built
from it differ from the contract. `snapshot` is the `exists()` test, the answer with
`sanitize_live`, `O_EXCL`, the write; kubectl may find the Deployment in any state, and
`raw` keeps in which respects it differed. `check` reads one file at a time
(`unread`): `InspectSource` every source once, then `RenderSource` those of each overlay
again, since `kustomize build` opens base and patches anew each time (`BuiltFrom`), and
`ValidateRendered` judges at the end. `neverRight` and `missed` are history variables.
The checkout changes between any two reads.

External behaviour is modelled from how the code relies on it and is an
assumption: MySQL's REPEATABLE READ snapshot and implicit commit at DDL,
advisory locks that belong to sessions; `asyncio.shield`, callbacks run by the
loop, uvicorn's graceful timeout cancelling what is pending; object versions in
S3 that never change; SHA-256 distinguishing contents; `link(2)` failing on an existing
name, as `open(2)` with `O_EXCL`; MLflow's `bootstrap_admin_user` creating a user only
if the name is absent; a first process of a container that gets no SIGTERM it has
no handler for, and takes everything along when it ends; kubectl answering with
one state of the object. Nobody changes a user's password or deletes an evidence file
by hand. An interfering process is not able to create a socket owned by the
application's user.

## 3. Runs

| Run | Instance | Why that is enough |
|---|---|---|
| `startup` | five calls of all three kinds, 3 attempts, budget 11, delays 2 and 3 ticks, 2 ticks a second, clock to 13 | each kind of operation is followed by another one; the budget can run out in every call and at every point; both the capped and the uncapped delay occur; the clock passes the deadline by two ticks |
| `app_startup` | the real list of eleven calls, 3 attempts, budget 9, clock to 10; two schema tools, the schema empty, initialised or occupied; with and without a verifier | every exit of every step is reached before and after the deadline, including three download attempts, and the deadline can fall between the last check and the latch; the tools overlap each other and the start |
| `classify` | 3 exceptions, 2 links of the root and 1 of the others (`RootLinks`, `OtherLinks`), limits 2 and 3 (`Limits`; 24 in the code) | cycles, shared links, chains that exceed the limit and chains that just fit; every kind at every place |
| `verifier_safety` | 4 interchangeable requests, limit 3, age limit 2 | one request more than the limit; three can be between admission and calculation at the same time; expiry falls before, between and after them. Symmetry is sound: the run has no liveness property and no definition singles out a request |
| `verifier_liveness` | 2 requests, limit 2, age limit 1, no symmetry | shutdown with no, one finished and one running calculation and a stalled client |
| `pipeline` | 3 measurements of 2 servers, two of them anomalies, one crash | two measurements of one server overlap with each other and with one of another server; two anomalies can stand between their counters at once |
| `pipeline_latest` | 2 measurements, 1 server | smallest instance of the [finding](#6-finding) |
| `analysis` | 2 servers and "all", window 2 at time 3, times before, in and after it and both its ends, limit 2, 3 rows | more anomalies than the limit, equal times, insertion before, between and after the reads |
| `migration` | 3 jobs, 2 revisions, DDL, DDL-DML-DDL | a half-applied revision, a dead job, its orphaned statement and a successor, plus one more job in competition; starts from empty, the checkpoint and the head |
| `auth_rollout` | a migration of 2 revisions and 5 statements, 3 bootstraps with 2 passwords, a server that is restarted; no users, only a client, or the users of an earlier release | two jobs agree and a third differs; each can act between any two steps of the others, after a migration that died half-way too |
| `gitops` | 2 snapshots of one path, one check; 3 sources: one that two overlays share, one of a single overlay, one of Argo CD's (`MCSources`, `MCBuiltFrom`) | two competitors for the file; every fault of every source can come and go between any two reads, so a shared one can be wrong for one overlay only. Symmetry (the snapshots) is sound: invariants only |
| `backup` | 2 backups, 2 restores, 2 dumps, requests sent again below 2 stored versions (`MaxVersions`) | each path is raced for by two runs, restores follow a manifest of either dump, bytes are stored twice before an answer arrives. Symmetry (runs of one command, dumps) is sound: safety only, and no definition singles one out |

What they show:

* `startup`: `AtMostOneLateCall` - over all phases and attempts no more than
  one operation begins after the deadline (one can, between the check and the
  call); `NeverGivesUpEarly`; `RetryOnlyTransient` - what is repeated raised
  something transient, and a guard's `StartupError` is never taken for that;
  `ImplementsGate` - the controller implements `DeadlineGate`, and reaches a verdict
  if the operations it begins end.
* `app_startup`: `NothingOutlivesItsStep` - overrides, directories and the list
  to clean are exactly right at each point; `PublishedInTime` - a start that is
  undecided at the deadline never publishes, also when dispose consumes the rest of
  the budget. It does not say that the latch is set before the deadline, which the
  code cannot promise: nothing is checked after the last result was accepted;
  `ReadyOnlyWhenPublished` - the latch is gone when a startup hook has
  failed, and before an enabled verifier stops (it is set while the second startup hook
  runs, and stays set in a stopping process without a verifier);
  `UsableWhenClaimed` - whoever reports the schema usable, tool or application,
  is right, then and later.
* `classify`: `VerdictFitsCauses` - retried only on transient evidence, and
  up to the limit no permanent sign is overlooked and no transient one missed. A
  rejected name is permanent unless an HTTP answer, a timeout of the HTTP libraries or a
  temporary DNS failure outweighs it.
* `verifier_safety`: `OneCalculation`, `QuotaHolds`, `NothingLeftBehind`,
  `ForeignFilesKept`, `ImplementsLease`. `verifier_liveness`: `StopCompletes`.
* `pipeline`: `ImplementsFeed` - handlers, table, counters and gauges together behave
  as one feed: each measurement is recorded at most once, counted at most once,
  raises the alarm only when counted, is told and shown only when it is recorded;
  `MetricsMatchRows` - at every moment no counter runs ahead of what it counts, and
  when no handler is in flight they differ by the lost confirmations only (a scrape
  collects the counters one after the other, so what it reports need not be one
  moment); `GaugesShowStoredRows`, `SimulatorProceeds`.
* `analysis`: `ContextConsistent`, `RecentAreNewest`, `OneWorkflowAtMost`.
* `migration`: `AppliedOnceInOrder`, `OneWriter`, `SuccessMeansHead`,
  `EveryJobEnds`; `ImplementsLog` - all jobs together behave as one migration log:
  what is in effect only grows, a report names a checkpoint that is in effect
  when it is made, and success means that nothing is left.
* `auth_rollout`: `SuccessesAgree` - jobs that exit with 0 have the same
  password; `UsersOnlyOnHead`, `ServesOnlyOnHead` - users are created on, and MLflow
  admitted to, a completely migrated schema only, although checks and use are
  apart; `ForwardedTermEnds`.
* `gitops`: `PassRestsOnLive` - a comparison that passes rests on one moment
  without defects; `PassReadAsReviewed` - a check that passes has met every source in
  the right form during the inspection, and every source of an overlay with the
  reviewed content during that overlay's own rendering (not all in one moment, and
  the form is not looked at again); `EvidenceIsFinal`.
* `backup`: `ManifestMeansStored`, `RestoredMatchesManifest`,
  `OneSuccessPerPath`; `ImplementsArchive` - all runs together behave as one
  archive, whose two steps are atomic: nothing at a path is ever replaced, what is
  restored is what was archived, and no run succeeds on another one's file.

Deadlock is not checked where a run rightly ends: a start that failed, a
stopped verifier, sent measurements, an answered request, jobs and commands
that are over, a classified failure, a finished check.

Bounds that appear in guards: `MaxClock` in `Startup!Tick`, `MaxSeconds` as the
cap of `age` in `WriteFreeVerifier!Tick` (older is indistinguishable), `Measurements` and `MaxCrashes` in
`MeasurementPipeline`, `MaxRows` in `AnalysisRun!InsertRow`, `MaxVersions` in
`BackupRestore!PutAgain`. A clock that stops
at `MaxClock` is past the deadline by then, so nothing that happens after the
deadline is cut off.

## 4. Fairness

* `Startup`: time passes and the controller's own steps are taken. That an
  operation ends is not assumed: the module says itself that it interrupts none
  (`backend/startup.py:3-5`, `:244`). The liveness part of `ImplementsGate` is
  therefore conditional: a verdict is reached in behaviours in which no
  operation runs forever (`[]<>(pc # "calling")`). `AppStartup` and `SchemaStartup` have
  safety properties only and assume no fairness.
* `WriteFreeVerifier!FairSpec`: the event loop runs each ready callback, a
  request that was read is processed, a calculation on a thread ends, and
  uvicorn's shutdown ends after its graceful timeout of 5 s. Arrival,
  disconnection, crash, shutdown and the clock are not fair. The bounded receive
  of a body (a timeout in the code) is the reason why a request leaves `body`.
* `MeasurementPipeline`: only the simulator is fair; its `urlopen(timeout=5)`
  bounds each wait for the server, and a server that answers byte by byte forever is
  left out. Databases and handlers may hang.
* `FencedMigration`: a job that started goes on and is told about the end of its
  session or runs into `read_timeout`. The server owes nothing: it may execute a
  statement forever and keep a dead client's lock forever.
* `AuthServer!RolloutSpec`: `main()` goes on - its reads have timeouts - and a
  process that was sent a signal ends. Nothing is assumed of the jobs, of the
  kubelet, or of MLflow otherwise; in particular a group that was not signalled may live
  forever.
* `AnalysisRun`, `BackupRestore`, `FailureClass` and `GitOpsGate` have safety
  properties only.

## 5. Proofs

Eight modules hold theorems. They are valid for all values of the constants that
satisfy the named assumptions, which TLC evaluates in every run of the module:

| Assumption | Why the code satisfies it |
|---|---|
| `AppPlanAssumption` | the plan is the list of the eleven `run()` calls of a start |
| `ToolsAssumption` | no outcome yet is different from the three there are |
| `AnalysisAssumption` | window and clock are naturals, the window does not reach back before the epoch, `Field(ge=1, le=20)` bounds the limit, "all" is no server |
| `PolicyAssumption`, `PlanAssumption` | `Policy.__post_init__`: 1..3 attempts, positive budget, ordered delays; a plan is a non-empty sequence of supported phases |
| `LimitsAssumption` | limits are naturals, `None` is no request |
| `ErrorsAssumption` | a failure is a finite graph of exceptions |
| `ScriptAssumption`, `LineAssumption` | the revisions of MLflow's auth schema form one line, and alembic stamps the version last; that revision numbers grow along the script is spelled out, since it would take an induction to derive it |
| `CheckpointAssumption` | the approved snapshots are taken after a revision |
| `BootstrapAssumption`, `SnapshotsAssumption`, `BackupAssumption`, `PipelineAssumption` | distinct names for distinct things; counts are naturals, and there is a server |
| `SourcesAssumption` | each of the three paths is built from some of the sources |

**StartupProofs.** `IInv == TypeOK /\ FrameInv /\ AtMostOneLateCall /\
NeverGivesUpEarly`. The two properties are not inductive without `FrameInv`: that a
call in backoff still has an attempt left, that it really raised what it is judged by, something
transient in an operation with a classifier, and that a scheduled retry wakes inside the budget.
`AtMostOneLateCall` is preserved because the late operation can only continue to
`judge` or `accept`, where `Remaining = 0` leads to `failed`; `NeverGivesUpEarly`
because `Delay` is capped (`DelayIsCapped`) and an allowance is refused at less
than a whole second. `TypeCorrect`, `LateCallsBounded`, `GivesUpOnTime` and
`RetriesAreTransient` follow. `ImplementsGateSafety` shows initial states
mapping to initial states and each action to `Elapse`, `Pass`, `Reject` or a
stutter: the safety part of `ImplementsGate`.

The start of the application is the controller with one plan, except that a
success of "schema" waits for a readable table and that `Dispose` may turn the
success of that step into a failure. `StartInv` adds to `IInv` what its state has
to do with the controller's: `HostInv` (which points of the process go with which of
the controller), `DirectoryInv` (the one temporary directory is there from the start of
a download attempt until the package is loaded, and the loader's list has it from the end of
the download), `LatchInv` (the latch only behind the last step and never in an exited process,
a model from the package on), `SchemaInv` and `ContractInv` (a tool that exits with 0 and an
application past its check have seen a readable table, which nobody takes back).
None of the properties is inductive without it: that nothing is left behind by an
exit needs to know which directory was there at each of the eleven calls
(`StartInvariant`). `PublishesInTime` also follows a start past its deadline: one that is
not ready by then (`Overdue`) can only stay so, whatever succeeds later
(`OverdueIsFinal`). It yields `ResourcesAreReturned`, `NeverReadyTooEarly`,
`PublishesInTime` and `SchemaIsUsable`; `StartImplementsGate` and `StartKeepsBudget`
carry the theorems about the controller over to the whole start.

**FailureProofs.** `IInv == TypeInv /\ WalkInv /\ VerdictFitsCauses`. `WalkInv`: what
was yielded and what waits is involved in the failure, whatever a yielded
exception links to is yielded or waits, nothing is yielded twice. When the
traversal ends with an empty stack, what was yielded contains the root and is
closed under links, hence it is all of `Involved` (`InvolvedIsClosed`); when it ends
at the cut, it has yielded `limit` different exceptions, and a failure of no more
than that has no others (`NothingOverlooked`, by cardinality). `FirstIsFound` (a
least index) shows that the first network exception is found whenever there is one. `VerdictIsRight` follows for
the code's 24 as for any other limit.

**VerifierProofs.** `IInv == TypeOK /\ OneCalculation /\ LifecycleInv /\ FilesInv`.
`LifecycleInv`: `active` exactly in the serving phase; while `stop()` waits for
a calculation it is the only one that runs; none runs from cleanup on, unless
`stop()` was cancelled (`cut`), and then only the one it abandoned. The step that matters is
`LookAtSlot`: `stop()` looks at the slot once, and by then
`_active` is off, so no later `Verify` can start another. `FilesInv` relates what
is on disk to the recorded identities for each point of `start()` and of
`_cleanup`, which is what makes an identified inode removable wherever it failed.
`SingleFlight`, `CleansUp` and `ForeignKept` follow,
`QuotaRespected` uses `QuotaInv`: the requests that were admitted and may get, or
got, a calculation are finitely many, at most `counted` and at most
`MaxRequests`, since only `Arrive` adds one, and counts first.
`ImplementsLeaseForAll` is the complete refinement of `InferenceLease`.

**PipelineProofs.** `IInv` adds to the types: every row has the id its INSERT was
given and no two were given the same; nothing is stored for a handler before its
commit, and something is from `saved` on (`RowInv`); and an exact balance
(`CountInv`): rows = rows before this process + counted + commits whose confirmation
was lost + handlers that have committed and not counted yet, and counted anomalies = alarms
+ handlers between the two counters (`At(point)` is the set of handlers at a point, and
a step moves one of them from one set to the next). `StoredOnce`,
`CountersMatch` and `GaugesAreStored` are consequences. The balance also holds
after crashes. `PipelineImplementsFeed` is the refinement of `MeasurementFeed`. It needs one more
invariant, `Unprinted`: nothing was printed yet for the measurement the simulator
waits for, so an "error" never takes back an "ok". A commit is the
recording, with an id no other row has (`CommitFeeds`).

**AnalysisProofs.** `Newest` puts a row at the place given by the number of rows that
go before it. That this is a list at all is a matter of counting: no two rows have
the same number (`AheadGrows`), the numbers are less than that of the rows, so
each is taken (`PlacesAreTaken`, an injection into a set of the same size); so it
is ordered and what is left out goes behind (`NewestIsOrdered`). `IInv`: the tables have
one row to an id (`TableInv`), what the request knows is what its snapshot says
(`ReadInv`), and how many workflows were started and succeeded at each point
(`WorkflowInv`). `ContextIsConsistent`, `ListsTheNewest` and `OneWorkflow` follow.

**AuthProofs**, the migration. First the fence: a session that executes, holds uncommitted
statements or belongs to a job past the lock owns the advisory lock, so there is
one writer (`FenceHolds`, `SingleWriter`). Then `OrderInv`, which uses it: what is
durable, followed by what a job has pending and executes, is a beginning of the
script; where the job's loop stands tells which statement comes next; and every
reported state ends with a stamp (`OrderHolds`). A dead job's orphaned
statement is the next one of the script too, since it was issued by the owner of the lock that it still
has. `OnceInOrder`, `ReportsStay` and `SuccessIsComplete` follow; `Complete` holds
exactly if the last statement is durable (`CompleteIsHead`, `HeadIsComplete`) and is never lost
(`CompleteStays`). `MigrationImplementsLog` is the refinement of `MigrationLog`: a commit
or a DDL statement applies what was pending and no more (`StatementsApply`), a
report acknowledges a state that is durable by then, because nothing is pending after the
commit of a step (`ReportAcknowledges`), an end with 0 is a success at the head (`EndOfJob`).

The rollout builds on it. `AdminInv`: one row at most
carries the administrator's name, and a job that exits with 0 has seen its own password in it
(`AgreedAdministrator`, from the unique name alone). `RolloutInv`: from the moment a bootstrap or the guard has
read the head revision, the schema is complete and stays so, and from the guard's
second read on the configured administrator is the only one among the users, of which
there may be others (`RolloutHolds`); hence
`ServedComplete` and `UsersCreatedComplete`. The composition still implements the
log (`RolloutImplementsLog`).

**BackupProofs.** `IInv` says for each point of a run what it knows: a backup past
the check has bytes that S3 stores under its version, a restore past the reading works from
the manifest that is published still, a private file about to be linked is complete. Other runs
cannot disturb it, because versions never change and a taken path stays taken
(`OthersKeep`); at most one run owns a path (`OneOwner`), as `os.link` needs it free.
`ManifestStored`, `RestoredIsBackedUp`, `SuccessIsUnique` and `PublishedStays`
(an action property) follow. `RunsImplementArchive` is the refinement of `DumpArchive`: the
moment of a successful `os.link` is the atomic step, since by then `IInv` knows
what the linked file holds and, for a restore, that the manifest it was read from is still
the published one (`LinkArchives`); any other step of a run reports success, gives
up, or is not seen (`FilesStay`).

**GitOpsProofs.** `IInv` relates the evidence file to the one run that created it
(`FileInv`), and what a check has read to what the sources were meanwhile (`CheckInv`):
a file that has been faulty ever since its part began (`neverRight`) is still faulty, and
either is still unread or has left its mark (`flawed`), so that a part can only be
missed by a check that is going to fail. It gives `PassNeedsEvidence`, `PassReadEverything`, `EvidenceKept`.

**Only model-checked.** Liveness - `<>Decided` in `ImplementsGate`,
`StopCompletes`, `SimulatorProceeds`, `EveryJobEnds`,
`ForwardedTermEnds` - and `ENABLED`, on which fairness rests, are out of the prover's
reach. Every safety property that a passing run checks is a theorem, except that
of `ImplementsGate` the safety part is proved. `GaugesShowLatest` is false, see below.

## 6. Finding

`GaugesShowLatest` (`pipeline_latest`). The help texts of the four server gauges
say "Latest CPU usage", "Latest memory usage" and so on
(`backend/main.py:56-74`). A handler the simulator gave up on keeps running; when
it is overtaken by the next measurement of the same server, its later gauge writes
(`backend/main.py:240`) leave the older values, or a mixture of both
measurements, until the next measurement. `GaugesShowStoredRows`, which the
`pipeline` run checks, is what does hold.

## 7. Not modelled

* Verifier: replacement of `app.state.model`, errors of `close()` and `unlink()`,
  interference between the identity check and the removal of one entry.
* Application start: `MODEL_SOURCE=local` (a single local step), contents of the
  model package, I/O errors while removing a temporary directory.
* Pipeline: several API replicas; the history and metrics endpoints, which only read.
* Analysis: the text of the payload and the exact error code of each failure.
* Migration, bootstrap, guard: target policy, configuration and TLS checks only pass or fail
  (`Abort`, `BootstrapFails`, `Rejected`). An administrator who changes passwords or creates users
  while the server runs is not part of the rollout.
* Read-only proxy (`read_only_auth.py`): a table of allowed requests without
  state. Redaction of child output: a filter on text.
* `launcher.py`: starts and signals its child as `auth_server.py` does, whose model
  is `AuthServer`.
* Schema fingerprint: parsing of `SHOW CREATE TABLE`.
* Schema tool: the checks of `db_config.py` only pass or fail (`Reject`).
* Backup: identities, prefixes and permissions only pass or fail (`Error`). How often the
  S3 client retries is left open up to a bound.
* GitOps: how a difference between documents is found; whether there is one is a
  fact about each source (`form`, `content`). The set of sources and what a path is built
  from are fixed, while the code lists the directory and follows references when it gets
  there; files of one part are read in any order.
* Training, data generation, manifests and dashboards: no state
  that changes concurrently, or purely declarative.

## 8. Plan

Done: all modules of section 2, in the order `DeadlineGate`, `Startup`,
`InferenceLease`, `WriteFreeVerifier`, `AppStartup`, `MeasurementPipeline`, `AnalysisRun`,
`FencedMigration`, `BackupRestore`, then the cancellation of `stop()`, `AuthBootstrap`, `AuthServer`, `SchemaInit`,
`SchemaStartup`, `FailureClass`, `GitOpsGate`, then the abstract specifications
`MigrationLog`, `DumpArchive` and `MeasurementFeed`; and the proofs of section 5.

Left, in order of worth:

1. Functional models of `effective` of the schema fingerprint and of the allow list of
   `read_only_auth.py`, against a reference definition.
2. Several API replicas in front of one table.
3. An abstract specification of `AuthServer`'s rollout, on top of `MigrationLog`.
