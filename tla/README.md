# Curator_Agent: TLA+ verification project

Curator_Agent keeps a registry of trading-analysis skills (pieces of Python code) in a
SQLite file, takes them through a lifecycle of validation, approval and deployment, and
executes approved skills in a sandbox, on this machine or on a remote worker. This
project models the parts of it that keep state or wait for each other, and the computations
that its answers rest on, checks them with TLC on small instances, and proves with TLAPS every
safety property that the passing runs check, for every value of the constants.

Run a model with `tlc -workers 2 -config X.cfg M` and a proof with `tlapm M.tla`.
`PROJECT.json` lists components, runs, mutants, the map from definitions to source lines,
findings, hazards and theorems.

## 1. Inventory

| Component | Source | State | Operations | What makes it correct |
| --- | --- | --- | --- | --- |
| Skill registry | `app/registry.py`, lifecycle handlers of `app/main_legacy.py` and `app/version_api.py` | table `skills` (one row per skill: family, version, parent, code, stage, approval, immutable, notes) | register, create version, approve, approve from backtest, deprecate, promote, rollback | one champion per family; deployed skills are approved; family and version identify a skill; parents are in the family; notes explain the row |
| Start-up | `app/main.py`, `app/main_legacy.py`, `app/seed_skills.py` | the same table | migrate, seed, each twice per start | served rows are migrated; the service can always start again |
| Worker authentication | `app/sandbox_worker.py`, `app/worker_protocol.py` | nonces with expiry times | admit a signed request | a request is admitted once; a refused copy uses nothing up |
| Worker execution | `app/sandbox_worker.py`, `app/container_sandbox.py` | semaphore, thread pool, containers | queue, execute, answer, restart | permits are conserved; every admitted request is answered; refused means not run |
| Remote client | `app/remote_sandbox.py` | none | sign, send, wait, readiness | what it reports is true of what the worker did |
| Execution pipeline | `execute_skill`, `app/performance_aware_executor.py`, `app/schema_enforcing_executor.py`, `OptionalContainerExecutor` | fallback counter | check, run, fall back, validate, annotate, log | code leaves the container only if allowed, and counted; answered outputs are valid; answers are logged; every request is answered |
| Process runner | `app/executor.py` | child process, queue | start, wait, read | the verdict reported is the child's; the wait ends |
| Container runner | `sandbox/runner.py` | none | run code, print a verdict | - |
| Database client | `app/database_client.py` | none | log, rank, backtest status | failures are answers, not exceptions |
| Validator | `app/validator.py` | none | screen a syntax tree | unsafe code is never deployed (its verdict is an input here) |
| Schema contracts | `app/schema_contracts.py` | none | validate a value | a value that passes satisfies every keyword, at every depth |
| Performance intelligence | `app/performance_intelligence.py` | none | calibrate a confidence, assess decay | the result lies between claim and record, by the weight of the evidence; units do not matter |
| Recommendations | `app/recommendations.py` | none | match, score, gate, sort, cut | every match is recommended or rejected; evidence decides the order |
| Shadow ensemble | `app/shadow_ensemble.py` | none | select, run one skill after the other, take a consensus | the selection is diverse; a signal has the weight that was asked for |
| Performance policy | `app/performance_policy.py` | none | turn deltas into actions | nothing is applied without review unless that was cleared; each delta leads to one action |
| API authentication | `app/security.py` | keys read at start | derive keys, check a request | a key opens what it was given out for; no role is open or unreachable |
| Readiness | `app/readiness.py` and the probes of the executors | none | report | what it says holds for the executions that follow |
| System contract, models | `app/system_contract.py`, `app/models.py` | none | static data, request types | - |

How they interact. Handlers of the API are `async def` functions that never await, so one
process serves one request at a time and a blocking execution blocks the process;
`Dockerfile` starts one process. Processes meet in the SQLite file only (a rolling restart,
several workers). The API calls the sandbox worker and Database_Agent over HTTP and the
docker daemon through its client. Inside the worker, two blocking calls per request go to
one thread pool.

What is hard: promotions and migrations that consist of several transactions and may be
cut short; reads in one transaction and writes in another; a unique index as the only
guard between two processes; an in-memory replay guard next to a clock window; waiters and
holders of a semaphore in one pool; a client timeout racing a late answer; a child process
with a bounded pipe; a telemetry failure after the work is done. `PROJECT.json` lists each
at its line under `hazards`.

## 2. Modules

| Module | What it is |
| --- | --- |
| `SkillRegistry` | the table and the processes that work on it, one SQL statement per step |
| `FamilyChampions` | abstract specification: what clients may rely on about champions |
| `MCSkillRegistry` | constants of its runs |
| `SkillRegistryProofs` | theorems for any number of processes |
| `SkillRegistryChampionProofs` | theorems for one process, and the refinement of `FamilyChampions` |
| `WorkerAuth`, `MCWorkerAuth`, `WorkerAuthProofs` | admission of signed requests; theorems |
| `SandboxWorker`, `SandboxWorkerProofs` | remote calls, network, worker; theorems |
| `SchemaContracts` | validation against a schema, as a recursive function |
| `Readiness` | the readiness probes as functions of what is down |
| `PerformanceIntelligence` | calibration and decay, in exact fractions |
| `SkillExecution`, `MCSkillExecution` | the execute and readiness endpoints over their executors; composes the three above |
| `SkillExecutionProofs`, `SkillPerformanceProofs` | theorems about it |
| `Sorting` | sorts by a key and cuts of a list |
| `Recommendations`, `ShadowEnsemble`, `PerformancePolicy` | the computations of the advisory endpoints |
| `Advisory`, `MCAdvisory` | the three advisory endpoints beside other processes; composes the three above |
| `AdvisoryProofs` | theorems about them |
| `ApiAuth`, `ApiAuthProofs` | keys, roles and the middleware; theorems |

### SkillRegistry

`skills` maps skill ids to rows; a row has the columns that some operation reads or writes
again (names, tags and schemas are written once and left out). `code` is a value, and equal
values stand for equal hashes. A note keeps its action and, for a promotion, the stage it
names. Each process has a program counter and the locals of its handler (`entry`, `move`,
`todo`, `victim`, `seen`, `prior`).

One step is one read or one committed write. `register` is `RegisterCheck` (its SELECTs, in
one connection) and `RegisterInsert` (which meets the table's constraints again).
`_transition` is `Read` and `Write`: the UPDATE writes values computed from the row that was
read before, also when another process wrote in between. `promote` is a guard, `Champions`
(the SELECT), a `ReadOld`/`WriteOld` pair for each replaced champion and `Read`/`Write` for
the skill itself; `rollback` first reads the champion that it will report. A start runs
`InitDb`, registration and approval of the seed, and all of it a second time, because
importing `app.main` runs the `create_app` of `main_legacy` and then its own. Requests that
are answered 400 or 404 before any write have no step.

`Crash(p)` ends a process anywhere; `WriteFails(p)` makes any write raise. `_init_db` is one
step: SQLite rolls back its UPDATEs when the process dies, and the statements that Python
commits before them only add columns with defaults, which a repetition skips.

External: the answer of Database_Agent to the backtest question (three kinds), and the
validator's verdict (`SafeCodes`).

### WorkerAuth

A clock with whole seconds and fractions, the signed timestamp of each request, the guard's
entries, and a log of admissions. An entry has the place of its admission in the log; the
places are the order of the guard's `OrderedDict`. An arrival is one step (the middleware awaits
nothing between the body and `consume`) in which the clock is read twice and may advance in
between. `Room` drops the oldest entries when the guard is full, `Expiry` is twice the
skew. A restart empties the guard. A damaged copy may pass for timely and then fails at the
signature.

The model assumes that the API's clock is ahead of the worker's by at most `MaxAhead`, with
`MaxAhead + 2 <= MaxSkew` (the default skew is 30 seconds). With a clock that is ahead by
about the whole skew the entry's lifetime of twice the skew, counted from the first arrival,
no longer covers the window of the staleness check.

### SandboxWorker

Calls, copies of their requests in the network, nonces, tasks in the worker, permits,
answers, containers. The two `run_in_threadpool` calls are a wait for a thread and the work
on it. Time is left to the scheduler: a timeout may happen whenever the code could still
see it. An execution ends with a verdict, a timeout, a container that fails or cannot be
started, or an exception; each gives the permit back and is answered in its own way. A
container belongs to the docker daemon: after a timeout or a restart it may go on.
`Duplicate` (for the calls in `Repeated`) and `Lose` are the network's. A docker client that
fails to start a container counts as a run that ends at once, so `runs` is an upper bound.

### SkillExecution

One process, one request at a time, every setting of backend, fallback, required telemetry
and database. `result` is what the executors pass on; `runs`, `fallbacks` and `logged`
record what happened. The child of `SafeSkillExecutor` runs beside the endpoint: it may
never end, put a verdict that fits into the pipe's buffer and exit, put a larger one and
block (`"large"`), or be killed (`"killed"`). `Get` has no alternative for half a message:
the parent holds the write end of the pipe too, so the read neither fails nor ends.

A skill returns a member of `RawOutputs`. The two runners check it by their own rules (two
lists of forbidden keys, two rules for the confidence), then `SchemaEnforcingExecutor`
validates it with the operators of `SchemaContracts`. `Accepted[v][s]` says that the list
of errors for a value and a schema is empty; `SchemaAssumption` keeps to the supported
keywords and closes both sets under parts. `AnsweredOutputIsValid` compares the outcome with
`Conforms`, a second definition that reads a schema keyword by keyword without the code's
order and early returns. `down` holds the dependency that is down (workspace, docker binary,
daemon, image, worker); `DependencyChanges` changes it between requests and before the
backend looks.
`GET /ready` is an action of the same process over `Readiness`, and `probe` keeps what it
said until a dependency changes. `history` is what Database_Agent knows of the skill
(metrics, their unit, observations), external, under the keys that `Ranked` gives it;
`Annotated` is what `PerformanceAwareExecutor` adds to a success. Remote execution appears by its outcomes,
which `SandboxWorker` explains.

### Advisory

The API keeps nothing between requests, so `Deliver` empties everything but `rows`. A
recommendation and a policy are one step: they list the skills once, or not at all, and
nothing else of what they read changes under them. An ensemble is a selection from one
list and then a step per skill, which reads the row again and runs it; `ChangeRow`, an
approval, deprecation or promotion by another process, comes in between. Rankings and
backtests are external: any function from known skills to `Scores`, any set of passed
skills. Texts that are only compared (ids, families, versions, tags, contexts) are numbers
in the order of the texts. Weights of votes are exact where the code has floats.

`list.sort` is external: `Sorted(key)` puts each member at the place that the number of
smaller keys gives it, with keys compared as Python compares tuples. The keys end in an id
or a time of creation, which is kept to the microsecond, so no two are taken to be equal. A
descending component is negated. In
`_select_skills` the loop over `seen_groups` and the one over `deferred` amount to a sort
with the first of each group (`Leads`) in front; the cut at `max_skills` comes last in both.

### ApiAuth

`Start` derives the effective keys from any environment (shared, read, execute and admin
key, `APP_ENV`, `ENVIRONMENT`, the explicit requirement) or fails, as `from_env` does.
`Serve` takes any handler of the application with any key. The handlers are a table of
method, path and what the handler does (reports, reads, runs, writes), written from the
routes; the role of a request is found from its path, as `_required_role` does, so that the
two can disagree.

## 3. Runs

| Run | Bounds | Shows |
| --- | --- | --- |
| `champion` | 1 process, 2 skills, 2 versions, 6 requests and starts, crashes and failed writes | `OneChampionPerFamily`, `DeployedImpliesApproved`, `RollbackReportsReplaced`, `HistoryIsAppendOnly`, `ImplementsFamilyChampions`, types |
| `startup` | 1 process, 2 skills, safe and unsafe code, an old row, 6 requests and starts, crashes | `SeededServiceStarts`, `ServedRowsMigrated`, `PromotionCompletes` |
| `shared_file` | 2 processes, 2 skills, safe and unsafe code, 7 requests and starts, crashes | `FamilyVersionIdentity`, `LineageSound`, `UnsafeNeverDeployed`, `AuditTrailExplainsState` |
| `worker_auth` | 3 requests, room for 2 nonces, skew 3 s, 8 s, 2 readings per second, 1 restart | `AdmittedOnce`, `HeldMeansAdmitted`, the shape of the guard |
| `sandbox_worker` | 3 calls (one malformed, one repeated by the network), 1 permit, 1 thread, 1 restart | `PermitsConserved`, `RunsOnce`, `RefusedNeverRuns`, `ResultMeansEnded`, `AdmittedIsAnswered`, types |
| `execution` | 2 requests, all settings, either child fault, one dependency down | `UncontainedRunsCounted`, `VerdictEndsRuns`, `AnsweredOutputIsValid`, `ReadinessForetells`, `FallbackReported`, `AnswerIsLogged`, `CalibrationFollowsEvidence`, `HealthIgnoresUnits`, `RequestAnswered`, types |
| `advice` | 3 skills in every combination of rows, rankings and backtests, 1 change during a request | `RecommendationAccounts`, `EvidenceOrders`, `EnsembleIsDiverse`, `TrustedSignalIsBacked`, `AutoApplyIsCleared`, `DeltasAccounted` |
| `api_auth` | 3 keys for 4 variables, all environments, all handlers | `PrivilegeWasGranted`, `AuthenticatedAndReachable` |
| `deprecated_again` | as `champion`, no faults | violated: a deprecated skill is approved again |
| `registered_champion` | clients register at the stage champion | violated: two champions |
| `execution_child_killed` | process runner, 1 request, both child faults together | violated: the request is never answered |
| `execution_order_id` | container, 1 request | violated: an output with an `order_id` is answered as a success |

Why the bounds are enough. A promotion conflict needs two skills of one family; the seed
is approved by the start, so six requests leave room for a second version, its approval,
two promotions or a rollback, and a deprecation or a restart. The duplicate registration
needs two processes, and a start for each. The guard holds two nonces so that three
requests overflow it; its clock passes the six seconds of an entry's life. One permit and
one thread are the tightest worker; three calls give a holder, a waiter and one more.
Two requests to the pipeline show what one leaves behind for the next (the counter, the
last probe); a third adds nothing, since nothing else is kept. The sets of
outputs, schemas and histories in `MCSkillExecution` have a member for each branch of the
runners and keywords, and lie on both sides of the limits (30 observations, 1.0, the limits
of decay), with metrics, or the whole history, missing.
Three skills are two in one group and one in another, so that a selection of two has to
defer; the deltas and scores of `MCAdvisory` lie at, below and above each threshold.
Deadlock checking is off because a bound on requests, calls that are all over, or a failed
start ends every behaviour; in `advice` it is on.

Properties that hold for one process only (`champion`, `startup`) are checked for one
process, as deployed. With two, the stale reads of `_transition` and `promote` can
leave two champions, a deployed skill that is deprecated, and lost notes; `shared_file`
checks what holds regardless: whatever is deployed was validated and approved once
(`UnsafeNeverDeployed`), although no longer at the moment of its deployment.

Fairness. Registry: a process that is in a handler goes on (`WF` of `Continue`); nobody has
to send a request, and `PromotionCompletes` excepts a process that goes down. Worker: the pool serves its queue, `acquire` and `docker run` have
timeouts, and so does the client. Pipeline: the endpoint's steps (docker run, join and HTTP
calls have timeouts) but nothing of the child or of other processes.

Every property of a passing run has a mutant in `PROJECT.json`: an operator that changes a
modelled definition as a slip in that code would, under which TLC finds the property
violated.

## 4. Findings

* `approve` does not look at the current approval, so deprecation is not final; the seeding
  undoes it at every start.
* `register` stores the stage that a client sends: two champions, one of them a draft.
* A child of the process runner that is killed while it writes a verdict larger than the
  pipe's buffer blocks the API process for ever.
* The runner in the container has another list of forbidden output keys than the process
  runner: an output with an `order_id`, which a test expects to fail, is answered as a
  success by the default backend.

Divergences that are in the models but have no run of their own:

* `APP_ENV` hides `ENVIRONMENT`: `APP_ENV=staging` with `ENVIRONMENT=production` is not
  production to `security.py`; `docs/AUTHENTICATION.md:29` says either is enough.
* A reported `skill_score` of 0.0 is falsy and replaced by a fallback score of at least 0.5
  (`recommendations.py:101`); `EvidenceOrders` leaves it out.
* A percentage of at most 1.0 is read as a rate (`performance_intelligence.py:40`); the
  properties exclude rates that can be mistaken.
* A guardrail with the text `"false"` counts as true (`performance_policy.py:18`), and an
  enum of a schema accepts `True` for 1.
* The ensemble does not look at the approval again: a skill that is deprecated between
  selection and run still votes, with at most half a weight. The `calibrated_confidence`
  that it prefers is a key that `PerformanceAwareExecutor` never writes.
* A fallback execution whose required telemetry fails is answered 503, without
  `fallback_used`; `FallbackReported` is about answers of 200.
* Versions are ordered as texts (1.10 before 1.9) in recommendations and ensembles.

## 5. Proofs

Every theorem holds for all values of the constants that satisfy the module's named
assumptions (their types, and that `None`, `NoRow` and the like are not among the values).
Where a theorem needs more, the hypothesis is in its `ASSUME` and below. Each rests on an
inductive invariant, shown to hold initially and to be kept by every action.

**Registry, any number of processes**

* `TypeCorrect`. `TypeInv` adds `Control`: at each label the locals that the next steps use
  are set, and the skills they name are stored. Without it `Read` could read a row that is
  not there.
* `FamilyVersionUnique`, `ParentsAreFamily`. `IdentityInv` adds that a process beyond the
  migration leaves no row without a family (`Migrated`; the unique index ignores NULLs, so
  the argument needs it) and that the parent checked by `RegisterCheck` is still right when
  the INSERT comes (`ParentsKnown`; rows are never deleted and families never change).
* `NotesExplainStatuses`. `AuditInv` adds that the row a handler has read (`seen`) is
  explained by its own notes, and that the note of the pending move sets what the move sets:
  the UPDATE writes a whole row from one read, so a stale write replaces one explained row
  by another.
* `RefusedCodeStaysOut`, if clients register at `candidate` or `retired`
  (`UndeployedRegistrations`; `registered_champion` shows why). `VettedInv` adds that a
  pending approval or deployment has seen its skill validated, which no other process can
  undo because `validated` is written once.

**Registry, one process** (`OneProcess`, the deployment of `Dockerfile`; with two, stale
reads can leave two champions and lose notes, section 3)

* `SingleChampion`, `DeployedSkillsApproved`, also under `UndeployedRegistrations`.
  `ChampionInv` adds `Promotion(p)`: what a handler still has to do covers all champions
  that its last write would collide with, and what its guard established still holds.
* `RegistryImplementsFamilyChampions`, under the same two: with the champion of each family
  and the approved skills read off the rows, the initial states map to initial states and
  each write to `Approve`, `Deprecate`, `StandDown`, `Crown` or a stutter. It uses
  `ChampionInv` (a champion stands down before its successor is crowned) and `AuditInv`.
* `HistoryOnlyGrows`, `ServedTableIsMigrated`, `RollbackReportIsTrue`. `SoleInv` adds that
  the row which the handler has read is still the row in the table (so that a write only
  appends), that approved rows of a migrated table are immutable, and that a champion which
  the rollback read is either still to be replaced or was retired by it.
* `SeededStartsSucceed`, if the seeding is on in every start (`SeedingAlwaysOn`), the
  seed's id is not one of the old rows (`SeedIsNew`), and no write fails
  (`WritesSucceed`: a write that fails in a seeding is a failed start). `SeedInv` adds that nothing is served
  before the seed is stored, so that no client can take its id, family or version.

**Worker authentication**

* `GuardTypeCorrect`, `HeldNoncesWereAdmitted`: no hypotheses.
* `RequestsAdmittedOnce`, under `ClocksAgree` (`MaxAhead + 2 <= MaxSkew`, section 2).
  `AuthInv` adds that entries expire in the order of their places (`Ordered`), and that an
  admission since the last start is still held, or is out of the window of the staleness
  check for good, or has `MaxEntries` other nonces admitted after it (`Covered`).

**Worker execution**

* `WorkerTypeCorrect`, `PermitsAreConserved`, `CallsRunOnce`, `RefusedCallsNeverRun`,
  `ResultsMeanEnded`: no hypotheses. `WorkerInv` adds that what is being served has used
  up its nonce and has not run in this life before its `docker run`, and what each answer
  under way says of runs, tasks and containers.

**Execution pipeline**

* `ExecutionTypeCorrect`, `FallbacksAreCounted`, `RunsEndWithVerdict`,
  `FallbacksAreReported`, `AnswersAreLogged`, `ProbesForetell`: no hypotheses. `ExecInv`
  adds what each label of the endpoint still owes: a result is untouched before the backend
  has been chosen, a second run follows only a container without verdict, nothing is logged
  before telemetry, an unavailable container is explained by what is down, and `probe` by
  an outcome of the probes over the same dependencies.
* `ValidatorReadsEveryKeyword`: `Accepted` and `Conforms` are the same function. Both are
  recursive, and induction over values is out of reach, but none is needed. For any answers
  about the parts, reading a schema in the code's order and keyword by keyword ask the same
  of the whole (`SameQuestions`), so the two recursions have one equation and define one
  function. That the equation has a solution at all, so that the function means what it
  says, is `RecursionHasSolution`: a value accepted because of some parts is accepted
  because of more, hence the smallest closed set of pairs solves it.
* `AnsweredOutputsAreValid`, with the theorem above. `RawOutputsAssumption` is
  about the set of outputs: dicts have properties, null is no number, and an output stays a
  value when its confidence becomes a float.
* `ConfidenceFollowsEvidence`, `HealthIsUnitless`. `Annotations` adds that a result is
  bare until `Annotate`, and then has what the history of its own request gives it. The
  lemmas follow a history through the keys, units and limits of the code to its metrics,
  and show that the blend lies between its parts for every confidence, rate and number of
  observations. `HistoriesAssumption` is about the external data: a history has one
  reliability (`win_rate`), and its rates are from 0 to 1.

**API keys**

* `PrivilegesWereGranted`, `ProtectedAndReachable`: no hypotheses. `AuthInv` says that the
  effective keys are those `from_env` derives from the environment, and that the last answer
  is the middleware's. The lemmas go through the table of handlers: each that writes is
  found to need the admin role, each that runs code execute, each that reads, read.

**Advisory endpoints**

`AdvisoryAssumption` says that the catalogue is finite, that ids, families, versions and
times of creation are numbers and that no two skills have the same time of creation;
`RequestAssumption` repeats the limits of the request models; `OutputAssumption` says that a
confidence which `float()` accepts is a number.

* `AnswersOfRequests`. `AdviceInv` says that each answer is computed from the request that
  is being served, from the list that it took and from the runs it made (`Answered`), that
  the ensemble was chosen from that list (`Selected`), and what the endpoint holds at each
  label (`Served`). Rows change under it; list, request and choice do not. The other
  theorems are about the computations, for any list, request and runs that it admits.
* `RecommendationsAccount`, `EvidenceAlwaysOrders`. A sort by distinct keys is a bijection
  from places to members in the order of the keys (the members with a smaller key are a
  proper subset for the smaller of two, so no two have the same number of them), and a
  cut is a prefix that contains, with a member, all that come before it.
* `EnsemblesAreDiverse`. The leaders of the groups are as many as the groups and come
  first, so a prefix either has leaders only, each of another group, or all groups.
* `TrustedSignalsAreBacked`. A sum of weights over a finite set is the number of its slots,
  as many pairs for a member as its weight (`SumCounts`, by the smallest set for which the
  fold would differ); unions, subsets and bounds of sums are then facts of cardinality. A
  vote weighs no more than its stage allows (`VoteWeightBound`), and a share stays
  reached when the weight for it grows (`ShareKept`).
* `AutoApplyIsAlwaysCleared`, `DeltasAreAccounted`: action by action through the three
  loops and the final pass of `curate_performance_policy`.

**Model-checked only**

* Liveness (`PromotionCompletes`, `AdmittedIsAnswered`, `RequestAnswered`): the prover has no
  rules for fairness. That the promotion goes on, and that every request is answered, is
  checked on the instances of section 3.

## 6. Not modelled

* The validator: a static check over Python syntax trees. The registry takes its verdict as
  a set of safe sources, the pipeline as a nondeterministic choice.
* NaN, infinities, rounding to six places, and the order of float additions in the
  consensus. Numbers are exact, in hundredths or millionths.
* Schemas whose keywords have the wrong type, and a `skill_score` that is no number.
* Static data: the system contract, the version endpoint, tags, texts and identifiers of
  payloads, paths and headers of HTTP calls, the limits and mounts of `docker run`.
* HMAC and the comparison of keys: a signature or a key is right or wrong.

`PROJECT.json` gives the reason for each component.

## 7. Plan

1. Done: `SkillRegistry` with its runs and first theorems, `WorkerAuth`, `SandboxWorker`,
   `SkillExecution` with `SchemaContracts`, `Readiness` and `PerformanceIntelligence`,
   `Advisory` with `Recommendations`, `ShadowEnsemble` and `PerformancePolicy`, `ApiAuth`.
2. Done: the proofs of section 5, for every invariant and action property of the passing
   runs.
3. A composition of `SkillRegistry` and `SkillExecution` through the row that the endpoint
   reads. So far `ChangeApproval` and `ChangeRow` stand for the registry there.
