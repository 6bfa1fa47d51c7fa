# Reconductor: a verification project

TLA+ models of the parts of the platform whose correctness depends on
interleavings, crashes and order, or on decisions that are taken once and used
later: the Redis job queue and its workers, the execution budget, the workflow
engine with its task and approval controls, the scope gate, the storage of
results and their retention, and the decisions of targeting, policy and
classification.  TLC checks small instances; TLAPS proves the invariants and
action properties of every component for every value of their constants.

`PROJECT.json` lists components, runs, faults (mutants), the map from definitions
to source lines, findings, hazards and theorems.

## 1. Inventory

| Component | State | Operations | Interacts with |
| --- | --- | --- | --- |
| Job queue (`internal/queue`) | jobs stream and consumer group, retry sorted set, dead-letter and results streams, all in Redis | Dispatch, Enqueue, Read, ClaimStale, Touch, Ack, Fail, PumpRetries, RetryDeadLetter | workers, console and CLI |
| Worker service (`internal/worker`) | per consumer: the delivery being handled and the rest of a claimed batch | Run, consume, handle, lease routine, tickers | queue, budget, registry, store |
| Execution budget (`internal/budget`) | three counting maps and a wake-up channel under a mutex | Acquire, release | workers, workflow engine |
| Workflow engine (`internal/workflow`) | run state (run and step statuses, input hashes, outputs), `finished`, `blockedApprovals`, wave outcomes, `Controls` | Run, executeWave, executeStep, save, resume | command line, store, budget, executor |
| Command line (`cmd/platform`) | none of its own; writes the task row | workflow run, run retry, task pause/resume/cancel, approvals approve/reject, queue retry | store, engine, queue |
| Store (`internal/database`) | tasks, workflow_runs, step_runs, approvals, artifacts, scope snapshots, audit events in PostgreSQL | SaveWorkflowState, PersistResult, SetTaskStatus, DecideApproval, CheckAndRecordScopeSnapshot, DeleteArtifact | everything |
| Execution service (`internal/execution`) | none | Execute: registry, artifact, PersistResult | engine, store, artifacts |
| Registry and policy (`internal/capability`, `internal/policy`) | registered capabilities | Validate, Execute, EvaluateAt, shares, scan windows | dispatcher, worker, engine |
| Artifacts and retention (`internal/artifact`) | files and rows with an expiry | Put, Delete, PurgeExpired | worker, CLI |
| Scope and targeting (`internal/scope`, `internal/targeting`) | compiled rules | Compile, Evaluate, Plan, filters | registry, CLI |
| Findings, assets (`internal/findings`, `internal/assets`) | status of a finding, observed assets | Transition, Verify, Compare | workflow steps |
| Providers, output parsing, normalisation, classifier | none | build arguments, run a process, parse | capabilities |
| Migrations (`internal/migrations`) | applied versions | Up | store |
| Console, doctor, configuration, redaction | none | read queries, checks, parsing | operators |

What is hard in this code: several worker processes and goroutines share the
streams; a job's result goes to PostgreSQL and its acknowledgement to Redis, in
two transactions; leases expire under a running handler; retries are pumped by
every process; a dead-letter retry is three calls; a waiter of the budget
captures a channel under a lock and waits outside it; a workflow is resumed from
a file after any crash; its readiness, approval and control checks are made at
one moment and acted on at another; the task row is written by operators and by
the engine.

Properties that make each component correct: the queue loses no job,
acknowledges only what is stored, bounds retries and settles every job; the
budget never exceeds a limit, leaks no slot and wakes whoever could proceed; the
engine completes only when every step is done, keeps persisted successes, starts
steps only behind their dependencies and approvals, and always ends; retention
deletes what expired and nothing else, whoever purges; a scope expansion passes
only acknowledged; policy denials reach no provider; shares of a wave never add
up to more than the limit.

## 2. Modules

| Module | Models |
| --- | --- |
| `JobLedger` | abstract: the standing of each job and the announced results |
| `JobQueue` | the queue, the workers and the operators; implements `JobLedger` |
| `JobQueueProofs` | theorems about `JobQueue`, and that it implements `JobLedger` |
| `BudgetLimiter`, `BudgetLimiterProofs` | the budget and its theorems |
| `WorkflowEngine`, `WorkflowEngineProofs` | one workflow run over any number of invocations, the task row and the approvals, and its theorems |
| `ScopeHistory`, `ScopeHistoryProofs` | the scope gate of `workflow run` with its version rows, and its theorems |
| `ArtifactStore` | files, artifact rows and references to them |
| `Execution` | one capability execution by the service or a worker; extends `ArtifactStore` |
| `Retention` | `PurgeExpired` in several processes; extends `ArtifactStore` |
| `Evidence`, `EvidenceProofs` | `Execution` and `Retention` over one store, and the theorems about both |
| `Scope` | scope rules, target plan and filters, as operators |
| `Targeting`, `TargetingProofs` | targets from the scope file to the tools over resumes, and its theorems |
| `Policy` | decisions on a clock, and the budget shares of a wave |
| `Classifier`, `ClassifierProofs` | endpoint classification and its theorems |
| `DecisionsProofs` | the theorems about `Policy`, and those about `MC_Decisions` |
| `MC_*` | instances, definitions and symmetry for TLC; `MC_Decisions` puts `Targeting`, `Policy` and `Classifier` side by side |

Each component module also holds, right before the definitions they vary, a few
operators commented "Fault". They are plausible mistakes of that code. No
specification uses them; a property is worth its run only if substituting
one of them violates it (the mutants of `PROJECT.json`).

### JobQueue

A Redis transaction is one action and two Redis calls are two, so everything
else can happen between them. `stream`, `cursor` and `pel` are the jobs stream
and its consumer group; `stale` holds the pending ids that have been idle for
the lease timeout. Time itself is abstracted: `LeaseExpires` may happen at any
moment (the refresh is late or the process is gone), `Touch` undoes it for the
delivery being handled, and any subset of the retry set may be due at a
`PumpFetch`. A consumer (`pc`, `via`, `task`, `backlog`) follows `consume` and
`handle`: it claims a batch, handles it entry by entry, then reads. `Fail` covers
every path of `handle` that calls `Queue.Fail`; `Abandon` every path that only
returns an error; `PersistRefused` a result the database never accepts
(`step run ... does not exist`). `Crash` is the end of a worker process, also
through a consumer error. `RetryDeadLetter` is its three calls.

Redis behaviour (`XREADGROUP >`, `XAUTOCLAIM`, idle time, stream order) is
external and modelled from how the code uses it. Ownership of pending entries is
left out: no call of the code looks at it. The events stream is only written.
Two retry-set members never collide because their due times differ; the model
makes them unique by message and consumer.

### BudgetLimiter

`used` is the union of the three maps; a request is the set of keys it counts
against. `TryAcquire` is one pass under the mutex; `blocked` are the callers
waiting on the channel currently installed, so `Release` (close and replace)
empties it. `ReleaseAgain` is a second call of the release function.

### WorkflowEngine

Steps are ranks in the topological order. `disk` is the state file a resume
loads; `decision` the approvals row of each step run in it; `mem` the engine's
copy. `Save` is the database transaction followed by the file rename, and
`SaveFails` has both outcomes, nothing written or only the rows. `inserted` holds
the inputs for which `step_runs` has a row of a step: `Conflict` is the unique key
over run, step and idempotency key, which the upsert on the id does not resolve,
so that a new id for a known input fails the `Transaction`. `Start` is an
invocation up to the loop: it loads the file, refuses a rejected approval, sets
`Engine.Approval` from the flag or from any approved record, and presets the
controls from the task row. Planning considers one ready step per action in
rank order (`PlanInputError`, `PlanRetain`, `PlanSkip`, `PlanAwait`, `PlanRun`);
a wave executes its steps in any order; commits are in rank order with a save
after each. `Report` is the final `SetTaskStatus`. `Watch` is the polling
goroutine, `PropagateCancel` the one that cancels `runCtx`.

Abstractions: an output is `full` (readable, nonempty), `empty`, `malformed`
(a binding cannot read it) or nothing; an input hash is the input itself, that
is the plan digest and the bound outputs; a step run keeps its id exactly while
its input is unchanged, so an approvals row is identified by step and input.
A `changed:` condition is a `nonempty:` one. Acquiring the budget is part of the
execution of a step. The command line passes `context.Background()`, so an
interrupt is a `Crash`. Events, summaries and error texts are left out.

### ScopeHistory

One program. A plan stands for its digest; `versions` are its rows in
`scope_versions`, `program` is the digest in the programs row. `Select` and `Lock`
are the two halves of `SELECT ... FOR UPDATE`: the row is chosen when the
statement starts and may have been overtaken when its lock is granted. `Stamp`
reads the clock in Go, before the insert, so `older`, the order of `created_at`
from which the newest row is taken, need not be the order of the commits.
`Unchanged`, `RecordChange` and `Rollback` are the ends of the transaction, which
release the lock. The upsert of `RecordChange` waits while another invocation holds
the row of the plan as its baseline; two that wait for each other are `Deadlocked`,
and PostgreSQL lets one of them `Abort`, which it reports as an error.
`reviewed` is a history variable: plans an operator created the program with or
acknowledged, and the first plan of a program that has no row. Audit rows are
left out.

### ArtifactStore, Execution, Retention, Evidence

An execution goes through `Load`, `Authorize`, `Validate`, `Execute`, `Put` for
each artifact, and `PersistResult`; an action beside each is its failure. The
service continues after a failed `Put` and stores failures too; a worker stores
only successes and stops at the first error. Stdout and stderr are treated alike
and are one name, `raw`. A pass of `PurgeExpired` removes content, finds the row
for its audit event without a lock, and removes the row and all references.
`Evidence` composes both sides; they share files and tables.

### Scope, Targeting

A rule has four expressions. What the code needs of one is which values it
matches as a whole and which literals can be enumerated from its syntax, two
separate computations, so `Pattern` carries both and they may disagree. `Scope`
holds `Compile`, `Evaluate` with its reasons, `Plan`, `commonPorts` and the
filters. `Targeting` lets invocations come with any scope file, fresh or resumed;
a resumed one keeps the outputs of succeeded steps, as `WorkflowEngine` shows.
`StartTool` is `Provider.Validate` and the start of the process, `ToolReturns` the
output through `filterRecords`; `ToolFails` filters and keeps what a failed tool
had printed too, but no other step reads it. What a tool reports is any record about the
`Universe`. Steps after the HTTP probe are left out, see "Differences" below.
Resolving a discovered host, digests, warnings and sorting are left out.

### Policy

`EvaluateAt` is a function of policy, request and minute of the week. A request
is evaluated by `DispatchJob` and again by `Begin`; `MinutePasses` runs in
between. The text of a window is parsed already; configuration refuses a list with
one that does not parse (config.go:184), so the policies of an instance have valid
windows only. `BeginWave` gives each step of a
wave its share.

### Classifier

Records are applied one at a time in the order http, crawl, passive to
aggregates keyed by site (scheme, host and query-parameter names), route, method
and content type. URLs and their signals are given by a table; labels and relationships accompany signals and are left out.

## 3. Runs

| Run | Instance and bounds | Shows |
| --- | --- | --- |
| `job_delivery` | 1 job, 2 workers, 1 operator, 1 retry, batches of 2, 3 messages, 1 fault | no loss, acknowledgement after persistence, reachable entries, bounded retries, safe dead-letter deletion, refinement of `JobLedger` |
| `jobs_settle` | 1 job, 2 workers, 1 fault, fair | every job settles; all copies leave the queue |
| `unpersistable_job` | 1 job refused by the database, 1 worker, fair | violation, see below |
| `budget` | 3 callers, limits 2/0/1, 2 hosts, 2 calls each, fair | limits, exact counters, no lost wake-up, every `Acquire` returns |
| `workflow` | diamond of 4 steps, 2 in parallel, 2 attempts, 1 plan, 3 outputs, all task commands, fair | completion, no dead end, satisfied dependencies, every invocation ends |
| `workflow_rerun` | fan of 3, two gated, one rerun on input change, 2 plans, 2 outputs, all task commands | decided approvals, kept successes |
| `approved_resume`, `stale_plan` | 2 steps | violations, see below |
| `scope_gate` | 3 plans (one with a further include, one without the exclude, one with both changes), 2 concurrent invocations, fair | what runs is within one plan that was reviewed as a whole, rows and program agree, acceptance is never taken back, every check ends |
| `scope_reverted` | 2 plans, 1 invocation | violation, see below |
| `evidence` | a service and a worker execution of one step, 2 purgers, 1 fault | rows have content, references resolve, nothing stored without a recorded decision, what is reported is durable, expired artifacts go |
| `decisions` | 6 scope files, 19 URLs; 4 policies and 4 requests over a week; inputs of up to 4 records | a running active tool was given only authorized URLs, exact seeds are scanned at authorized ports, and only authorized records are kept (naabu visits hosts times ports, see "Differences"); executions start only as the policy permits; shares fit the budget; classification does not depend on order and evidence never lowers a score |

Bounds. `MaxMessages` bounds entries ever added to the jobs stream and
`MaxFaults` crashes and failed calls; 3 messages suffice for a duplicate moved by
two pumps, or a retry plus an operator's re-enqueue, beside the original. In
`jobs_settle` the bound of 5 is never reached, so that it cannot hide or cause a
lack of progress. `MaxCalls` bounds the calls of a budget user; two calls let a
caller compete again after a release. `WorkflowEngine` needs no bound: the number
of invocations, crashes, commands and failed saves is unlimited. Two
or three outputs are what its conditions and bindings can tell apart; two plans,
which matter to reruns and to the rows of `step_runs`, are in `workflow_rerun` only,
because every plan multiplies the rows a step may have.
`MaxFaults` in `evidence` lets one call fail or one process die anywhere; the two
executions and two passes already overlap in every way two can. In `decisions`
the three components share no variable; `only` picks the one that moves, since
their interleaving shows nothing. `MinutesPerDay` is 4, enough for windows
inside a day, up to midnight, past it and past the end of the week. A tool
reports one record, discovery two: filters look at one record at a time. The
scope files overlap so that resumes find targets the new file excludes, ports it
does not have or hosts it does not know; one of them has no enabled include and
is refused. `MaxInput` = 4 lets three
records of two URLs meet in one aggregate. Symmetry is used for workers and
operators in `job_delivery` only. Deadlock is checked in the scope runs; the
other systems may come to rest (nothing left to deliver, nobody calling, a
rejected run, a classification that returned).

Fairness. `JobQueue`: consumers and pumps keep running (their loops have no exit
but the process's) and idle time passes; claiming is strongly fair because
`consume` claims whenever half a lease has passed, however many entries it reads
in between. Operators, refreshes, faults and dispatch are not fair.
`BudgetLimiter`: goroutines are scheduled and executions end; cancellation is not
assumed. `WorkflowEngine`: the engine takes its next step while it has one; a
step has an outcome in the end because capability calls run under the step's
timeout. Operators, the watcher, crashes and new invocations are not fair.
`ScopeHistory`: statements end, PostgreSQL grants a contended row lock in turn
(strong fairness of the statements that wait for one) and breaks a deadlock; runs
that passed the gate need not end, and rollbacks and new invocations are not fair.
`Retention`: the worker's ticker calls `PurgeExpired` for ever and its calls
return (weak fairness of each pass); executions and expiry are not fair.

### Findings

* `unpersistable_job`: README.md promises that permanent failures are
  dead-lettered; a result `PersistResult` always refuses leaves its entry pending
  and is executed again for ever.
* `approved_resume`: the task of a run that paused for an approval is paused too,
  so the resume with the approval pauses at once; `task resume` is needed first.
  With the shipped definitions this is not reached today: their only gated step
  runs on `scan_targets`, which are always empty (see below), and is skipped.
* `stale_plan`: a run resumed with another plan keeps the successes of the
  earlier plan.
* `scope_reverted`: a plan that was acknowledged, reverted and brought back
  starts without the flag, because its row keeps its first time and is still the
  newest accepted one.

### Differences without a run

Seen in the code while modelling; the models follow the code.

* On a resume with changed input, a step with `rerun_on_input_change` and a step
  that depends on it are planned into one wave; docs/workflows.md:7 says every
  step in a wave has satisfied dependencies. No shipped definition sets the flag,
  and `WaveIndependent` is checked where it is not set.
* The shipped definitions give `classify-interesting-endpoints` none of the inputs
  `http_observations`, `crawl_observations`, `passive_observations`,
  `historical_observations` and `api_schema_endpoints`, which the registered
  capability requires. `Targeting` takes the order of steps and the bindings from
  the definitions as written.
* `executeCompareAssets` compares bare URLs of the probe with records of earlier
  runs, so that nothing is recognised as unchanged, and only records carry the
  status that makes a crawl or scan target. The steps behind it get no
  targets; this is why `Targeting` stops at the probe.
* naabu visits every host of `port_targets` at every common port. The ports of a
  wildcard rule enter the intersection before exclusions, so a discovered host
  that is excluded at one of the common ports is still visited there, where
  README.md:15 says that exclusions always win. `SeedPortsAuthorized` is stated for exact
  seeds, for which the intersection suffices.
* `withinScanWindows` stops at the first window that is open, so a malformed one
  after it would not deny, as docs/policies.md:9 has it. Configuration refuses such
  a list at load; `PolicyAssumption` says so, and `OpenAt` demands valid windows.
* `step_runs` has a unique key over run, step and idempotency key, while the upsert
  of a save conflicts on the id only. A step that is new to the state file, but not
  to the table, gets a new id and the transaction fails: after a save whose file
  was not renamed, or with plans p, q and p again, every later save that records
  the step with that input is refused, and the run cannot be resumed past it. The
  state on disk stays consistent, which is what the properties speak of; no document
  says what a resume should do then.
* A rejection that arrives after an invocation passed the approval check does not
  stop the step. No document says that it should; `GatedIsDecided` counts the step
  as decided, for the row is, and only says that no step starts unasked.
* `http|https` without anchors matches only `http` as a whole while its
  enumeration yields both; the filters need both computations to agree, so less
  is authorized than the operator may expect.
* An aggregate takes its URL signals from its first record, so keywords in a
  variable path segment depend on the order of records; `EvidenceOrderFree`
  leaves exactly that URL open.

## 4. Proofs

For every set of jobs, workers, operators and every bound, `JobQueueProofs`
proves:

* `TypeCorrect`;
* `CopiesCorrect` (`CopyInv`), the invariant the others rest on: no id exceeds
  the last one handed out, an id names one payload in the stream and in every
  consumer that still holds a copy after losing its lease, and a consumer about
  to acknowledge holds a persisted job;
* `AckOnlyPersisted`, a part of it;
* `EntriesAlwaysReachable`, strengthened by "everything pending was delivered":
  `Read` moves the cursor to the oldest undelivered entry and acknowledgement
  removes an entry from the stream and the pending list together;
* `RetriesAlwaysBounded`, strengthened by the same bound on every copy held by a
  consumer or a pump;
* `NothingLost` and `DeletionSafe`, from one inductive invariant. `NoJobLost` alone
  is not inductive: an operator about to delete a dead letter could remove the
  last trace of its job. The strengthening is `DeletableDeadLetter`: a trace
  younger than the held dead letter exists. The lemmas `TracesMoveUp` and
  `TracesStay` cover the steps that replace traces by younger ones or keep them;
* `LedgerImplemented`, the refinement of `JobLedger`. `DispatchInv` says that every
  trace and every copy, those held by consumers, pumps and operators included, is of
  an accepted job; with `NoJobLost` it makes the standing of a job a function of
  whether it was accepted, whether it succeeded and whether a live trace of it is
  left (`StandingByLive`). Each action of the queue then moves the standing of at
  most one job as the ledger allows (`LedgerMove`), or stutters.

`BudgetLimiterProofs` proves, for every finite set of callers and any limits,
`TypeCorrect`, `WakeupNeverLost` (a waiter on an unclosed channel has had no room
since it looked, because counters only grow until a release), and, from the
cardinality of the holders of a key, `CountersAlwaysExact` and
`LimitsAlwaysRespected`. `WaitersWaitForHolders` combines them into the safety part
of `AcquireReturns`: a waiter always waits for a key that callers who hold, and
do not wait, fill up to its limit.

`ScopeHistoryProofs` proves, for every set of plans with any rules and
any number of concurrent invocations, `TypeCorrect`, `RunsAlwaysReviewed`,
`HistoryAlwaysAgrees` and `AcceptanceAlwaysKept`. The inductive invariant
`GateInv` says that every accepted row is within one plan that operators reviewed
and that a selected baseline is an accepted row: it may be stale when its lock is
granted, but acceptance and review only grow, so it still justifies the plan
compared with it. A plan that passes without review narrows its baseline, and
narrowing is transitive; that is why a chain of such plans never adds up rules
of several reviews. `GateBoundsURLs` says what this is worth to the targets: the gate
compares rule digests and knows nothing of the expressions behind them, yet
whatever the digests stand for, every URL that the scope of a running workflow
allows (`Scope!Evaluate`) is one that a single reviewed plan allows.

`WorkflowEngineProofs` proves, for every workflow whose dependencies follow a
topological order, any plans, outputs and retry policies, and any number of
invocations, crashes, failed saves and operator commands:

* `TypeCorrect`, which includes that no step exceeds its attempts;
* `CompletedMeansAllHolds`, `SuccessKeptHolds` and `SomeStepRunnableHolds`, from
  `LoopInv`: what counts as finished in memory is succeeded or skipped, ready,
  running and finished steps are disjoint, and memory and disk are equal except
  while a wave is planned, when they differ only as planning may change them
  (`Kept`). The file alone does not say which steps a round has settled, so none
  of the three is inductive without it. `SomeStepRunnable` needs the topological
  order: the least unfinished step has only finished dependencies;
* `GatedIsDecidedHolds`, from `GateInv`: a started gated step carries its approval in
  memory and in the file; the row alone is not enough, because a save rewrites the
  rows from memory;
* `WaveIndependentHolds`, under `NoRerunDependency`: no step depends on one with
  `rerun_on_input_change`. The hypothesis is needed, see "Differences", and the
  shipped definitions meet it. `WaveInv` says that recorded steps are closed under
  dependencies, that a step skipped once would be skipped again, and that what is
  ready or running depends on recorded steps only.

`EvidenceProofs` proves, for any runs, steps, purgers and faults, `TypeCorrect`,
`ContentWhileLiveHolds`, `ReferencesResolveHolds`, `StoredOnlyAllowedHolds` and
`ReportedIsDurableHolds` from one invariant, `EvidenceInv`. `RunInv` records for each
stage of an execution what it has already decided and written, `OwnInv` that an
execution saves under its own run id only, and `StoreInv` that purgers hold
nothing but expired artifacts and that rows are of written artifacts. Without them
a row could be inserted for a file that a purge has removed.

`TargetingProofs` proves, for every set of scope files and tool outputs:

* `SentAlwaysAuthorized`, from an invariant (`LiveInv`) on the running steps: active
  steps run only after preparation, preparation does not run beside them, and so
  their targets do not change under them;
* `SeedPortsAlwaysAuthorized`, from the fact that a plan's seeds are allowed by the
  scope it was planned from and that a common port belongs to the group of every
  seed;
* `AcceptedAlwaysAuthorized`, from `AcceptedInv`: the scope in force was compiled from
  a scope file, records are reports of the tool, and an invocation, which may
  bring another scope, keeps none of them;
* `TargetingTypeCorrect`.

The last two use `UniverseAssumption`: the URLs that a rule yields at a host it
enumerates, or matches and some tool reports, belong to the `Universe`. The code has no such
bound; the universe is only the range of the model's quantifiers.

`DecisionsProofs` proves, for any policies, requests and length of a day,
`PolicyTypeCorrect`, `SharesAlwaysWithinBudget` and `StartsAlwaysPermitted`. The bound
on a wave is not inductive, since steps end one at a time: it also needs that a
share of a limited budget stays positive (`ShareInv`), and the fact about integer
division that n shares of v are at most v (`ShareFits`). `ContainedIsOpen` is the
arithmetic of scan windows: what `contains` accepts, also past midnight and past
the end of the week, is a minute that `Opens` counts from the start of the window.
It also proves of `MC_Decisions`, which `decisions` runs, that each component behaves
as it does alone (the lemma `ComponentsIndependent`: they share no variable, so a
step of one is a stuttering step of the others), and with that `TypeCorrect` and all theorems
of the three components for their composition (`DecisionsSound`).

`ClassifierProofs` proves, for any URLs, records, histories and schemas,
`ClassifierTypeCorrect`, `EvidenceAlwaysOrderFree`, `EvidenceAlwaysGrows` and
`EvidenceNeverLowered`. The
invariant, `AggregateInv`, adds to order-freedom that a key without an aggregate had
no record; `RecordGathered` shows, through the three operations applied to a
record, that applying it adds its evidence to what was gathered. For the score,
`SumOfWeights` counts points, one set of as many points as its weight for every
signal: a sum over data would need induction, a cardinality only grows with its
set. `FiniteInv` adds that evidence stays finite, without which a cardinality means
nothing. The theorems rest on `ClassifierAssumption`: facts are finitely many and
have the types the code gives them, and no current record claims the sources
`history` or `api_schema`.

The only assumptions are the named `ASSUME`s on the constants, which TLC evaluates
on the instances. Every invariant and every action property that a run checks is
stated by a theorem, for every value of the constants; `WaveIndependent` alone has a
hypothesis. Only model-checked is liveness (`EveryJobSettles`, `QueueDrains`,
`AcquireReturns`, `RunEnds`, `CheckEnds`, `ExpiredEventuallyGone`): fairness and `ENABLED` are
outside the prover.

## 5. Plan

What was planned is modelled, checked and proved, with these exceptions:

* A weaker hypothesis for `WaveIndependent`. `NoRerunDependency` is all but necessary:
  another plan changes the input of every step, so a step with
  `rerun_on_input_change` can be planned again from any state in which it is
  recorded, and one edge from it is enough for a wave that holds both ends.
* `ActiveSeeds` against `HostURLs`. The lemma does not hold: seeds are read off the
  syntax of an expression while the filter asks for a match (see "Differences"),
  so a seed may be a URL that another rule allows but does not enumerate.

### Not modelled

* Findings life cycle and `assets.Compare`: nothing calls them but their tests.
* Migrations: one advisory lock around each file's transaction; nothing
  interleaves inside it.
* Console, control-plane queries, reports and commands that print: they read.
* Configuration, redaction, doctor, argument lists of providers, parsing of tool
  output: text to text without state. Parsed output appears as the choice of
  records, a failed parse as a failed tool.
