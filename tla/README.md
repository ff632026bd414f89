# TLA+ models and proofs of self-imp-bin-eval

This directory specifies the rubric service of this repository in TLA+, model-checks it with TLC
and proves with TLAPS every safety property the passing runs check: of both stores, both workflows, the data
that flows through them, the LLM activity, the start handlers, the migrations and the export. Paths below are relative to the repository.

## 1. The system

A client posts a task (`POST /checklists`) or an answer to be judged against a checklist
(`POST /evaluations`). The API inserts a `running` row in Postgres, asks Temporal to start a
workflow whose id is the row's id, and answers 202. A worker runs the workflow: activities call an
LLM provider, keep the exchanged bodies in Garage (an S3 store) and finally write the one outcome
of the row, `succeeded` with all its child rows or `failed` with one `workflow_failures` row.
Clients poll `GET`.

```
client --HTTP--> API (internal/api) --SQL--> Postgres (internal/db) <--SQL-- activities
                     \--StartWorkflow--> Temporal <--polls-- worker: workflows --> activities
                                                                        activities --> provider (internal/llm)
                                                                        activities --> Garage   (internal/artifacts)
```

### Inventory

| Component | State | Operations | What is hard | What makes it correct |
|---|---|---|---|---|
| Checklist store (`internal/db/store.go`) | `checklists`, child tables, `workflow_failures`, row locks, the pool | create, succeed, fail, get | attempts, retries and handlers on one row; commits whose acknowledgement is lost; reads outside a transaction; a bounded pool | one whole outcome per row, final, told truthfully to every caller; every call returns |
| Evaluation store (same file) | `evaluations`, `judgments`, `workflow_failures` | create, succeed, fail, get | as above, and a check-then-insert on the checklist's status | score follows from the stored judgments; evaluations of succeeded checklists only |
| Checklist workflow (`internal/workflows/create_checklist.go`, `failure.go`, `options.go`) | stage, futures, the failure being recorded | seven stages, two fan-outs, `failChecklist` | futures completing in any order, timeouts, attempts running on after they were given up | row and close status agree; the first failure is the recorded one; it always closes |
| Evaluation workflow (`evaluate_answer.go`) | same, and the judgments per run | load, judge *n* times, aggregate, store | same | score is the majority of the accepted runs |
| Activities (`internal/activities`) | attempt number, trace keys | error classification, retries, trace storage | a retry beside an orphaned attempt; half-failing writes | evidence belongs to its attempt; success needs whole output |
| Evaluation core (`internal/evalcore`) | none (pure) | limits, validators, numbering, projection, final checklist, majority | boundaries; the same limit checked in several places | the checks agree with one another and with what is built |
| LLM client (`internal/llm`) | none | bounded read, stream decoding, error classes | cut, truncated and failed streams | a partial stream never passes for output |
| HTTP API (`internal/api`) | one request | two POST handlers, GET projections | ambiguous start calls, crash between insert and start, a read that meets a commit | accepted means started, once; a row gets one outcome; a response is never half an outcome |
| Failure details (`internal/failure`) | none | classes, retryability, validation | a wrong class wastes calls or gives up early | retried iff retryable |
| Artifacts (`internal/artifacts`) | objects in Garage | keys, write, read | writes that fail or hide that they succeeded | one key per attempt and part |
| Artifact export (`internal/artifacts/export.go`, `internal/cmd/captureartifacts`) | a directory of copies, `manifest.json` | list, copy, describe | stops half way, repeated runs, objects that appear meanwhile, overlapping prefixes | a manifest describes whole copies, and all that was asked for |
| Migrations (`migrations/`, `db.ApplyMigrations`) | `schema_migrations`, the rows | apply the missing files in order | two processes at once, a crash or a lost acknowledgement between steps, rows older than a migration | each file once; no row or outcome lost; old rows stay readable; every process comes to serve |
| Prompts and schemas (`internal/llm/schemas.go`, `prompts.go`) | none | bounds and enums of the answers asked for | written apart from the validators | what a schema admits and what the validators accept agree |
| Configuration (`internal/config`) | the limits | read, refuse | limits that contradict one another | a process that starts has usable limits |
| Processes (`cmd/bin-eval-api`, `cmd/bin-eval-worker`) | none | start, exit, restart | death at any point | what the components above promise survives it |
| Observability, verification manifest, LLM fixture, scripts and deployment | none of interest | text, test tooling, shell | nothing concurrent | |

`PROJECT.json` lists for each component how far it is modelled and, under `hazards`, every place in
this code that is hard to test, at its line, with the properties that would show it going wrong.

## 2. Modules

| Module | What it is | Code |
|---|---|---|
| `Lifecycle` | abstract specification: an entity is absent, running, then done with one outcome | what callers of the store rely on |
| `ChecklistStore` | the checklist half of the store, statement by statement | `internal/db/store.go` |
| `EvaluationStore` | the evaluation half | `internal/db/store.go` |
| `Migrations` | `ApplyMigrations` by several API processes, beside traffic, on rows of any earlier version | `internal/db/store.go`, `migrations/*.sql`, `deploy/systemd` |
| `Failures` | error kinds, classes, `FailureDetails`, retry policy | `internal/failure`, `internal/activities`, `workflows/failure.go` |
| `ActivityTasks` | activity tasks under the options of the workflows: dispatch, report, timeout, retry, orphan | `workflows/options.go`; Temporal is external |
| `ChecklistWorkflow` | `CreateChecklistWorkflow` and the row it writes | `workflows/create_checklist.go` |
| `EvaluationWorkflow` | `EvaluateAnswerWorkflow` and the row it writes | `workflows/evaluate_answer.go` |
| `EvalCore` | limits, validators and builders as operators | `internal/evalcore` |
| `Config` | the limits a process takes from its environment | `internal/config` |
| `LLMSchemas` | the bounds of the schemas, and the outputs' own validators | `internal/llm/schemas.go`, `prompts.go` |
| `ChecklistPipeline` | `EvalCore` under configured limits, driven as activities and workflow drive it, over the lists a model may answer with | `workflows/create_checklist.go`, `internal/activities/llm.go` |
| `LLMClient`, `LLMActivity` | exchange with the provider; `runLLM` over its attempts | `internal/llm/client.go`, `internal/activities/llm.go`, `internal/artifacts` |
| `StartWorkflow` | POST handlers, start requests in flight, executions | `internal/api/router.go` |
| `ArtifactExport` | the capture of artifacts into a directory, stopped and repeated | `internal/artifacts/export.go`, `internal/cmd/captureartifacts` |
| `MC*` | constants of the checked instances | |
| `<module>Proofs` | theorems about `<module>`, for `ChecklistStore`, `EvaluationStore`, `Migrations`, `ChecklistWorkflow`, `EvaluationWorkflow`, `StartWorkflow` and `ArtifactExport` | |
| `ActivitiesProofs` | theorems about `LLMActivity` and `ChecklistPipeline`, the two sides of `internal/activities/llm.go` | |

`ChecklistWorkflow`, `EvaluationWorkflow` and `LLMActivity` compose with `ActivityTasks` through
`INSTANCE`; `EvaluationStore` and `EvaluationWorkflow` use `EvalCore` for validation and scoring, and
`ChecklistPipeline` and `EvaluationWorkflow` use `LLMSchemas` for what an answer may be.
The workflow modules keep the row as the stores' guarantee allows (one atomic outcome, then
comparison), which is what `ImplementsLifecycle` shows of the stores; `StartWorkflow` in turn takes a
workflow as something that gives the row its outcome if it has none, and closes.

### State and actions

* **Stores.** A *session* is a goroutine inside a store method. `pc` is its next statement. `Begin`
  takes a connection, the lock step is `lockStatus` (`select ... for update`), inserts are private
  until `Commit`, which also may lose its acknowledgement (the effect happens, the caller gets an
  error). `Abort` is a failed statement, a cancelled context or a dead process. A locked terminal row is rolled back and then compared
  through the `Get` method, table by table, as the code does. `Get` reads each table against what is
  committed at that moment. Child rows travel as the four lists `GetChecklist` returns; weight
  rows come back joined to candidates in candidate order (`InCandidateOrder`), as the query says. `Response`
  is what the `GET` handler shows of such a read: lists and score only when succeeded, the failure only when failed.
  The pool has any of the sizes in `PoolSizes`, since pgx takes it from the machine or the URL.
* **Migrations.** `data` is the schema version in force with the rows, `recorded` what `schema_migrations` lists.
  `Check` asks outside the transaction, as the code does; `Apply`, `Record` and `Commit` are one transaction whose
  tables are `pending` until the commit. Every file's first statement takes an exclusive lock on `checklists`, so
  one transaction is open at a time; a second process collides or waits, runs the file on the newer tables, and
  fails in the file or at the primary key of `schema_migrations`. `WithFailures` and `WithRuns` say what 0003 and 0004
  make of a row; `LegacyRows` is what the code of an earlier version can have left. Traffic goes on whenever no
  migration holds the lock: the worker serves before, during and after.
* **Export.** `files` is the directory with partial and whole copies. A run takes its prefixes in order, lists
  what is there at that moment, creates each copy exclusively and writes the manifest in two steps.
* **Tasks.** A task is unscheduled, scheduled, started, completed or failed, and has an attempt number.
  A *body* is an execution in a worker. `TimeOut` ends the attempt at the server; the body goes on as
  an orphan, its report is dropped, its effects are not.
* **Workflows.** `stage` names the activity awaited, or `closed`. Futures of a fan-out are read in
  index order: a stage goes on when all completed, and fails with the first failed future once those
  before it are done. The record `failChecklist` stores is built from that cause.
* **Start.** `starts` counts requests under way to Temporal. They may be repeated by the SDK, lost, or take
  effect after the handler stopped waiting. REJECT_DUPLICATE and USE_EXISTING are the guards of
  `StartTakesEffect`.
* **Configuration and schemas.** `configure` and `validate_limits` are the first two stages of the pipeline: a process with
  limits that do not load exits, a workflow with invalid limits fails at once. Every answer passes the
  output's validator in the client, then the activity's, as `runLLM` orders them.
* **Data.** Texts are model values or `Blank`; ids are the numbers they are formatted from; a failure
  record is its class, its retryability and its attempt count. The limits are small
  numbers in `ChecklistPipeline`, chosen so that every one of them is met; the number of runs of an
  evaluation is bounded by the code's own default.

## 3. Runs

| Run | Instance | Shows |
|---|---|---|
| `checklist_store` | 1 checklist, 2 sessions, pools of 1 and of 2, four contents (one incomplete, one in two weight orders), 2 failure details, `FairSpec` | outcomes whole, final, told and shown truthfully; existing rows found; implements `Lifecycle`; every call returns, although sessions wait for lock and connection; the inductive invariant of the proofs |
| `checklist_store_retry` | as `checklist_store`, no fairness | *violated*: an identical retry may conflict (finding 1) |
| `evaluation_store` | 2 checklists, 1 evaluation, 2 sessions, 3 runs, five contents (reordered, other, wrong score, incomplete); symmetry on sessions | score follows from rows; retries in any order succeed; responses whole; implements `Lifecycle` |
| `migrations` | 2 processes, 2 checklists of every kind versions 0 to 3 can have left, 2 faults, `FairSpec` | the record of the files is true; no row or outcome lost; old evaluations stay readable; both processes come to serve |
| `checklist_workflow` | fan-out up to 2, 3 attempts, 1 orphan, `FairSpec` | close status and row agree; success needs every stage; the first failure is recorded; what is retried is what may be; it closes |
| `checklist_workflow_attempts` | fan-out 1, 3 attempts | *violated*: the recorded attempt count after timeouts (finding 3) |
| `evaluation_workflow` | runs 1 and 3, 2 attempts, 1 orphan, `FairSpec` | the score is the majority of the accepted runs; scoring never fails after accepted judgments, which fit the schema asked for; it closes |
| `checklist_pipeline` | limits 2 / 2 / 3 / 6 and 1 / 3 / default / 8, and two environments that are refused; lists up to one above the larger limit, weights 0 to 5 | numbering, splitting and projected count agree; configuration, schemas, validators and store agree on what is accepted |
| `llm_activity` | 2 pieces, 2 attempts, 1 orphan | evidence per attempt stands; success only for whole output |
| `artifact_export` | 3 objects, one prefix or two, overlapping or apart; 3 runs | a readable manifest describes whole copies; a run that succeeds has all that was asked for |
| `start_workflow` | 1 checklist, 1 evaluation, 2 requests in flight, `FairSpec` | accepted means started, once; every request settles; one outcome per row |
| `start_workflow_nonstart` | same, no fairness | *violated*: "did not start" may be wrong (finding 2) |

Why the bounds are enough for what they are meant to show. Rows do not interact, except an evaluation
with its checklists, so one row, or one evaluation with two checklists, meets every interference; two
sessions give every pairwise race. For the safety properties of the modules with proofs (section 4) the bounds do not
matter: the theorems hold of every instance, and the runs show that the instances checked are not empty. A fan-out
of two tells "first" from "last" and "all" from "any". Three attempts is the code's own number;
liveness and the evaluation workflow use two, the least with a retry beside an orphan. Three runs are the least
with a disagreeing majority. The pipeline's limits are met from below, exactly and from above. `MaxOrphans`
bounds orphans running at once, `MaxStarts` start requests in flight, `MaxFanOut` the width of a fan-out,
`MaxAnswer` and `MaxWeight` the lists and weights a model answers with, `Pieces` the deltas of a stream, `MaxFaults`
crashes and lost acknowledgements during the migrations, `MaxRuns` runs of the capture. Two processes and two faults
let one process lose its acknowledgement or die in each step while the other is in any step, and again while it
recovers. Three runs of the capture are a stopped one, its
repetition and one more into what both left. `Config`'s two serving environments meet a limit set and a limit
left to its default.

`CHECK_DEADLOCK FALSE` stands where the system stops for good: a closed workflow, a finished pipeline,
requests that were all answered, a capture after its last run, an idle service whose rows are all terminal.

### Fairness

* Stores: weak fairness of a session's own next statement; strong fairness of taking a connection, of
  taking the row lock and of each read, since Postgres and pgx serve waiters in order. No call has to be
  made, no abort has to happen.
* Workflows: the workflow task is run (workers poll), the server dispatches and times out (its timers fire, every
  activity has a StartToCloseTimeout), an orphan's body ends (its context carries that deadline). Nothing
  obliges an attempt to succeed.
* Migrations: weak fairness of each process's own steps, its restart included: the unit files say `Restart=on-failure`,
  and an error of `ApplyMigrations` exits with status 1. Crashes, collisions and lost acknowledgements are never
  forced, and nobody has to send traffic.
* Start: a handler that has not crashed makes its next call and each call ends, at the latest with the
  request's context; workflows close, which the workflow runs check. Requests may always be lost.

## 4. Proofs

Each `<module>Proofs` extends its module. All have the same shape: an inductive invariant `IInv`, made of named parts, of
which TLC checked the inductive candidate on an instance before it was proved; lemmas that say what one kind of step does;
`InvariantInit` and `InvariantStep` (`Initial` and `Inductive` for the checklist store); then the theorems.
`ActivitiesProofs` extends two modules and names their invariants apart, `PipelineInv` and `ActivityInv`; that is also why the
specification of `ChecklistPipeline` is called `PipelineSpec`. The table lists
what is proved beside `<Name>Invariant` (`Spec => []IInv`, whose first conjunct is the type invariant), and
for which values of the constants.

| Module | Properties proved | For every | Assumptions used |
|---|---|---|---|
| `ChecklistStore` | `OutcomeComplete`, `AckedOutcomeStands`, `ResponsesAreWhole`, `ConflictMeansDifferent`, `TerminalImmutable`, `ExistingRowsAreFound`, `ImplementsLifecycle` | checklists, sessions, contents, details, pool sizes | contents are records of four lists; pools have a connection; sentinels are none of the values they stand beside |
| `EvaluationStore` | `ScoreFollowsFromRows`, `AckedOutcomeStands`, `IdenticalRetrySucceeds`, `ResponsesAreWhole`, `ImplementsLifecycle` | checklists, evaluations, sessions, contents, questions | judgments are a list, question ids are numbers, the number of runs is one `ValidateEvaluationRuns` admits; sentinels |
| `Migrations` | `RecordedIsInForce`, `SucceededStaysReadable`, `RowsSurvive` | processes, checklists, number of faults | `MaxFaults` is a number |
| `ChecklistWorkflow` | `OutcomeMatchesRow`, `SuccessNeedsEveryStage`, `FirstFailureIsRecorded`, `RetriedIffRetryable` | fan-out, attempts, orphans, errors of the LLM | at least one attempt and one task per fan-out; sentinels |
| `EvaluationWorkflow` | `OutcomeMatchesRow`, `ScoreIsTheMajority`, `ScoringNeverFails` | questions, outputs, admitted run counts, attempts, orphans | an output decodes as a list of judgments; run counts are odd and positive; at least one attempt; sentinels |
| `ChecklistPipeline` | `CandidatesAreNumbered`, `FinalQuestionsMatchWeights`, `BuildFailsOnlyWhenAllAreZero`, `ChecksAgree`; `PipelineProjectionIsExact` | environments and so limits, lengths of the answers, weights | a variable that is set spells an integer; the bounds of the answers are numbers |
| `LLMActivity` | `EvidenceStands`, `SuccessIsWhole` | attempts, orphans, pieces of an output | at least one attempt and one piece |
| `StartWorkflow` | `AcceptedIsStarted`, `ExecutedAtMostOnce`, `EvaluatedHasSucceeded`, `ImplementsLifecycle` | checklists, evaluations, requests in flight | no id is both a checklist's and an evaluation's |
| `ArtifactExport` | `ManifestIsTrue`, `SuccessIsComplete` | keys, prefixes, runs | a prefix is the set of keys under it |

The assumptions are stated by name in the modules and evaluated by TLC in every run. Those on run counts are what
`ValidateEvaluationRuns` refuses otherwise, those on attempts what `withActivityOptions` sets, and a new id is drawn for
every row of either kind.

### The checklist store

`IInv` is type correctness, the safety properties and two strengthenings. That an outcome is whole
is not inductive by itself: a commit must know its row is still running and that nobody else
is about to commit. `TransactionOK` says so (a transaction past its lock step works on a running row, holds
that row's lock, and a lock is held only by such a transaction). That a read is whole needs to know what the
reader has seen so far: `ReadingOK` says that a reader that saw a terminal status has seen final rows
ever since, which holds because terminal rows do not change and the status is read first.

The argument: `DataStep` splits a step into one that leaves the committed tables alone, a creation or a
commit; `PublishStep` describes a commit, `TerminalStep` concludes that terminal rows stand; `TypeStep`, `OutcomeStep`,
`TransactionStep`, `ReadingStep` and `ResultStep` then preserve one part of `IInv` each, and `Inductive` puts
them together. `FoundStep` shows why an existing row is never reported missing: the only reader that could, one that
finds a failed row without its record, has read the status first and the record is committed with it. The refinement
follows from `CreationIsCreate` and `PublishingIsFinish`.

### The evaluation store

The same two ideas, per session (`SessionOK`) and per row (`EvaluationOK`), and one more: the score in the row is computed
from the list the caller sent, while readers see the judgments as `ORDER BY` lists them. `Listed` is the only list of a set of
judgments in that order, and `AggregateScore` does not depend on the order (`YesCount` counts places, `Majority` compares
counts), so the score follows from whatever is read back (`EvaluationScoreFollowsFromRows`) and a retry
in another order does not conflict (`EvaluationIdenticalRetrySucceeds`, the opposite of finding 1). Each kind of step shows
`Keeps(s)`: the data and the stepping session keep the invariant, and what other sessions rely on is stable for them;
`OthersKeep` then carries every other session along.

### The migrations

That the records are true does not follow from itself: a
process commits what it decided on much earlier, and others may have migrated since. `ProcessOK` keeps what still
holds of that decision: the files before its own are recorded, its transaction was made from the tables as they are
now (nobody else can commit while it is open), and at its commit its own file is not recorded. Together these put
its file right after the schema version (`CommitIsNextFile`), so 0002 is never committed on later tables and
each file meets the rows it was written for (`NextFile`, from `WithFailuresOK` and `WithRunsOK`). `RowOK` says what a
row of each version may be, which is what makes the rewriting by 0004 right: before it, a succeeded evaluation has
exactly the judgments without a run, after it exactly those of its runs. `TrafficStep` shows that the calls of
the store, which go on meanwhile, keep `RowOK` and every outcome; `OneTransaction` that at most one process is past `Apply`.

### The workflows

That row and close status agree is not inductive: a store activity may have written the row in an attempt the server gave
up on, and its orphan may write while the workflow already waits for another attempt. `TasksOK` and `BodiesOK` say what a
completed task, or a body that was acknowledged, implies of the row (`Acked`); `StagesOK` that as long as the workflow
proceeds nothing of a later stage is scheduled, and that nothing asks the store to succeed before every stage has completed.
With them, a row that reads `succeeded` has every stage behind it (`ChecklistWorkflowSuccessNeedsEveryStage`) and the
failure that is recorded is the one the workflow met first. `TaskOK` bounds attempts: a waiting task has one left and has
failed only with errors that may pass, a failed one with a retryable error has used them all
(`ChecklistWorkflowRetriedIffRetryable`).

The evaluation workflow adds the data. An accepted run is a bijection between its judgments and the questions
(`OneJudgmentEach`); the stored list is the runs laid end to end (`LaidOut`, `RunJudgmentsFacts`), so each question has one
judgment per run in it (`OncePerRun`), its count of `yes` is the number of runs that said so (`YesCountIsOfRuns`), and with an odd
number of runs one side has the majority (`ScoreFacts`): the validators of the store accept the list
(`AcceptedAggregate`), which is `EvaluationWorkflowScoringNeverFails`, and the score is the one the voters
gave (`EvaluationWorkflowScoreIsTheMajority`).

`RunJudgments` flattens the runs by a recursive function. The library's induction theorems are out of the prover's
reach; what stands in their place is the least-number principle (`LeastNumber`, from `WFMin` of the library): if two functions
keep to the same recursion, there is no least number at which they differ (`FlattenIs`).

### The checklist pipeline

`PipelineInv` says what each stage hands to the next. The limits of a process that serves are positive and a split has at most
four parts (`ConfiguredLimitsGood`), so `WithDefaults` leaves them alone wherever they are used again. Accepted dimensions are
numbered from 1; `CandidatesOf` is what the loop over the futures has made of the first `n` dimensions, by the least-number
argument over `n` (`CollectStep`, `CollectedFacts`): adding a dimension's questions adds the next numbers, and exactly
as many candidates of that dimension, so the limit per dimension that each activity checked holds of the list. A list of
weights that names the candidates is one to one exactly when it is as long (`DistinctIsAsMany`), which is why a schema that
fixes the length and a validator that refuses duplicates accept the same lists (`WeightsAgree`).

The final questions are the candidates' parts behind each other (`FlattenFacts`, `InCandidateOrder`), a candidate has as many as
its weight (`PartsFacts`) and they fill an interval (`OrderFacts`). The projected count sums the weights in the order the
model gave them, the questions stand in the order of the candidates: `ProjectionIsExact` counts, after `i` weights, the
questions whose candidate is among the first `i`, so the sums agree at the end. With it no check of
`BuildFinalChecklist` is left to fail but the one for an empty list (`BuildIs`).

`Collected` and `ProjectedFinalQuestionCount` are recursive functions in the model, because what a fold computes could only be said by
theorems that take an operator; `IterationExists` shows, for both, that such a recursion has a value.

### The LLM activity

`AttemptOK` says of each attempt, live or orphaned, what it has and what of it is in Garage; keys carry the
attempt, so no attempt can disturb what another stored (`KeysOK`). `LLMActivitySuccessIsWhole` rests on what `GenerateJSON`
makes of every stream the provider may send: an output counts only after its end was seen, and then the deltas before it
concatenate to the whole output, for any number of pieces (`FlattenIs` again).

### Starts and export

`StartWorkflow`: `EntityOK` ties a handler's step, its row, the requests in flight and the executions together. Its core
is that only the handler that inserted a row sends start requests for it, and that one that marks the row as never
started answers with an error, so nobody was told otherwise. `EvaluationOK` carries that the checklist had succeeded from the
check to the insert and beyond, which needs `RowStep`: a row changes by its insert and by its one outcome only.

`ArtifactExport`: `WantedOK` says where each object a run has to deliver is while the run goes on: copied, listed, or under a
prefix to come; `CopiesOK` that what is counted as copied is whole while one file is not.

### Only model-checked

* Liveness (`CallsReturn`, `WorkflowCloses`, `RequestsAreSettled`, `EveryProcessServes`), which the prover does not reach.
* The four arrangements of `WeightLists` are all the lists of weights the specification has the model answer with. The lemmas the
  theorems rest on (`WeightsAgree`, `ProjectionIsExact`, `BuildIs`) are proved of any list of weights.

## 5. Findings

1. `SucceedChecklist` compares a retry's weights in the order the model gave them with rows listed by
   candidate (`internal/db/store.go:669`): an identical retry conflicts when the orders differ, against
   REQ-047 of `plans/bin-eval-rubric-refinement-dag-plan.md` (line 146) and its line 475. Run
   `checklist_store_retry`. The theorem `StoreConflictMeansDifferent` says that this is the only case.
2. `startWorkflow` takes NotFound for a definitive non-start (`internal/api/router.go:132`), but the request may still
   take effect (plan, line 68). Run `start_workflow_nonstart`.
3. After a final timeout the failure record says one attempt (`internal/workflows/failure.go:13`; REQ-036, plan, line
   134). Run `checklist_workflow_attempts`.

## 6. Not modelled

* Decoding of requests, which ends in a refused or an accepted request; the words of the prompts; the JSON of provider
  requests and answers, whose fields are taken to be there; log lines: formatting, with no state.
* `Details.Validate` beyond what is branched on; diagnostics in error messages.
* Configuration other than the limits: addresses, names and secrets decide only whether a process starts, the
  listen address check and redaction are functions of one string. `BIN_EVAL_MAX_EVALUATION_RUNS` below the default of
  three starts a service that refuses every request that leaves the number out, which is a choice of the operator and
  no property of the code.
* Migrations: columns and indexes nothing else depends on; processes of an older build beside the new one; the files
  themselves changing under a running process. Rows that failed before 0003 are in the model and keep having no failure
  record, as in the code.
* Export: a listing is a snapshot of its prefix; a key is taken to be a safe relative path (`safeArtifactPath` is a
  function of one string); size and SHA-256 are whether a copy is whole. `scripts/capture_artifacts.sh` clears the
  directory before a run; the model leaves what was there, which is the harsher case.
* Observability, the verification manifest, the LLM fixture and scripts: no state that several actors share. The
  worker's wiring likewise; deaths of processes are `Abort`, `WorkerDies`, `ApiCrash`, `Crash` and `Stop`.
* Cancellation and termination of workflows by an operator, and workflow replay: the code relies on
  Temporal for determinism and has no handler for cancellation.

## 7. Plan

Done, in this order: `Lifecycle` and `ChecklistStore` with its proofs; `EvaluationStore`; `Failures`,
`ActivityTasks`, `ChecklistWorkflow`, `EvaluationWorkflow`; `EvalCore` and `ChecklistPipeline`; `LLMClient` and
`LLMActivity`; `StartWorkflow`; then `Migrations` with its proofs, `ArtifactExport`, the responses of the `GET` handlers in
the two stores, `Config` and `LLMSchemas` in the pipeline.

Then the proofs of `StartWorkflow`, `ArtifactExport`, `EvaluationStore`, `ChecklistWorkflow`, `LLMActivity` and
`EvaluationWorkflow`, and `ExistingRowsAreFound` of the checklist store: every safety property of a module with several actors
is a theorem.

Last, those of `ChecklistPipeline`: every safety property of every passing run is a theorem.

Next: a refinement of a workflow and its row to `Lifecycle` would join the proofs of the stores to those of the workflows. The
row of a workflow module changes by one guarded step, so it would say little that `ImplementsLifecycle` of the stores does not.

Possible in the model: `ChecklistWorkflow` over the store's statements in place of its atomic row. What it would add
to the two halves and `ImplementsLifecycle` is small against the states it costs.
