# A TLA+ model of PromptQL

PromptQL's API server investigates incidents: a planner model proposes a few
tool calls, an executor runs them against GitHub, Sentry and other sources,
facts are derived from the evidence, and a model turns the facts into
hypotheses and a code diagnosis. An investigation is a *case*: it is stored
after every round, and a completed case can be reopened for follow-up
questions that share its memory and its budget. Two other workflows use the same
sources: a merge-readiness run of a pull request, and a correlation scan of a
project's open issues. In front of them stand accounts with credentials of their
own, a rate limiter and a live event stream, and pages that poll, listen and ask.
This directory holds TLA+ specifications of that machinery, the TLC configurations
that check them, and TLAPS proofs of the properties that matter most.

Paths below are relative to `services/api/app/` unless they start with `docs/`
or `apps/`. `map` in PROJECT.json names the lines each definition stands for.

## 1. Inventory

| Component | Code | State | Operations |
| --- | --- | --- | --- |
| Plan validation | `investigations/planning/` | none | ask the planner; accept or reject its plan, order the steps |
| Plan executor | `investigations/execution.py` | step states, runtime outputs, evidence, facts, missing information, budget | run a validated plan: block, invoke, retry, fail, succeed, stop on budget |
| Adaptive planning loop | `investigations/replanning.py` | rounds, evidence, facts, gaps, calls left | plan a round, execute it, merge, decide whether to go on |
| Investigation workflow | `workflows/investigation.py` | the task's copy of the run | create, reopen, continue, save planned and completed rounds, complete, fail, cancel |
| Run repository | `database/postgres_run_repository.py` | one row per run | validated upsert guarded by the stored status |
| Fact recurrence | `database/postgres_fact_recurrence_repository.py` | a counter per fact type | increment in a transaction of its own |
| Task registry, lifespan | `runtime/live_run_tasks.py`, `main.py` | background tasks of the process | start, cancel at shutdown |
| HTTP endpoints | `api/v1/connector_router.py` | none | start an investigation, read a run, ask a follow-up |
| Merge-readiness workflow | `workflows/merge_readiness.py` | the run and its three steps | ask GitHub, ask Jira, decide; the run saved around each step, in a worker thread |
| Policy | `policy/` | none | facts to findings, decision and actions |
| Explanations | `explanations/` | none | ask a model to word a decision; check what it claims |
| Correlation scan | `workflows/correlation_scan.py`, `api/v1/correlation_scan_router.py` | the request's locals: results, evidence, step failures, findings | list issues; for each, five source calls with a retry, facts, hypothesis, diagnosis, fixes |
| Hypotheses, code diagnosis, fixes | `investigations/hypotheses`, `investigations/code_diagnosis`, `investigations/path_normalization.py` | none | generate, validate against the facts, propose a fix |
| Fact derivation, grounding | `investigations/fact_derivation`, `grounding_extraction` | none | facts from evidence, fields from a question |
| Tools and connectors | `tools/`, `connectors/` | none of their own | read a provider page by page, parse patches, normalise, translate errors |
| Evidence store, relationship index | `investigations/evidence_store.py`, `relationship_index.py` | content by evidence identifier | put, drop what conflicts |
| Live events | `observability/live_event_broker.py`, `structured_logging.py`, `api/v1/live_events_router.py` | a bounded queue per subscriber | publish, subscribe, stream |
| Run inspection | `apps/web/src/features/inspection/*.ts` | the last snapshot, a poll timer, a stream, a form | poll at an interval, listen, abort, extract, submit, follow up |
| Rate limiter | `api/v1/rate_limit.py` | a window per client address | allow or refuse |
| Accounts and credentials | `auth/`, `api/v1/auth_router.py`, `credentials_router.py`, `request_lifecycle.py`, the two repositories | password and session per account, a credential per account and provider, the clients of a request | register, log in and out, store, delete; open a request's clients and close them |
| Workspace page | `apps/web/src/App.tsx`, `WhylineApp.tsx` | connections, lists, an `active` flag per visit | open, navigate, connect, disconnect, list |
| Observability | `observability/` | none that others read | events, spans, metrics |
| Evaluation, diagnostics, configuration | `evals/`, `diagnostics/`, `config.py` | none at run time | offline scoring, provider probes, settings |

**How they interact.** An endpoint saves a pending run and hands the rest to a
background task on the same event loop. The task runs the planning loop, which
runs the executor, which awaits tools; a tool reads a provider in one or several
requests and puts what it found into the case's evidence store. The loop calls back
into the workflow, which saves the run before and after each round. The endpoints,
the tasks and other processes meet only in the stored row. Repository calls are
synchronous: between two awaits a task runs alone in its process, and that, not a
lock or a version column, is what keeps two requests of one process apart. A
merge-readiness run is different: it saves in worker threads. Events are published by
whoever logs them, worker threads included, into lists that the event loop changes.
The connectors of a signed-in caller are opened, with the caller's token, by the
dependencies of a request and closed with it; everybody else shares the application's.
Pages know of a run what their polls return and their stream carries. A correlation
scan shares nothing with any of this but sources, validators and the request's
clients: it stores no row, and its outcome is the response.

**What is hard.** (1) Interleavings of requests and tasks, in one process and in
several, over a row that is checked by status and not by version. (2) Failure
between two saves: commits that fail, commits that land and are reported as
failed, a task cancelled at an await or before its first step, a crash.
(3) What must carry over from turn to turn: the round count, the budget, the
evidence, the gaps, the facts already counted. (4) Loops whose end depends on
several counters at once. (5) Order: facts are counted before the row that
remembers them is saved. (6) Many calls that each may fail, in one answer: what is
missing must be told from what was not there, one issue's evidence from another's.
(7) Models that may answer anything: plans with cycles and references to nothing,
claims nobody made, paths compared by a relation that is not transitive.
(8) Providers that change while they are read, answer in pages and truncate.
(9) Resources that a request opens and a task outlives. (10) Answers that come late,
to a page that has moved on. PROJECT.json lists each hazard with its line and the
properties that would catch it.

**What makes each correct.** An accepted plan can be run in its order; a refused one
is refused for a reason. The executor charges each call once, never calls a
tool whose inputs are missing, returns a state that accounts for every step, and
ends. The loop credits evidence once, reports the true reason it stopped, stays
within what earlier turns left, and ends. The case keeps all its answers in order,
stays within one budget and one follow-up limit, counts a fact once, shows whole rows
when completed, and reaches a terminal status. What a tool reports as observed is the
whole of something the provider held, is in the store or reported as dropped, and stays
what it was. A merge-readiness run stores only its own checkpoints, answers only what it
has stored, and decides on what the providers could have said; its explanation says
nothing else. A scan has one result per issue, made of what that issue's own calls
returned, and reports no finding that does not rest on a changed file and a failure that
match. A page never goes back, settles on its run's end, and submits what belongs to its
question. A caller's requests use the caller's access, their clients are closed, and a
window of the limiter is never exceeded more than twofold.

## 2. Modules

| Module | Models |
| --- | --- |
| `PlanValidation` | pure: `PlanValidator` and the plan's schema |
| `PlanExecution` | `AgentExecutor` and its retries |
| `PlanProposals` | one planner's answer, through `ModelOutputs` and `PlanValidation`, to the end of `PlanExecution` (EXTENDS) |
| `AdaptiveRounds` | `AdaptiveInvestigationRuntime`, with `PlanExecution` inside each round (EXTENDS) |
| `RoundContract` | abstract: what a turn of rounds may do to a case's memory |
| `CaseMemory` | the memory a case carries from round to round, shared by the contract and the case |
| `InvestigationCase` | endpoints, workflow, repository, counters, registry, shutdown and crash over one case |
| `CaseLedger` | abstract: the case as a reader of the row should see it |
| `MergeReadiness` | one merge-readiness run: endpoints, workflow, worker threads, stored run and steps, polling readers |
| `MergePolicy` | pure: the policy's evaluation and the validation of an explanation |
| `ModelOutputs` | pure: what each language-model client makes of what its SDK returns or raises |
| `MergeEvidence` | the requests that read a pull request and its issue, the decision and its explanation, over changing providers |
| `CodeEvidence` | pure: path matching, facts of code and failure evidence, and the validators of hypotheses, findings and fixes |
| `CorrelationScan` | one scan: listing, steps, retries, analysis of each issue, over `CodeEvidence` (EXTENDS) |
| `ProviderErrors` | pure: from a provider's answer to exception, category and failure code |
| `PatchParsing` | pure: `parse_github_patch` |
| `SourceReads` | the tools' calls over GitHub, Sentry and Jira, and the evidence store |
| `RunContracts` | pure: what the API may answer about a run and what the browser takes for well formed |
| `RunInspection` | tabs, polling, streams, the broker and the publishing threads over the rows of runs |
| `Accounts` | limiter, sessions, credentials, a request's clients and task, and the workspace page |
| `PlanningLoop_proofs` | the theorems about validator, executor, round and rounds |
| `InvestigationCase_proofs`, `MergeReadiness_proofs`, `CorrelationScan_proofs`, `SourceReads_proofs`, `RunInspection_proofs`, `Accounts_proofs` | the theorems about those modules; `MergeReadiness_proofs` also holds those about `MergeEvidence` |
| `FiniteSums` | lemmas the proofs share: smallest numbers and sets, sums over a finite set, folds over a sequence |
| `MC*` | instances for TLC |

### PlanValidation and PlanProposals

A plan is a sequence of steps as the model proposed it, with identifiers, tools,
dependencies and arguments that may be anything the schema lets through. `Failures` is
the set of diagnostics, each a code and the step it is about; the operators under it are
the validator's functions. A type is the set of the members of its annotation, because
`_annotation_is_compatible` looks into `typing.Union` and no other union. `Coherent` is
the tools' own validation of literal arguments, a parameter. `PlannerAnswers` is the one
step from a model's output to a verdict: the client's category (`ModelOutputs`), the
schema, the limit on adaptive plans, the validator; an accepted plan is handed to
`StartExecution` in the validator's order. `IsPlan` is what parsing leaves of an answer, a
list of steps with lists of dependencies and arguments; which of them make sense is the
validator's business. `Sound` says, without the validator's functions, what a plan must be:
it is what `ValidationIsExact` holds the diagnostics against. Acceptance is checked for every answer; the
execution is followed for the plans in `Plans`, so that the executor's state space is
not multiplied by plans that differ only to the validator.

### PlanExecution

`plan`, `position` and `phase` are the loop in `execute`: `deciding` is the top
of an iteration, `invoking` and `backoff` the two awaits of
`_invoke_with_retries`. `step` holds the step states, `outputs` the
`runtime_outputs`, `missing` the `missing_information` (a gap is identified in the
code by the step and the failure code, so here it is that pair), `budget` the
`BudgetState`. One action per branch: budget check first, then dependencies, then
referenced outputs, then the call; the call is charged by `Dispatch` and answered
by one of the `Tool...` actions. An observed result may publish any subset of its
fields, because `_runtime_outputs` publishes a field only when all evidence items
agree on its value. `RejectArguments` is the exception `validate_arguments` raises
for resolved values, `Raise` any other exception or cancellation at an await.
Evidence is a set of identifiers; `DeriveFacts` is any monotone function of it.
`ValidPlan` is what `PlanValidator.validate` leaves true of a plan it accepts.

### AdaptiveRounds

`initial` is what `investigate()` is called with. `Arguments` allows what earlier
turns can have left: a first turn has the whole budget and nothing known, and each
earlier round has cost at least a call. The `for` over round numbers, the budget
check, the planner call, its two ways of failing, the callbacks that save, the
executor and the merge after it are an action each. `RoundRaises` is every
exception that leaves `investigate()`: a failed save in a callback, an unexpected
error, a cancellation; the loop's local state is then gone, which is why the case
model falls back on the stored snapshot.

### InvestigationCase

A worker is one request and the task it starts; `ProcessOf` places it on an
event loop. `task[w]` has the coroutine's place (`pc`), the copy of the run it
will save next (`copy`), the memory of the planning loop (`memory`), and the facts
it has tried to count and has noted as counted (`tried`, `noted`). An action is
what the code does from one await to the next, except that a synchronous run with
several database calls is split at each call, because each can fail on its own and
because other processes do not wait. `HasLoop` keeps the tasks of one process out
while one of them is within such a run (`Section`): this is the event loop's
atomicity, and nothing else is assumed.

`Save` is `PostgresRunRepository.save`: accepted or refused by `Accepts`, from the
stored status, the new status and, for a reopening, the follow-up counts; it may
also fail with the row unchanged (`save_lost`) or changed (`save_landed`).
`Begin` saves the running row before the `try` block, so its failure ends the task;
later failures go to `FailRun`, whose own failure the router swallows. `Shutdown`
cancels the tasks of a process: one at an await goes to `ReadForCancel` and
`CancelRun`, one that has not taken its first step disappears. `Crash` drops all of
them. `calls` and `counted` are history variables: tool calls made and counters
incremented by this case.

`CallTools` stands for a whole round of `AdaptiveRounds`, through `RoundMoves`, the
step of `RoundContract`. `RoundsMeetContract` checks that the loop implements that
contract, so nothing the case model assumes of a round is unchecked.

### MergeReadiness

`row` is the stored run with its steps, `task` the coroutine of the workflow,
`thread` the worker thread that `_save` awaits (`asyncio.to_thread`): `SaveAndAwait`
hands a run over and `ThreadSaves` is the transaction, whose outcome the coroutine
then sees as `Saved` or `SaveFailed`. Unlike a case, therefore, this run is read by
others while a save is under way, and a task cancelled by `LiveRunTaskRegistry`
leaves a thread that still commits. `Accepts` is `save` with `_update_existing_run`
and `_save_steps`: run and steps each move along the transition table, none is
removed, a new step is pending. A step is saved pending, running and then
terminal; the last one ends together with the run (`CompleteRun`,
`FailStepAndRun`). `live` tells the two endpoints apart: one answers 202 after the
first save and continues in a background task, the other answers with the outcome.
`confirmed` is `_confirmed_run_ids`, from which an error response takes the run id it
names. A reader takes the run (`ReadRun`) and then the steps (`ReadSteps`), in two
statements of a session without a common snapshot. Facts are the sources that answered;
a run that found a Jira key and one that did not differ only in the call that is made.

### CorrelationScan and CodeEvidence

`pc` is the await the request is suspended at: the listing, the current step of
`_correlate_issue`, or one of the three model calls. `issue` and `analysis` are the
locals of `_correlate_issue` and `_generate_issue_analysis`, which begin afresh for each
issue (`Continue`). A step is answered by an action of its own (`FailureLocation`,
`LinkedJiraKey`, ...) or by `SourceFails`, which also decides on the retry; `Advance`
skips the two GitHub steps if there is no commit. `told` is a history variable: what each
issue's calls were answered, against which `ResultsAccountForCalls` compares the result.
`HypothesisFails`, `DiagnosisFails` and the first branch of `FixAnswered` are the errors
the code expects of a model; `FixInputRefused` and `AnalysisBreaks` are the ones that
only `_run_issue_analysis` catches, `RequestBreaks` the ones nobody does.

`CodeEvidence` keeps of the evidence what the validators compare: paths as sequences of
segments, because `paths_match` compares their tails; line ranges; and references. A fact
or an evidence item is its own identifier. `DerivedFacts`, `HypothesisAccepted`,
`FindingAccepted`, `FixHunks`, `FixInput` and `FixAccepted` are the code's functions;
which rejection reason is given is left out, because nothing depends on it. A line of
source is one of five kinds, as much as `Stripped` (pydantic's `strip_whitespace`) and
the fix validator tell apart. The models' answers are constants applied to what the
model is given: the specification holds for any of them.

### SourceReads, ProviderErrors and PatchParsing

`world` is what the providers hold and `read` the call in progress, with the request it
waits for (`call`) and what it has collected. One action answers each request the tools
make (`FilesAnswered` a page of a pull request's files, `EventAnswered` the latest
event, ...), `RequestFails` is every other answer, translated by `ProviderErrors` as each
connector's mapper does. Between two requests the world may change: a push, an issue
opened or resolved, an event. A commit never changes. `Finish` ends the call in one step
with what the adapter does then: evidence is put into the store (`Put`: first write
wins, a different content is dropped and an event logged) or a failure code returned. An
`outcome` is `observed`, `failed`, `returned` for the listings that store nothing, or
`raised` where the code lets an exception through. A file's patch is a sequence of lines
that `PatchParsing` reads as the parser does, header counts and bounds included; a line
is its kind. `IsListing` is what GitHub's list of a change is assumed to be, no path twice.
An evidence identifier is what the code builds it from: the pull request,
the file's path, the hunk's index, not the hunk's content.

### MergePolicy, ModelOutputs and MergeEvidence

`MergeEvidence` reads up to seven requests (pull request, reviews, branch rules,
protection, check runs, statuses, the Jira issue). `world` is what GitHub and Jira hold, an
element of `World`, typed as the response models are (`PullAnswer`, `ReviewAnswer`, ...);
`read` is the run's reading in progress and `result` how it ended. `read.has` keeps each
answer, `None` for one that was refused; `read.seen` is a history variable, the states of
the world during the reading, against which `DecisionIsSupported` judges. `Requirements`,
`LatestDecisions` (a fold of `AfterReview`) and `Observed` (folds of `WithRun`, then
`WithStatus`) are the normalisation of rules, reviews and checks, `Facts` the result, one
of `GitHubFacts`; `MergePolicy` is the evaluator, finding by finding in the order of the
code; a finding keeps its reason, its action and the evidence it cites. `Explain` is what a
response of a completed run does: it asks the model again each time, and validates. A claim by Gemini
is a list of indexes into the codes it was offered (`MapIndexes`), by the others a list
of codes. `MergeReadiness` models when this happens and what is saved around it, and
`MergeEvidence` what is read and said; the outcome of a call in the former is
nondeterministic over what the latter can produce.

### RunContracts and RunInspection

`row` is a run as the API sees it: a version, a status and, reduced to whether it is
there, everything that a validator on either side looks at. `Admitted` is the server's
rules and `Accepted` the browser's. A tab has a page, a run, a generation (each resumed or
remounted poll controller is a new one), what it shows, its stream and its form;
`requests` holds the snapshots asked for, read by the server at one moment and received
at another, or lost. `subs` and `queue` are the broker's lists and queues; `pub` is a
worker thread in the middle of walking a list (`PublishNext` is one iteration) while
`Subscribe` and `Unsubscribe` change it. Events published on the event loop reach all
subscribers in one step. `aware` is the version from which a page knows that a follow-up
was accepted. `App.tsx` does not mount these pages at this commit; they are kept, built
and unit-tested, and the API they speak to is the one that is served.

### Accounts

A `scene` names the people, addresses, routes and providers that take part, so that an
instance adds up state spaces instead of multiplying them. `windows` and `allowed` are the
limiter (`allowed` is a history of the requests let through per second); `password`
and `session` the accounts; `credentials` the stored rows, a token being the account that
stored it and a number. A request resolves its dependencies one at a time (`Resolve`), as
FastAPI does, with other requests in between; each opens a client with the caller's token
or takes the application's (`Shared`), or raises (`Raised`), and then the generators that
were entered are left to the event loop's finaliser (`Finalise`). `Returned` and `Thrown`
list what each route replies when it returns, and leaves its dependencies one by one
(`Leave`), and when it lets an exception through. `StartTask` and
`TaskReads` are the background task of the routes that start one. `page` is the workspace:
its connections, refreshed by unnumbered requests, and its discovery lists, guarded by the
`active` flag of their effect. `ListsAreCurrent` compares the numbers of one account's
tokens only: where another account signs in at the same browser, the open page notices
nothing, and its lists stay under the tokens of the first. What was asked is answered (`...Answered`) and received
(`...Shown`) in separate steps.

### Abstract specifications

`RoundContract`: a round costs at least one call, grants none back, loses no fact,
and the case's rounds stay within the limit; then the turn closes. `CaseLedger`:
a case opens with its budget, works it down, ends each turn with one more answer or
is abandoned with the answers it has, and is reopened at most `MaxFollowUps` times.

## 3. Runs

| Run | Question | Instance |
| --- | --- | --- |
| `plan_execution` | is a plan accepted exactly if it can be run, is every execution accounted for, does the round end? | every dependency graph of three steps, known or not, every kind of argument between two, every provider's outputs; four plans followed to their end under budgets 0 to 5, 3 attempts, a retryable and a permanent code |
| `adaptive_rounds` | is evidence credited once; is the stop reason true; is the contract met? | 4 calls, 3 rounds, 2 attempts, every state an earlier turn can leave |
| `investigation_case` | one process, two requests: is the case kept whole, within its limits, its facts counted once? | 2 workers, 3 follow-ups, 3 rounds, 4 calls, 2 facts, every fault but `count_landed` |
| `case_ends` | does a started case end; does a begun turn end under shutdown? | weak fairness, 1 follow-up, shutdown, both counter faults |
| `merge_readiness` | does every stored run make sense, do responses and pages tell the truth, does the run end? | both endpoints, every fault, one page, weak fairness on the workflow and its threads |
| `merge_evidence` | is a decision supported by what was there while it was read, and does its explanation agree? | a ready pull request and in turn the parts one request reads, one change meanwhile, every refusal, pages of 2, models that claim too little, too much or something else |
| `correlation_scan` | does each result account for its own calls, is what is accepted grounded, does a scan outlive its failures, and end? | 0, 1 or 3 open issues of which 2 are scanned, 2 failed calls, any exception; weak fairness on the request |
| `source_reads` | is what a tool observed whole, kept, and never changed? | two calls with one change between any two requests; pages of 2, at most 2; every patch of up to three lines, with up to three hunks; every failing answer |
| `empty_diff` | does every call end in a tool result? (violated) | a commit without files |
| `run_inspection` | do pages follow their run, settle, list events in order, accept what the API may answer, and submit what belongs together? | six scenes of one or two tabs over an investigation and a merge run; one lost request |
| `accounts` | does the limiter bound, whose access does a client have, is every client closed, are the lists of their connection? | six scenes of two people; weak fairness on requests |
| `closed_client` | do tasks read their sources? (violated) | the same |

**Bounds.** Three steps are the fewest in which a blocked step blocks another
(chain) and one of two dependencies fails (join), and in which a cycle may leave a step
out. A budget of 5 lies below and above what these plans need, so the budget ends a plan
at each step, in a retry, on the last call, or not at all; 0 starts exhausted. Two pieces
of evidence and a fact that needs both make a late correlation possible. The case has two
workers because the hazards are between two copies of one row; three follow-ups and three
rounds are the code's own limits (`MAX_FOLLOW_UPS_PER_CASE`, `MAX_PLANNING_ROUNDS`), four
calls let three rounds differ in cost. A merge-readiness run is bounded by its three
steps; one page suffices because readers do not affect each other or the run. In a
scan the first issue is the rich one: its commit touches one or two files that both end
the failure's path, with a hunk over the failing line, one elsewhere, one too long to fix
or one of blank lines, and the frame has a line, none, or another file; the second issue
finds nothing, so that whatever the first leaves behind shows; the third lies above the
limit. Hypotheses and findings range over right and wrong paths, facts, evidence and
locations and over repeated identifiers, fixes over each reason for rejection; two failed
calls are a step's two attempts, or two steps. The limits on facts, fix lines and
expansion are 3, 4 and 1 for the code's 10, 60 and 20.

Listings have pages of 2 and a bound of 2 for the code's 100 and 10, and range from
nothing to one more than the bound admits: an empty, a short, a full last and a refused
listing all occur, and one change between two pages moves the boundary. `MaxReads` is 2,
because what a read may break is an earlier one of the same thing. Patches may hold two
hunks of two lines, and the third of each is the one refused. Queues hold one event, so
that the second is dropped; a page shows two; a tab has two generations, the fewest with a
predecessor; a run may be saved five times and logs two events. The limiter's window is
two seconds with two requests over four seconds, so that two windows touch; an account
stores two credentials, the fewest with a replaced one. One request identity is used over
and over in `accounts`, since requests share nothing but rows and windows. No run
uses a state constraint: calls, rounds, follow-ups and attempts are bounded by the code
itself, everything else by the named bounds in the guards. `CHECK_DEADLOCK FALSE` is set
throughout because the system stops: a plan returns, a case fails or uses up its
follow-ups, a scan answers, a page settles, and where a bound of the model is reached
nothing more happens.

**Fairness.** The executor and the loop have weak fairness on their next step, the
case on each worker's `Progress`, the merge-readiness run on its workflow and on the
worker thread, whose transaction ends. The event loop runs every coroutine that can
continue, and every await ends: the HTTP clients and the models' clients are built with
timeouts (`connectors/factory.py`, `explanations/factory.py`), the telemetry tool is
wrapped in `wait_for`, the backoff is a sleep. The scan's request has it on every step but an
unexpected exception, which must not be what makes it end. In `run_inspection` an
armed timer fires, a request is read or lost and then received, the answer to a follow-up
comes, and a run starts and ends (what `StartedCaseEnds` and `RunEnds` show of the two
workflows, without faults); asking, navigating, extracting and listening have none. In `accounts` each request's next step has
it, the finaliser's included: the event loop runs the hooks of abandoned asynchronous
generators. No fairness is assumed for arrivals, faults, shutdown or restart. In
`adaptive_rounds` fairness is needed for the contract's own promise that a turn closes.

**Disagreements.** Two runs show the code doing what a document says it does not.
`empty_diff`: ARCHITECTURE.md:333 has every tool call end as observed, empty or failed;
the diff of a change without files ends in an exception, because the adapter calls it
observed and an observation needs evidence (`tools/adapters.py:64`), and the
investigation fails. `closed_client`: ARCHITECTURE.md:1360 gives signed-in callers
connectors built from their own token; the route hands a workflow with these connectors
to a background task, and the request's dependencies close them as it returns
(`api/v1/request_lifecycle.py:13`). Nothing else shares these clients, so anonymous
callers and the demonstration account are not affected, nor is a synchronous merge run.

Further disagreements and oddities met while modelling, each in the models as the code has
it:

- *Two processes.* ADR-033 keeps answers append-only. With one process the case does
  (`AnswersAreKept`); with two, each can save the copy it read over what the other
  saved, because the repository compares statuses and not versions. ADR-004 calls a
  version check future work and the service is documented to run as one process, which is
  what the runs and proofs assume. `LimitInvariant` holds for any number.
- ADR-033's example promises round 4 to a follow-up of a case that ended at round 3;
  `range(initial_rounds + 1, MAX_PLANNING_ROUNDS + 1)` is empty then.
- "At most once per (run_id, fact_type)" fails if a counter's commit lands and is
  reported as failed; the fault is named `count_landed`, left out of
  `investigation_case` and present in `case_ends`.
- ADR-018 wants only committed snapshots visible; a poll between the two statements of
  `get` returns new steps beside an older run. The next poll corrects it, and a terminal
  view is never torn (`TerminalViewIsTrue`), because a run is read before its steps and a
  terminal one no longer changes.
- A fix's original hunk is described as the exact source slice, but its type strips it, so
  its first line loses its indentation and outer blank lines go, while the line range
  counts them. Fixes are described as leaving the diagnosis intact, but a fix input that
  its model refuses raises outside the handler of that stage, and the accepted findings
  are replaced by `analysis_error`.
- *OpenRouter.* The browser's list of explanation providers lacks it, so a run whose
  explanation names it is "malformed" on every poll, is never shown, and the page
  polls on. ADR-030 speaks of an adapter that changes no schema or validator.
  `ResponsesAreAccepted` and `PagesSettle` except it.
- An explanation's input holds at most 50 claims. A run with more findings is stored as
  completed, and every GET of it answers 500 (`ExplanationsAgree` allows exactly that).
- ARCHITECTURE.md:350 says no code path makes a run cancelled, which `_cancel` does.
- An overlap fact compares the hunk with the failure's path, not with the file's, so of two
  files that end that path each gets a fact about the other's hunk.
- A commit's file list is one page (ADR-021), and `ReadsAreWhole` excepts longer ones; a
  pull request's list of exactly the maximum of full pages is refused although complete.
- A hunk's identifier is its index in the patch: after a push the new hunk is dropped as a
  conflict. A telemetry identifier leaves out the window's end and the filters. The log
  reports each dropped write (`NoSilentLoss`), the tool's result does not.
- A 404 on branch protection counts as no protection; check runs of one name overwrite
  each other; a commit status may stand for a name whose check runs may not be read.
  `DecisionIsSupported` therefore asks of each requirement by itself what could have been
  said of it: the facts of a pull request are not one snapshot.
- `_annotation_is_compatible` splits unions written `typing.Union` only; the other
  spelling is one type that matches nothing but itself.
- An expired session makes its owner anonymous: the next request uses the application's
  connectors, and a page that polls the owner's run gets 404 and stops for good.
  `PagesSettle` excepts a run the session may not read. A refused event stream stays
  "connecting".
- A worker thread that publishes while a subscriber leaves may skip another; one that
  publishes while a tab reconnects may reach it twice. `TracesAreInOrder` holds what is
  left: the loop's own events, in order and once.
- The workspace's connection list is refreshed by requests without a number, and the last
  to arrive wins; only its discovery lists are guarded.

## 4. Proofs

Every theorem holds for every value of the constants that satisfies the assumptions of its
module, which TLC evaluates on the instance of every run: the limits are numbers, plans
handed to the executor are valid, an answer that was parsed is a list of steps, providers'
listings are lists, a change lists each path once and a patch is lines of the kinds the
parser knows (`IsListing`), what GitHub and Jira hold is typed as the response models accept it and
a rule requires finitely many checks (`WorldsAssumption`), `None` is no value of the program
(`NoneAssumption`), and the states a page can be opened in are states of the program. Where
a theorem needs more, the table says so.

| Theorem | Needs | Says |
| --- | --- | --- |
| *PlanningLoop_proofs* | | |
| `AcceptedPlansRun` | - | `AcceptedPlansAreRunnable`: an accepted plan is run whole, in an order that respects everything a step waits for and is otherwise the planner's |
| `VerdictsAreExact` | - | `ValidationIsExact`: the validator accepts the sound plans and no other, and reports a cycle exactly if there is one |
| `VerdictHolds` | - | `VerdictInv`, the invariant of both |
| `ReadyStepsRun`, `CallsAreCharged`, `ReturnedStatesAccount` | - | `OnlyReadyStepsRun`, `AttemptsChargedOnce`, `ReturnedStateAccounts` |
| `RoundInvariant` | - | the executor's invariant, for one round |
| `EvidenceIsCredited` | - | `EvidenceIsCreditedOnce` |
| `RoundsInvariant` | - | `RoundsInv`, for the loop with the executor inside each round |
| `ReasonIsTrue` | `MaxNoProgressRounds = 1` | `StopReasonIsTrue` |
| `RoundsKeepContract` | - | every step of the loop is one of `RoundContract`, or changes nothing of the memory |
| *InvestigationCase_proofs* | | |
| `LimitInvariant` | - | `TypeOK` and `LimitKept`, any number of processes |
| `CaseInvariant` | one process | `CaseInv` |
| `CaseIsSafe`, `TurnsAreAnswered`, `CompletedCasesAreWhole` | one process | `OneCurrentWriter`, `CallsWithinBudget`, `EveryTurnAnswered`, `CompletedCaseIsWhole` |
| `CaseImplementsLedger` | one process | the case implements `CaseLedger` |
| `AnswersAreKept` | one process | `ResultsAppendOnly`, which two processes would violate |
| `FactsAreCountedOnce` | one process, no `count_landed` | `CountedOncePerCase`, which the excluded fault would violate |
| *MergeReadiness_proofs* | | |
| `StoredRunIsSafe`, `AnswersFollowTheStore`, `CallsFollowTheStore` | - | `StoredRunIsWhole`, `NoSaveConflicts`, `AnswersAreCommitted`, `CallsAreVisible` |
| `TerminalViewsAreTrue` | - | `TerminalViewIsTrue` |
| `StepsNeverGoBack` | - | `StepsOnlyAdvance`: stored steps only move forward, an ended run stays |
| `EvidenceInvariant` | - | `EvidenceInv`, for the reading, the decision and the explanation (`MergeEvidence`) |
| `DecisionsAreSupported` | - | `DecisionIsSupported` |
| `ExplanationsDoAgree` | - | `ExplanationsAgree` |
| *CorrelationScan_proofs* | | |
| `ScanSurvives` | - | `ScanSurvivesItsIssues` |
| `ResultsAccount` | - | `ResultsAccountForCalls` |
| `FindingsGrounded`, `FixesFit` | `AnswersAreWellFormed` | `FindingsAreGrounded`, `FixesFitTheirFindings` |
| `LoopHolds` | - | `LoopInv`, the loop over the issues |
| *SourceReads_proofs* | | |
| `EvidenceIsKept` | - | `EvidenceNeverChanges` |
| `LossIsTold` | - | `NoSilentLoss` |
| `PagesAreWhole` | - | `AnswersAreWhole`: an undisturbed call normalised the listing as it stood |
| `ReadsHoldWhole` | - | `ReadsAreWhole` |
| *RunInspection_proofs* | | |
| `PagesFollow` | - | `PagesFollowTheirRun` |
| `FieldsAreTheQuestions` | - | `ConfirmedFieldsAreTheQuestions` |
| `AnswersAreAccepted` | - | `ResponsesAreAccepted` |
| `TracesStayInOrder` | - | `TracesAreInOrder` |
| `WatchHolds` | - | `WatchInv` |
| *Accounts_proofs* | | |
| `RateHolds` | - | `RateIsBounded` |
| `AccessIsTheCallers` | - | `ConnectorsAreTheCallers` |
| `EndedRequestsShut` | - | the safety part of `ClientsAreClosed` (`EndedRequestsAreShut`) |
| `ListsStayCurrent` | - | `ListsAreCurrent` |

Two hypotheses need a word. `MaxNoProgressRounds = 1` is the code's value
(`investigations/replanning.py`); with a larger one a round that taught nothing may be
followed by another, and "every round but the last taught something" is no longer meant. `AnswersAreWellFormed` says that what the models propose to a
scan are lists and that a commit has finitely many files, which the clients' schemas and
GitHub's page of files give.

**The validator.** `TopologicalOrder` is a loop written as a recursive function, so before anything
else the function must exist: `LeastNumber` on the steps left gives that the loop has a
solution for every plan and ends. Its invariant says that the order holds no step twice and
no step before what it waits for. A step that is never ordered waits for another that is
never ordered, so what is left over is a cycle (`Cyclic`), and no member of a cyclic set is
ever ordered; hence the order is complete (`OrderIsComplete`) exactly for plans without a
cycle. Each further check of the validator finds nothing exactly if its part of `Sound`
holds. `VerdictInv` carries the verdict from the step that reaches it to the end of the
round: the failures are those of the proposal, and the plan that runs is `Validated` of it.
That only steps that had to wait are overtaken (`PlannersOrderIsKept`) follows from the
loop's always taking the earliest step that is ready.

**The executor.** `ExecInv` speaks of positions: a step before the current one has ended, a
later one is untouched, and each record is true of its step (`RecordTrue`: a call was made
only with everything there, a block names its reason). It stays true because whether a step
is ready depends on earlier steps alone (`ReadinessIsSettled`). That the attempts of all
steps add up to the calls charged needs sums over a finite set whose function changes at
one point (`FiniteSums`).

**The rounds.** `RoundsInv` is `ExecInv` with the credits: the evidence known is the earlier
turns' and each round's delta, these are disjoint, and calls, rounds and facts follow from
them. While the executor runs, `RoundRuns` ties its budget and evidence to what the loop
knew when it began. The reason of a stop needs in addition that, until
the loop returns, every round has taught something. `ContractStep` then maps each step.

**The limit.** `row.follow_ups <= MaxFollowUps` is not inductive: a copy taken
earlier could carry a higher count. `LimitKept` adds that no copy exceeds the limit
and that one about to exceed it was read from a completed row that already stands
at the limit. Such a row can never change (`LimitIsFinal`), so that save is refused.

**The case.** The safety properties speak of the row; what keeps them is that at
most one task holds a copy of the case and the copy fits the row. `CaseInv` says so
place by place: a task that reads for a follow-up holds the completed row itself, a
scheduled one the row it will continue, one at work the same follow-up count,
answers and recorded facts as the row, with `calls + remaining = Budget`; a failing
one may hold a copy older than the row only if the row is completed, and then its
save is refused. `ActsAlone` is the heart of it: when a task has the loop and either
holds the case or finds it absent or completed, every other task is idle. Each action
then updates one task and perhaps the row (`WriterUpdate`, `LastSave`), and `CaseStep`
goes through the actions. With faults included, `save_landed` is the hard case: the
row has moved on and the task believes it has not, so it fails the run from the copy
that was current a moment before.

**The ledger.** Every accepted save changes the row as a ledger step or a stutter
(`LedgerStep`), given `CaseInv` before it. A failed run drops its snapshot, so what
is left of its budget is mapped to 0.

**The counters.** `CountStep` carries that a fact is either on the row's list, or
counted by the one task that works on the case and noted by it, or not counted.

**The merge-readiness run.** `MergeInv` adds what the stored run alone does not show:
whenever the coroutine may go on, the row is its own copy (`Ready`), and a save under
way is of a run that is whole and that the repository accepts, while the row has not
ended (`SaveInv`), even if the coroutine has been stopped. `CheckpointStep` is the one
lemma about saving, and `MovedOn` the one about a step that ends; each action then shows
that its new run is such a checkpoint. A reader's terminal run equals the row, which no
longer changes, so the steps read later are its own.

**The merge evidence.** The decision is taken over answers of different moments, so
`EvidenceInv` says of each answer what it has to do with the states the world was in during
the reading (`Answers`): the reviews are those of one moment, rules, protection and statuses
do not change, and of the check runs each entry was there at some moment and no name that
was there when the listing began is left out, although a run that is created meanwhile moves
the others to a later page. While a listing is under way this needs `PartialRuns`: a name
either has come in or is still ahead. `Permitted` and `Complete` say which requests have been
answered when the facts are made. The rest is about the operators: what the latest
decisions are is the table of a fold (`FoldTable`), equal to `Standing` of the last
deciding review; what was observed of a check is one of what its sources said, and a pass
only if neither said anything worse; the list of checks is in order and complete.
`Sound` then says of the policy's findings, one reason at a time, that each holds of the
facts (`BlockedFor`), and that a verdict without findings leaves nothing open (`Clear`);
`DecidedOn` says that the completed run's verdict is that of facts made from such answers.
`DecisionsAreSupported` puts the two together: a count of approvals below the required one
is a count at the moment the reviews were read, and so on for each reason.

**The explanation.** `NotRefused`: claims that pass the validator have the decision, and the
same sets of reasons and actions as the policy's findings ask for; `RequiredClaims` that the
reasons and actions the policy asks for, each kept once, are those of its findings. A
response that cannot be built has more findings than its input may list, since the two
lists of the result are parts of one (`BlockersMembers`, `MissingMembers`). What an
explanation shows changes only when one is made (`ExplainedOrKept`).

**The scan.** `LoopInv` counts: while an issue is in work there are as many results as issues
before it, and one more list of calls told. `TellingInv` holds the issue in work against what
its calls were told, step by step, and each result against the list it was made from.
`GroundInv` follows an analysis through its stages: hypotheses cite facts of the issue's
evidence, what was accepted is bound to what had been accepted before it, and a result
freezes all of it together. Accepting is a filter over a list with gaps, whose lemmas are
stated once.

**The reads.** Every step of a call ends it by `Finish` or leaves the store alone
(`StepsEnd`); `Put` adds and never replaces, which gives the first two theorems. For pages,
`WholeInv` says what the pages read so far are: the first so many entries of the listing as
it stood when the call began, as long as nothing changed since; the call ends well only
after a page that was not full. `ListedInv` adds that what was listed is a listing, a pushed
file with a path of its own again included. That nothing is lost between the listing and
the evidence is about the operators. `ParsedSoFar` is the invariant of the parser's loop: as
long as no line was refused, the content lines read are those of the hunks so far followed
by those of the open one, the headers likewise, and each closed hunk has its counts
(`ParsedPatchIsWhole`). A call that ends without an error had none at any file, so its items
are the parts of the files one after the other (`NormalizedIsLaid`, `Laid`). In them the
hunks with a file's path are a run, because no other file has the path (`PickedRun`,
`HunksAreFound`), and the file items are as many as the files.

**Pages and traces.** `WatchInv` says that rows are what a workflow saves (`RowSound`), that
an answer under way is no newer than its row and, if its page still waits for it, no older
than what the page shows, and that at most one request of a page is current. A form's
fields are those of its question, and an extraction of the current version is of the
current question. What the API answers is a row read at one moment or, for a merge run, a
run and its steps, and `RowSound` implies each of the browser's conditions on them.
`TraceInv` says that what a stream has shown, then what its queue holds, then what will be
logged, are in this order; a worker thread walks a list that others change, and its event
is exempt from the order but not from being of its run. The lists of subscribers have no
duplicates; lemmas on appending, removing and the places in a list carry it.

**Accounts.** `HostInv` bounds what the open window admitted and what any window's length
that ends before it did; a stretch of time touches at most two windows, and the sum splits
where the later one starts. `RowsInv` says that a row holds the token its account stored
last and `RequestsInv` that each client's token is of the account the request was resolved
for; a session may change in between, the caller of the request does not. `AllClientsInv`
says that a waiting request has open, or will open, only what its route depends on, which is
why leaving the dependencies one by one leaves no client open. `WorkspaceInv` adds
that active calls and shown lists are not before the connection they were asked under.

**Induction.** The library's induction theorems take an operator as a parameter, which no
installed prover can instantiate. Where an argument is inductive (Kahn's loop, sums, lists),
it takes a smallest counterexample instead (`LeastNumber` and a smallest set, from
`WFMin` of the library, in `FiniteSums`). Folds are treated once: `FoldTable` says that what
a fold has come to after each element is a table that starts with the base and goes on by
its step, given a set that the steps stay within; a fact about a fold is then an invariant
of its table (`UpTo`).

**Stated for the proofs.** `TypeOK`, `CaseInv`, `LimitKept`, `OneCurrentWriter`,
`NoSaveConflicts`, `ResultsAppendOnly`, `StepsOnlyAdvance` and `EndedRequestsAreShut` were
checked by TLC before they were proved; as theorems hold for every instance, no run repeats
them. The same is true of the theorems that only state an inductive invariant.

**Left to TLC.** Liveness (`RoundEnds`, `StartedCaseEnds`, `BegunTurnEnds`, `RunEnds`,
`ScanEnds`, `PagesSettle`, `ClientsAreClosed`, the contract's closing) and with it the fairness
half of `RoundsMeetContract`: the prover has no ENABLED.

## 5. What is abstracted

One case is modelled: runs are independent rows, and the counters' only question
here is how often this case increments each. A fact type and a fact are one and the same.
Evidence appears in the executor, the loop and `SourceReads`; the case keeps only facts,
rounds and calls left. Payloads and prompts are not represented; in the case hypotheses and
diagnoses are not either: their generation is a step that succeeds, fails or raises. A scan
has them as far as the validators look at them; deployment and pull-request facts, which
no scan collects, and the developer recommendations, which repeat the findings, are left
out. A save is atomic, as its transaction is; the compare-and-set on the status within it
is `Accepts`. Facts are counted in any order; the code takes them sorted. Time is absent
but for the limiter's clock: a timeout is a tool failure, a backoff a place where a task can
be interrupted, a poll timer fires when it fires.

The plan executor, the reads and the case meet at two interfaces. A tool of
`PlanExecution` publishes any subset of its fields and any evidence, or fails with any
code; `SourceReads` produces particular ones. A round of `InvestigationCase` is a
`RoundContract` step; `AdaptiveRounds` implements that contract. Likewise a call of
`MergeReadiness` succeeds or fails, and `MergeEvidence` says how, and `RunInspection` lets
a run advance by any save the workflows could make.

In `SourceReads` a provider is what its answers show: identifiers, statuses, dates present
or not, keys and commit hashes sound or malformed. Values that are only copied into evidence
are left out. Retries belong to the executor, caching does not exist. In `RunContracts` a
field is there or not, and numbers have their ranges; lengths of texts and the enumerations
that both sides list alike are left out, the list of explanation providers excepted. In
`RunInspection` the interval has no length, an event is its run, its number, whether it is the
last and whether a thread logged it; the preset demonstration and edits of single extracted
fields are not separate actions, since both end in a form that `Submit` sends. In `Accounts`
passwords, signatures and encryption are taken as sound: a session cookie is the account it
was issued for until it expires, a stored token decrypts to what was stored.

**Not modelled.** The evaluation harness (`evals/`) scores recorded runs offline, and
`diagnostics/` probes one provider from the command line: neither is part of the running
system. `config.py` reads the environment once and stops a process it cannot
configure. Spans, metrics, usage records and their exporters (`observability/`) report what
runs do and change no state of theirs; the events they log are in `RunInspection`, because
pages see them. Prompts, the contexts sent to models and the rendering of results are text.
Deployment facts and the relationship index are pure functions of the evidence store, each
use computing them afresh. Fixtures and fake connectors serve demonstrations and tests.
The components' notes in PROJECT.json say what of a partly modelled part is left out.

## 6. Plan

Done: validation, executor, loop and case with their abstract specifications; the
merge-readiness run with its evidence, policy and explanation; the scan; the sources' reads;
pages, events and contracts; limiter, accounts and request clients; a theorem for every
safety property of the runs. Of the properties nothing is left that the provers reach:
liveness stays with TLC. Should the system grow, what comes next is the evaluation harness
(that a replayed run scores as the recorded one) and the frontend's result views, which no
module reads yet.
