# CoolProof: verification project

TLA+ models of the CoolProof backend (`app/`: FastAPI, SQLAlchemy async over
PostgreSQL, a Redis list, one polling worker, S3, the FortyGuard heat provider,
LLM agents, a SCIP optimizer), their TLC runs and TLAPS proofs.

## 1. The system

| Component | State it keeps | Operations | Talks to | Hard behaviour | Model |
|---|---|---|---|---|---|
| Governed agent runs (`agents/runtime.py`, `api/agents.py`) | `agent_runs`, `agent_events`, `agent_approvals` | create, execute (four nodes, checkpoints, gate), decide, finalize, stream events | PostgreSQL, providers, plan page | overlapping handlers with private row copies, a lost handler, a resuming reader | `AgentRuns` |
| Grounding, providers (`agents/`) | `agent_runs.state_json` | filter references, resolve, complete, keep | PostgreSQL, NIM / Backboard | tables that change between the resolver's SELECTs, foreign ids, invented citations, revisions | `GroundedRuns` |
| Heat pipeline (`services/heat.py`, `api/heat.py`, `workers/`, `worker.py`) | `heat_analyses`, `fortyguard_activities`, `provider_circuits`, the Redis list | submit, poll, schedule, recover | FortyGuard, Redis, PostgreSQL | paid calls and idempotency, at-most-once list, retries, circuit breaker, resubmission while a poll is in flight | `HeatPipeline` |
| FortyGuard client (`integrations/fortyguard`) | none that outlives a request | POST, GET with retries | FortyGuard | re-posting a request that was charged | in `HeatPipeline` |
| Database sessions, audit (`db/`, `services/audit.py`) | every table | flush, commit, rollback | PostgreSQL | `expire_on_commit=False`: copies go stale; only changed columns are written | in every model |
| Documents and retrieval (`api/documents.py`, `retrieval/`) | `documents`, `document_chunks` | upload, finalize, search | S3, PostgreSQL | two finalizations at once, evidence that cites replaced chunks | `DocumentIngest` |
| Interventions and evidence (`api/interventions.py`) | `interventions`, `intervention_evidence` | create, attach, detach | PostgreSQL | evidence of replaced chunks | `DocumentIngest`, `PortfolioRuns` |
| Projects and zones (`api/projects.py`) | `projects`, `zones` | create | PostgreSQL | rows of several tenants | `PortfolioRuns` |
| Portfolio (`optimization/`, `api/optimization.py`) | `portfolio_runs`, `portfolio_allocations` | optimize, read | SCIP, PostgreSQL | interacting constraints, rounding, tenancy of every id, the request's prices beside the catalogue's | `Portfolio`, `PortfolioRuns` |
| Verification and reports (`api/verification.py`, `services/`) | `verification_runs`, S3 objects | calculate, write report, retry, read | S3, PostgreSQL | idempotent creation under races, two stores, a failing artifact write | `Verification`, `VerificationReports` |
| Request guard (`core/middleware.py`) | hits per host | admit or refuse | every request | the window's boundary | `RequestGuard` |
| Tenancy and authentication, configuration, telemetry, frontend, deployment | none with a protocol | | | | section 8 |

What makes them correct: the events of a run form a dense append-only log that
a reader can resume without loss; a run moves only along its governed lifecycle
and completes only when approved; it is grounded in what was asked for, in
rows of its own tenant and in citations the resolver issued, and what is saved
of it is of one execution; until a result expires a heat query is paid for once,
a pending analysis has a durable next poll and ends, and the paid result is not
lost (after an expiry the code keeps none of this, section 7); search sees a document
change only from one whole finalization to another or to nothing, and evidence
never cites a chunk that is gone; a stored portfolio keeps every constraint that
was asked for; equal verification requests are one run, and a report key is never
ahead of its object; a client is refused exactly at its limit.

## 2. Modules

| Module | Contents |
|---|---|
| `AgentRuns` | one run: rows, sessions, transactions, requests, reader, loss |
| `EventLog` | abstract: a numbered append-only log and a follower |
| `RunLifecycle` | abstract: the governed lifecycle of a run |
| `GroundedRuns` | one run: references, resolver, providers, durable state |
| `HeatPipeline` | heat analyses: submits, worker, provider, time, faults |
| `DocumentIngest` | one document: upload, overlapping finalizations, evidence |
| `SearchIndex` | abstract: what search serves of a document |
| `Verification` | the verification calculation, pure |
| `VerificationReports` | verification runs, their S3 objects, the requests about them; extends `Verification` |
| `ReportLedger` | abstract: one computation per request, reports that stay |
| `Portfolio` | the optimization problem, its feasible choices and its result, pure |
| `PortfolioRuns` | projects, zones, catalogue, portfolio requests of two tenants; extends `Portfolio` |
| `RequestGuard` | the body limit and the per-client deque |
| `SlidingWindow` | abstract: a limiter that looks at the whole history |
| `AgentRunsProofs`, `GroundedRunsProofs`, `HeatPipelineProofs`, `DocumentIngestProofs`, `VerificationReportsProofs`, `PortfolioRunsProofs`, `RequestGuardProofs` | inductive invariants, lemmas, theorems |
| `FiniteSums` | lemmas about sums over finite sets, used by `PortfolioRunsProofs` |
| `MC...` | the instances TLC starts from |

Definitions headed "Mutant:" are not part of a model. Each is a plausible bug
in the definition that follows it, used to see that a property can fail.

### `AgentRuns`

A handler is a request `r` with a program counter `pc[r]`, the copy `mem[r]` of
the row its session holds, the decision in its body, and at most one flushed
transaction `txn[r]`. The database is `row`, `events`, `approvals` and the
`lock` of the row. A code transaction is two steps: `Flush` is `_event`'s
`SELECT max(sequence)`, which by autoflush first sends the UPDATE of the
changed columns and so takes the row lock; `Commit` publishes and unlocks.
The actions follow the functions: `CreateRun`, `ProviderUnavailable`,
`BeginExecution`, `Invoke`, `Checkpoint`, `OpenGate`, `FailRun` (the parts of
`create_run` and `execute_run` between awaits), `LoadForDecision`, `DecideRun`,
`FinalizeApprovedRun`, `StreamEvents`, and `Crash`. What the graph computes is
abstracted to "returns" or "raises" (`GroundedRuns` has it). Runs share no
state, so one is modelled. `decision` and `mem` of a finished request are reset
where the code drops its session. A database error inside `execute_run`'s `try`
is a `Crash`: the session cannot commit the FAILED status either.

### `GroundedRuns`

The other half of an execution: what it computes. `heat`, `portfolios` and
`evidence` are the tables of every tenant, `run` the row with the references
kept by `safe_input_references`, `state` its `state_json`, `work` the
`CoolProofState` in memory, `step` the place in the execution. `StartAgentRun`
and `Revise` begin it; `ResolveHeat`, `ResolvePortfolio`,
`ResolveInterventions` and `ResolveEvidence` (once per intervention) are the
SELECTs of `resolve_grounding`, with the GroundingError of each; `RunNode` is
`_run_node` with a valid answer or a ProviderError; `Checkpoint` is each of the
four commits of the state, `OpenGate` the commit of the status, `FailRun` the
other end. `Crash` loses the execution before any of these steps; the run then
stays `running`, with the state of the last checkpoint, as in the code, where
nothing resumes it. A database error in a checkpoint is a `Crash`, for the
session cannot commit FAILED either. `TenantChanges` lets rows appear, and
evidence disappear, between any two steps. One execution at a time: `AgentRuns`
has the overlapping ones. A fact is of one of three kinds, told apart by
`safe_provider_facts`; "label" includes the status, method, agent and `*_id`
strings of up to 120 characters it lets through. `asked` (the input as the client
sent it), `sent`, `issued` and `lasting` are history variables and decide
nothing. The references of the first request serve every revision.

### `HeatPipeline`

`row`, `sched`, `circuit` are the three tables, `queue` the Redis list, `jobs`
the provider's activities (each one charged), `req[r]` a submit request and its
session, `worker` the polling worker and its session. `Submit`, `Insert`,
`Accepted`, `Rejected`, `CommitSubmission` and `Enqueue` are the awaits of
`HeatService.submit` and `create_heat_analysis`; `Dequeue`, `PollAnswered`,
`PollFailed`, `PollCommit`, `ScheduleNext`, `Wake`, `RecoverDue` those of the
worker. Columns are written as in `AgentRuns`; timestamps are written whenever
the code assigns them, because two timestamps always differ. Where PostgreSQL
would make a session wait, the action is not enabled (`MayWrite`, `Insert`).

Time is abstracted to flags that `PollDue`, `CircuitElapses` and `Expire` flip
at any moment after they are set, which allows every relative speed. Faults are
`RequestLost` (API process, Redis or database), `TickLost` (the worker raises
or restarts), `QueueLost` and `LostAnswer` (the POST was charged, its answer
lost, and the client posts again). The activity's own status string, payload
and provider id are never read by the code and are left out, as are audit rows.
The deployment runs a single worker (`docker-compose.yml`), and so does the model.

### `DocumentIngest`

`doc`, `chunks` and `evidence` are the committed tables of one document; other
documents share nothing with it. A request has the row its session loaded
(`mem`), the content it finalizes (its text, or whatever the client has put in
S3), the chunks its DELETE visits (`read`) and those its open transaction has
deleted (`gone`). `Finalize` is the load with the checks that need no further
await; `DeleteStarts` and `DeleteEnds` are the DELETE, whose snapshot is older
than the row locks it waits for; `SaveRow` and `InsertAndCommit` (or
`InsertConflicts`, the IntegrityError) are the flush and COMMIT. The flush comes
only there, because the vector UPDATE between the inserts is a text statement
and does not autoflush. `Reject` is the FAILED commit of a failed fetch or
validation. `LoadForEvidence`/`AddEvidence` and `RemoveEvidence` are the evidence
endpoints; removing is one step, since deleting a row that has gone is no error.
PostgreSQL aborts one of two transactions that wait for each other
(`DeadlockBroken`); any other database error is a `Crash`, which rolls back as
well. `overwrote` is a history variable and decides nothing.

### `Verification` and `VerificationReports`

`CalculateVerification` is the weather-adjusted difference in differences on
integers; a quotient is kept as its two terms. `runs` are the rows of one
organization, `objects` what S3 holds of each run's report; a run is named by
the request that inserted it, so a run whose commit was lost is never reused.
`CreateVerification` is POST /verifications up to the calculation, `InsertRun`
its INSERT and COMMIT against the unique idempotency key, `LoadForReport` the
two report endpoints, `GetVerification` the two reads; `WriteReport` is
`put_object` with its five outcomes (stored, no bucket, an exception the handler
catches, a botocore error it does not, an answer lost after the object was
stored) and `SaveReportKey` the UPDATE after it. `Crash` loses a handler between
any two of these. The idempotency key is a hash of the whole body and modelled
as the body: collisions are left out.

### `Portfolio` and `PortfolioRuns`

The solver is the set `Portfolios` of feasible choices, any of which it may
return: the code accepts FEASIBLE beside OPTIMAL, and what OR-Tools calls OPTIMAL
is so within the gap its parameters allow. Nothing is therefore said of how good
a plan is, and the objective is not modelled. Costs are integers of a tenth of a
cent, because the code rounds each allocation to cents before it adds them.
Floating point tolerance of SCIP is left out, and no cost is half a cent.
`PortfolioRuns` creates projects, zones and interventions of two tenants while
requests validate them and solve (`Optimize`), write run and allocations in one
transaction (`CommitRun`) and answer from memory (`Reply`), or are lost before
the commit or between it and the answer (`Crash`). `GetPortfolioRun` is the
endpoint a tenant reads back with, and is used by the property
`StoredAsAnswered`.

### `RequestGuard`

`hits` are the deques per client. `Limit` is the whole of `dispatch` up to its
verdict, which has no await: pop the stale hits, refuse or append. `TooLarge` is
the declared length over the limit, `Restart` an empty process, `Tick` the
monotonic clock. `log` and `verdict` are history variables: the first is what
`SlidingWindow` decides by.

## 3. Runs

| Run | Question | Bounds |
|---|---|---|
| `agents_concurrent` | do overlapping handlers keep the log dense and complete, decisions and events in agreement, the gate behind all four nodes, the row's status and every execution explained by the log, and does an execution or approved run always move on? | 3 requests, 2 in flight, 1 loss, weak fairness |
| `agents_serial` | do requests taken one at a time follow `RunLifecycle`? | 4 requests, 1 loss |
| `agents_reject_race` | violation: a rejected run becomes completed | 3 requests |
| `grounded_runs` | is what leaves for a provider and what is saved the tenant's, as the client asked, cited and of one execution, while the tables change and the handler may be lost? | 2 projects, 2 tenants, 7 inputs, 4 changes, 2 revisions |
| `heat_pipeline` | a success has its result; until an expiry one charge per query and fault, schedule durable, paid result kept, every committed pending analysis ends | 1 query, 2 submits, 2 faults, 1 expiry, 4 attempts, weak fairness |
| `heat_stranded` | violation: a pending analysis is lost for good after an expiry | 2 submits, 1 fault, 1 expiry, 2 attempts |
| `heat_fallback` | violation: a stale fallback is erased | 2 submits, 1 expiry |
| `heat_double_charge` | violation: a pending query is bought again | 3 submits, 1 expiry |
| `documents_concurrent` | are chunks never mixed, served whole, evidence backed, every wait resolved? | 4 requests, 2 in flight, 1 loss, 4 contents, weak fairness |
| `verification_reports` | one run per body, no key without its object, no answer taken back? | 4 requests, 3 in flight, 1 loss, 6 bodies, 5 outcomes |
| `portfolio_runs` | does the stored plan keep what was asked, do its accounts add up, was the client told what is stored? | 2 requests, 2 in flight, 11 bodies, 2 tenants |
| `request_guard` | does the deque decide as the whole history would? | 2 clients, limit 2, window 3, time to 6 |

Why the bounds are enough. An agent run needs one request to create it and two
overlapping ones to race; a third reaches a second approval cycle, and four
serial ones create, revise, revise again and decide. One loss at any step shows
what a loss can leave behind; a second one only ends another handler. A reader
is followed up to its tenth event (`MaxFrames`), of up to 21 in the log: enough
to reconnect while both handlers are writing; the theorem `ReaderMissesNothing`
has no such bound. For grounding, four changes give a row of each table before
the execution and one change in the middle of it, or evidence that comes, is
cited and goes; two revisions let a durable state be extended, and a failed or
lost revision come after a complete one. A loss ends the run, so it needs no
bound. The inputs name rows of another project, of another tenant, unreadable
ids before and instead of readable ones, and none. For heat, two submits race
for the insert, or the second arrives after the expiry while the worker polls
for the first. Four attempts are needed for three consecutive failures to open
the circuit while the analysis is pending, and two already reach both the retry
and the final failure, as in the violation runs. Two faults lose a queue item
and then the recovered one. For a document, a deadlock needs one finalization
that started before a second one committed its chunks and a third that deletes
them; the fourth request may be evidence or a retry. Contents of two, one and no
chunks and one that is refused take every branch. For verification, three
handlers in flight let two equal creations race while a third request already
reports the winner; the bodies are two good ones, of a zone that cooled and one
that warmed, and one for each refusal. Two portfolio requests overlap, of one
tenant or of two; there is one body per constraint and refusal, and every
feasible choice of each is taken. Six ticks are two windows, so that a full
bucket is emptied and filled again.

Runs end when every request is done and, for heat, the list is empty and
nothing is pending, so deadlock is not checked: the system legitimately waits
for the next client (and the guard's clock is bounded).

## 4. Properties

Each property is stated in a comment above its definition. `ChargedOnce`,
`ScheduleDurable`, `ResultKept` and `AnalysesSettle` are claimed within the TTL
(`WithinTTL`): after an expiry the code does not keep them, see section 7.
`GroundedAsAsked` compares with the input as the client sent it and names one
exception, ids that cannot be read (section 7).
`RequestGuard!TypeOK` includes the bound of the buckets. Five refinements are
checked: `AgentRuns` implements `EventLog` and, serially, `RunLifecycle`;
`DocumentIngest` implements `SearchIndex`, `VerificationReports` implements
`ReportLedger`, `RequestGuard` implements `SlidingWindow`.

## 5. Fairness

`AgentRuns`: weak fairness of each handler's own steps. The event loop resumes
every handler whose await is over and PostgreSQL grants a released lock. No
client is obliged to send a request and no reader to read.
`HeatPipeline`: the same for requests; weak fairness of the worker loop, of each
timer, and of the provider ending each activity it has accepted. Answers may be
errors for ever: it is the attempts bound that ends such an analysis.
`DocumentIngest`: weak fairness of each request's own steps, lock waits granted
and deadlocks broken by PostgreSQL included.
The other models are about safety and state no fairness.

## 6. Proofs

All theorems hold for every value of the constants that the named assumption of
the component's module admits; two of `AgentRunsProofs` have a hypothesis
besides, which is discussed below. Every invariant, action property and
refinement of a passing run is the subject of one of them.

| Module | Theorem | Property |
|---|---|---|
| `AgentRunsProofs` | `TypeCorrect` | `TypeOK` |
| | `EventsNumberedDensely` | `SequencesDense` |
| | `ReaderMissesNothing` | `NoMissedEvent` |
| | `EventLogImplemented` | `ImplementsEventLog` |
| | `GateFollowsEveryNode` | `GateAfterEveryNode` |
| | `DecisionsInBothOrNeither` | `DecisionsLogged` |
| | `TrailExplainsRun` | `AuditTrail` |
| | `CompletionNeedsApproval` | (a completed run has an approve row; not a run's property) |
| `AgentRunsProofs`, if `MaxInFlight = 1` | `DecisionsOnWholeRevisions` | `DecidedWholeRevision` |
| | `LifecycleImplemented` | `ImplementsLifecycle` |
| `GroundedRunsProofs` | `GroundingTypeCorrect` | `TypeOK` |
| | `TenantsIsolated` | `TenantIsolation` |
| | `OnlyIssuedCitations` | `CitationsIssued` |
| | `GroundedInWhatWasAsked` | `GroundedAsAsked` |
| | `LastingEvidenceCited` | `EvidenceComplete` |
| | `DurableStateWhole` | `StateOfLastExecution` |
| `HeatPipelineProofs` | `HeatTypeCorrect` | `TypeOK` |
| | `PaidOnce` | `ChargedOnce` |
| | `SuccessHasResult` | `SucceededHasResult` |
| | `PendingIsScheduled` | `ScheduleDurable` |
| | `ResultsSurvive` | `ResultKept` |
| `DocumentIngestProofs` | `DocumentTypeCorrect` | `TypeOK` |
| | `ChunksWhole` | `WholeDocument` |
| | `EvidenceNeverDangles` | `EvidenceBacked` |
| | `ReadyIsServed` | `ReadyServesItsContent` |
| | `SearchIndexImplemented` | `ImplementsSearchIndex` |
| `VerificationReportsProofs` | `ReportsTypeCorrect` | `TypeOK` |
| | `RetriesAreOneRun` | `OneRunPerBody` |
| | `ReportsBacked` | `ReportBacked` |
| | `AnswersStayTrue` | `AnswersDurable` |
| | `CommittedResultsConsistent` | `ResultsConsistent` |
| | `LedgerImplemented` | `ImplementsLedger` |
| `PortfolioRunsProofs` | `TypeCorrect` | `TypeOK` |
| | `CommittedKeepsPromises` | `PromisesKept` |
| | `AccountsBalance` | `StoredAsAnswered` |
| `RequestGuardProofs` | `GuardTypeCorrect` | `TypeOK` |
| | `BurstsBounded` | (`NoBurst`, not a run's property) |
| | `SlidingWindowImplemented` | `ImplementsSlidingWindow` |

**AgentRuns** (`BoundsAssumption`, `ProviderAssumption`). `IInv` adds to
`TypeOK` what the density of sequences rests on. Every flush in the code changes
a column (`pc` says which), so a flushed transaction holds the row lock; hence
at most one is open, and the number it took is still `Len(events) + 1` when it
commits. Without that conjunct density is not inductive: two open transactions
could carry the same number. `NoMissedEvent` follows from density, since an
event that commits later is numbered above everything the reader has asked for.
For completion, `IInv` says that a handler in its finalize step has an approve
decision committed. The refinement of `EventLog` maps `Commit` and `CreateRun`
to `Publish`, `StreamEvents` to `Follow` and every other step to a stutter.

Two invariants on top of `IInv` count what is in the log. `GateAfterEveryNode`
is not inductive: it says nothing of an execution that is about to open its gate.
`LogInv` therefore lets each handler stand for what it has published and not yet
used: it counts as a completion of node `n` from the commit of that checkpoint to
the commit of its gate, its failure or its loss (`Checkpointed`), and gates plus
such handlers never outnumber the completions (`GateCounted`). `TrailInv` does
the same for `AuditTrail`: a handler is entitled to one execution from the event
that asks for it, to one ending (gate or failure) from `run.started`, and to one
completion from its own `run.approved`; for each, what has happened plus the
entitled handlers is at most what was granted (`Balanced`). Each open
transaction says what it will publish: where its event leaves its handler, that
its UPDATE writes the status if and only if the event tells it (`TrailTold`),
and that an approval row comes with its decision event (`TxnEvents`). That is
where the column-wise UPDATE matters: a session that wrote its whole row back
would undo the status another one has committed, while the log tells the other
story. A commit adds one event, so each proof compares cardinalities before and
after with one element more or less.

`DecisionsOnWholeRevisions` and `LifecycleImplemented` assume `MaxInFlight = 1`. The code does not serialize
the requests of a run, so this is a hypothesis about the clients and not an
assumption of the module: the properties are those of the serial run, and of
overlapping requests only the other theorems speak. `SerialInv` says that at most one request is in flight, that its copy
is the row until it opens a transaction and that the transaction is then one
lawful step of the row (`SerialHandler`, `Lawful`), that its revision agrees with
the checkpoints it has staged (`Progress`), and the row's with its status
(`Settled`): whole executions everywhere but in the middle of one.

**GroundedRuns** (`GroundingAssumption`: ids name one row of one table).
The properties speak of the durable state, which any of four commits may leave;
`IInv` says for each `step` what is already settled of the state in memory: the
heat analysis (`HeatAsAsked`), then the portfolio run, then the interventions,
then that lasting evidence is cited or its intervention is still in `todo`
(`EvidenceKept`), then which summaries are written and whether the analyst's
entry is in (`StateKept`). From the first checkpoint on memory and durable state
are equal, so that the later checkpoints, the gate and a loss between them
disturb nothing; before it a loss or a failure leaves the durable state of the
last complete execution. A failure leaves the "fail" step, at which nothing is
claimed of the state in memory, which is dropped.

What the resolver goes by is `run.input`, and what `GroundedAsAsked` goes by is
`asked`, the input as it was sent: between them lies `Valid`, a recursive function
over the list. That it solves its recursion, and that each of its values is a list
of ids (`ValidKeepsIds`), that the first of them is the first readable id and that
together they are all of the readable ones (`ValidIsReadable`, `ReadableKept`), is
proved from the smallest length at which it would not be (well-foundedness of `<`
on the naturals). So the only difference is the one the property names: a list of
which nothing can be read counts as empty.

**HeatPipeline** (`HeatAssumption`). A request that inserts a row holds its lock
and finds it absent until it commits (`RequestsSound`). Only the worker writes
results, so what it has loaded is still the result when it commits
(`PollSound`); and before anything has expired nobody else writes the row at
all, so its commit leaves exactly the row it computed (`CopySound` in
`UnexpiredSound`). `ChargesExplained` accounts for each activity of a query by
its row, its open request or a fault. Without `RequestsSound` two sessions could
insert the same row and both pay; without `CopySound` the worker's UPDATE could
put a pending status over a finished row.

**DocumentIngest** (`DocumentAssumption`). `WholeDocument` alone is not
inductive: a transaction that had deleted some of the chunks would leave the
rest beside its own. `IInv` adds that a DELETE under way meets all of the chunks
or none (`VisitsAllOrNone`, since chunks are replaced as a whole and have fresh
ids), and that only one open transaction has deleted anything, and that
everything (`HoldsAll`, by the row locks). A transaction that missed the
committed chunks then finds their ordinal 0 in its way, unless it has no chunk
to insert (`CommitReplaces`).

**VerificationReports** (`ReportsAssumption`). A handler that is to write or
save has a committed run (`HandlersBacked`); one that is to save has written the
object, and objects only ever hold the result of their run
(`WrittenBeforeSaved`); every committed result is the calculation of its body
(`RunsCalculated`), from which `ResultsConsistent` is arithmetic.

**PortfolioRuns** (`PortfolioAssumption`: finitely many zones and interventions,
bodies as the schemas admit them). `IInv` says that what is to be committed, and
what is committed, is the result of a feasible choice for the problem of its own
body (`WorkSolved`, `RunsSolved`), with exactly the rows of that result. It has
to speak of the work in memory as well: the commit writes that without
validating it again, and after the commit the answer is made from it and not from
the row, so that a client that is told anything is told what is stored
(`ToldWhatIsStored`) only because the two are equal. The converse is not claimed:
a request lost after its commit has stored a run nobody was told of. The promises
are then the constraints, and the accounts are sums over the choice, renamed to
sums over the rows (`Accounts`). `FiniteSums` has what that needs of the
community fold `SumFunctionOnSet`: a CHOOSE of a function that solves its own
recursion, shown to exist and to be unique on every finite set, then linear,
monotone up to rounding and invariant under renaming. Each is proved from a
smallest counterexample, by well-foundedness of strict inclusion among finite
sets (`SmallestSubset`), so no induction over an operator is needed.

**RequestGuard** (`GuardAssumption`). The bucket is the end of the log that
starts at or before the first hit within the window (`Remembers`): what was
popped is out of every later window, because the clock does not go back. From
that the bucket's length decides as the count over the log does, and
`NoBurst`, that no window of the log holds more than the limit, is inductive.

Model-checked only: the liveness properties (`ExecutionSettles`,
`AnalysesSettle`, `RequestsEnd`), which need fairness and ENABLED. The
properties of the violation runs are false of the specification.

## 7. Where code and documentation disagree

Four violation runs, each against a quoted sentence (`findings` in
`PROJECT.json`): a rejected run can become completed; polling a replacement
erases the stale fallback; a pending query is bought again once its old result
has expired; a pending analysis can be stranded. The last: while the worker polls
the old activity of an expired analysis, the query is submitted again; the poll
answers "completed" and takes the next poll away from the row the resubmission
then leaves queued; when its queue item is lost as well, no recovery scan finds
the analysis, although PostgreSQL is said to be the source of truth for the
schedule (`workers/heat_polling.py:81-83`, `worker.py:35-37`).

Met while modelling, and visible in the models, but without a run:

- `agents/runtime.py:228`: of two overlapping revisions the later commit may
  carry the lower checkpoint revision.
- `services/heat.py:218`, `workers/heat_polling.py:60`: while the circuit is
  open an item that is due is put back as due, so the worker spins on it.
- `retrieval/documents.py:104`: of two overlapping finalizations one may
  commit over a row it had not loaded; the document then shows READY without a
  chunk, or with the hash of other content than its chunks'.
  `ReadyServesItsContent` excuses exactly that (`overwrote`).
- `agents/grounding.py:87-88` says an unreadable reference is still rejected by
  `resolve_grounding`; `safe_input_references` has dropped it by then, so a
  request that names only such ids is grounded in the latest row, or in the whole
  catalogue (`Valid`, `SafeInputReferences`; the exception in `AsAsked`).
- `agents/grounding.py:358` keeps "scalar, non-text measurements only" of a
  provider's facts, and `agents/runtime.py:78-79` says "Provider completions are
  never persisted"; strings of up to 120 characters in the status, method, agent
  and `*_id` keys of those facts are kept whatever they say, and
  `StateOfLastExecution` counts them as labels.
- `agents/runtime.py:226-234`: from the first checkpoint on the state of an
  execution is durable while its run is still RUNNING, and stays so when the
  handler is lost; the checkpoints are described as records for operational
  recovery, but nothing recovers from them (`StateOfLastExecution` names the case).
- `docs/operations.md:50-52` promises a null `report_key` when S3 is unavailable.
  `create_verification` (`api/verification.py:114`) catches OSError, ValueError
  and RuntimeError only; botocore's errors for a refused or unreachable bucket
  (ClientError, EndpointConnectionError) are none of these, and the creator of the
  run then gets a 500; the calculation is durable, as promised, and
  a retry finds it (`WriteReport`, the outcome "escaped").
- `agents/runtime.py`: citations accumulate over revisions, so a citation of an
  earlier grounding stays; `CitationsIssued` says what does hold. Of several
  heat or portfolio references only the first is used.
- `optimization/portfolio.py`: a required pair that is not eligible, and a
  required or incompatible pair that is spelled differently from `str(UUID)`,
  constrains nothing; FEASIBLE is accepted as an answer and OPTIMAL holds within
  OR-Tools' gap, so a request with a larger budget may get a plan worth less;
  line 101 truncates the value of a variable, so one that SCIP leaves just below
  1 is lost (the model has exact values); infeasible constraints are a 500; SCIP
  runs without a time limit inside the event loop; `compatibility_group` is
  never read.
- `api/optimization.py:165-168`: a portfolio run whose client was lost after the
  commit is stored and, without an idempotency key, stored again by its retry.
- `core/middleware.py`: the buckets of clients that never return stay.
- No code resumes an agent run whose handler was lost, and a heat submission
  that failed is cached for ever: hazards without a sentence to contradict.

## 8. Not modelled, and plan

Not modelled: token verification, membership and role lookups (stateless; their
outcome, the organization, is an input of the models, which check what is done
with it); `agents/evaluation.py` (an offline score without state); configuration,
errors, telemetry, tracing, health; migrations; frontend pages other than the
event reader; deployment files; the heat score and request key, text
extraction, embeddings and search ranking, the confidence interval, presigned
URLs, request ids, the backoff inside one FortyGuard call: arithmetic, text or
I/O without a protocol.

State of the plan:

1. `AgentRuns`, `EventLog`, `RunLifecycle`, proofs of safety and of both refinements: done.
2. `HeatPipeline`, safety, recovery, proofs of safety: done.
3. `DocumentIngest`, `SearchIndex`, proofs of safety: done.
4. `VerificationReports`, `ReportLedger`, proofs: done.
5. `RequestGuard`, `SlidingWindow`, proofs: done.
6. `GroundedRuns`, proofs of safety: done.
7. `PortfolioRuns`, proofs of all of its properties: done.
8. Left: an abstract specification of a purchase (bought, pending, settled) that
   `HeatPipeline` implements within the TTL, and one module in which an
   execution of `GroundedRuns` runs inside the overlapping handlers of
   `AgentRuns`.
