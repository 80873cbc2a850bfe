# A verification project for the stock research agent

This directory holds TLA+ models of the stock research agent, the TLC runs that
check them on small instances, and theorems about them checked by TLAPS.
`PROJECT.json` is the index: components, runs, mutants, the source lines every
definition models, the hazards and the properties that watch them.

Source paths below are relative to `src/src/stock_research_agent/`.

## 1. The system

A run researches one target (the market, a sector or a stock) as of one date. A
LangGraph state graph (`graph/builder.py`) calls nodes one super-step at a time;
a node reads the state, awaits models or sub-graphs, and returns updates that the
reducers of `graph/state.py` merge at once. Data comes from two market-data
servers and from AKShare's public news; model output is structured and is
validated before it may change the state. Nodes fail closed: a node that cannot
show that its input and its result are in order records why and changes nothing
else.

| Part | State it keeps | Operations | Talks to |
|---|---|---|---|
| Evidence stages (`graph/nodes/*_research.py`, `builder.py` 525-769) | `research_requests`, `evidence_pool`, `stage_status`, the active request | initial run, targeted run, cancel, release | evidence agents; collector |
| Evidence agents (`agents/*/subgraph.py`) | tasks, observations, verification rounds, tool-call budget | snapshot, analyse, plan, verify, review, finalize | tools, structured model output |
| Evidence collector (`graph/nodes/evidence_collector.py`) | `evidence_collection` | collect with nine rejection reasons | stages, validation loop |
| Candidate theses (`graph/nodes/candidate_thesis.py`) | `thesis_pool` | generate grounded drafts | collector, validation loop |
| **Thesis validation** (`graph/nodes/thesis_validation.py`) | pool, session, active request, findings, counters | select, review, execute research, summarise | evidence agents, collector |
| Portfolio recommendations (`portfolio_recommendation.py`, `independent_recommendations.py`) | two recommendations, their summaries | two parallel branches, finalizer | validated theses |
| Proposal normalisation (`proposal_normalization.py`) | conflict groups | match proposals to slots | recommendations |
| **Cross review** (`cross_review.py`, `conflict_score_validation.py`) | two review records, normalised pool, validation report, correction summary | review, apply, validate, correct | both managers' models |
| **Consensus gate and negotiation** (`consensus_gate.py`, `formal_negotiation.py`, `negotiation_score_validation.py`, `consensus_recommendation.py`) | pool, rounds, three kinds of audit record, report | gate, begin, reasons, revisions, scores, validate, complete, assemble | both managers' models |
| Report composer (`report_composer.py`, `reporting/`) | the report | compose, render | everything above |
| **Provider routing** (`providers/router.py`, `cache.py`, `backup.py`, `primary.py`) | cache entries, per-key locks | query | HTTP servers |
| **Market-data services** (`services/*.py`) | pages of the call under way | query with paging | routed provider |
| **Public news provider** (`providers/akshare_news.py`) | slots, threads, closed | query, aclose | AKShare functions |
| Tools (`tools/*.py`) | none | gather services, store, preview | services, data store |
| Data store and runtime (`research_data/store.py`, `runtime/application.py`) | entries per run, context per run, closed | put, get, cleanup; resolve, cleanup, aclose | tools, graph |
| Structured output (`llm/structured_output.py`) | attempt, diagnostics | invoke, parse, repair | model endpoint |
| Snapshots, analytics (`services/daily_*`, `analytics/`) | none | rank, aggregate, compute | tools |

The production graph (`runtime/application.py` 373) is built without the debate
models: it ends with two independent recommendations. Cross review, gate and
negotiation are nodes of the development graph that `build_research_graph` adds
when the models are given.

### What is hard here

* **Multi-step protocols over shared channels.** The same fact is kept in several
  channels (a request in the pool, its id as the active one, its turn in a
  session, its finding) by nodes that each check the others' work by ids and
  fingerprints. The hazard is twofold: a wrong update slips through, or a check
  refuses a right one.
* **Partial failure.** Two managers' calls run concurrently and one fails; a
  domain agent fails with a request open; one of several queries fails.
* **Budgets.** Validation rounds, requests per thesis and per run, discovered
  theses, correction attempts, negotiation rounds, pages, rows: each has one
  guard, and termination rests on it.
* **Stale data.** Scores given to a text that was revised since; evidence
  replaced by id under a verdict that cites it; pages of two sources; cache
  entries that expire between two lookups; `_closed` read before a wait.
* **Concurrency of the data layer.** Callers race for a key's lock; queries for
  threads that cannot be stopped; cancellation and timeouts at every await.

`PROJECT.json` lists each at its line under `hazards`, with the properties that
watch it, or what is still missing.

### What makes each part correct

* Thesis validation: one thesis and one request at a time; every request is
  answered once, within its budgets; directional verdicts stay grounded in
  collected evidence; history is append-only; the loop is bounded.
* Cross review: a correction is atomic over both managers and touches only the
  contradicting scores; a node run twice changes nothing; what passes is a legal
  start of the negotiation.
* Negotiation: one winner per slot, agreed on the current text by both; the audit
  records explain the pool; everything is decided in the end; the recommendation
  is exactly what was agreed.
* Routing and paging: the backup is asked once per key; a dataset is one
  source's snapshot or refused; every call ends.
* News provider: slots are conserved; nothing starts after close.
* Evidence stages: every request reaches one terminal state; the budget is
  respected; a stage that fails releases the others.
* Evidence agents: evidence is proved by calls that answered; tool calls stay
  within their budget (where the code makes that true); every task ends in a
  recorded outcome; "nothing found" is said only by who searched.
* Tools, store, runtime: partial data is marked partial; a reference leads to the
  full data as long as its run is kept; data of a run is gone after its cleanup.
* Structured output: attempts follow the policy and every one can be found in the
  log.
* Recommendations: a complete answer of the manager's model, resting on supported
  theses about its targets.
* Report: outcome and health follow from how the run went, and are never refused
  by the report's own model.

## 2. Modules

| Module | Models | Extends / uses |
|---|---|---|
| `ThesisValidation` | the validation loop | |
| `ThesisValidationProofs` | theorems about it: the loop, and its audit trail | `ThesisValidation` |
| `ConsensusLifecycle` | abstract: how statuses of proposals may move | |
| `Negotiation` | gate to assembly | instance of `ConsensusLifecycle` as a property |
| `NegotiationProofs` | theorems about it, the refinement and the audit trail among them | `Negotiation` |
| `CrossReview` | both reviews to the gate | instance of `Negotiation`: its end must be an initial state there |
| `CrossReviewProofs` | theorems about it | `CrossReview` |
| `ProviderRouting` | router, cache, key locks | |
| `PagedQuery` | the services' paging over the router | extends `ProviderRouting` |
| `AkshareProvider` | the public news provider | |
| `MarketDataProofs` | theorems about paging and the routed provider, and about the public news provider | `PagedQuery`, `AkshareProvider` |
| `EvidenceStages` | the evidence stages of the graph | |
| `EvidenceStagesProofs` | theorems about them | `EvidenceStages` |
| `AgentFrame` | the sub-graph that the four evidence agents share | |
| `FundamentalAgent`, `EventAgent`, `SentimentFlowAgent`, `TechnicalAgent` | what is each agent's own: requests, reservation, calls, proof | extend `AgentFrame` |
| `EvidenceAgents` | a run of any of the four, and what all must keep | instances of the four |
| `EvidenceAgentsProofs` | theorems about it | `EvidenceAgents` |
| `RunResources` | contexts of runs and the data store | |
| `ToolPlans` | which queries each tool makes, in which stages | |
| `AgentTools` | concurrent calls of tools, cleanups, close | extends `RunResources`, `ToolPlans` |
| `AgentToolsProofs` | theorems about them | `AgentTools` |
| `StructuredOutput` | calls of a model with repair, and their log | |
| `Recommendations` | the two managers, the finalizer, the report | extends `StructuredOutput` |
| `RecommendationsProofs` | theorems about them | `Recommendations` |
| `MC...` | instances for TLC | the module of the same name |

Conventions. A step is what the code does between two points at which something
else may run. For graph nodes that is a super-step: `pc` names the node that runs
next, an action reads the state, chooses what models and agents answer, and sets
the channels the node returns; the route is part of the action. For the data
layer a step lies between two awaits, and callers interleave. Operators named
`Mut...` are faulty variants, referred to only by `PROJECT.json`: each shows that
some property notices that fault.

### ThesisValidation

State: `thesis_pool`, `session`, `active_request`, `research_requests`,
`research_findings`, `evidence_pool`, `evidence_collection`, `request_count`,
`summary` are the channels of the same names; `pc` and `steps` stand for LangGraph.
Actions: `Select`, `Review` (all branches: invalid session, missing
session, no decision asked, failed call, verdict, request), `Execute` (no
executor, agent failure, refused reply, accepted reply), `FinalizeRun`, and
`ReviewAborts`, where a constructor raises outside the node's `try`.
Ids that the code computes as SHA-256 of their content are that content.
Texts, confidences and times are left out. The model's decisions, drafts and
the domain agents' replies are arbitrary members of constant sets, including
invented citations, changed records, requests about the future, records the
collector refuses and replies that break the contract.
The initial states are all pools and collections the candidate stage may leave.

### CrossReview

State: `pool` (scores and the audit fields of each item), `reviews` (a record per
manager with its attempt and its previous scores), `report`, `correction`, `pc`
and `failure`. Actions: `Review` (both managers, concurrently), `Apply`,
`Validate`, `Correct`. Fingerprints are the content they are made from. A node's
branch for its own earlier result is modelled; `BookkeepingAccepted` evaluates
it in every state in which the node could run again, and asks that nothing changes.

### Negotiation and ConsensusLifecycle

State: `pool`, `round`, the three kinds of records, the summaries and the gate's
`report`. Actions: `ConsensusGate`, `Begin`, `ExchangeReasons`,
`ReviseProposals`, `ScoreRevisions`, `ValidateScores`, the two completions of a
round and `Assemble`. A text is a revision number: raised by MODIFY and WITHDRAW.
An item is `<<slot, proposer>>`, so that a slot holds at most one item of each
manager, as `_normalize_items` of the proposal normalisation leaves it.
Scores are in quarters. `ConsensusLifecycle` has three actions (the gate rules, a
round begins, proposals are withdrawn) over the statuses alone; `Negotiation`
implements it with the statuses of its pool as the mapping.

### ProviderRouting and PagedQuery

A task runs one `BaseDataService._query`. `ProviderRouting` has its steps through
the router: primary, lookup, lock, second lookup, backup, put. The lock is its
owner and a queue, as `asyncio.Lock` hands it over; cancellation may strike at
every await and leaves the lock as `async with` does. The clock ticks to expire
cache entries. `PagedQuery` adds the loop over pages, each request going through
the router again with the offset in its key. What the servers have is fixed during
a run and chosen at the start: sizes, whether the API is paged, the primary's own
page cap, what it says of further pages (the truth, nothing, or always "more"),
whether it ignores the offset. A server that truncates and says that this is all
cannot be noticed by any client and is not among them. Nor is a source whose
content changes between two of its own pages: the service compares sources, not
versions, so the model says nothing of that case. Schema checks, `as_of`, row
filters and deduplication act on the rows after paging and are left out.

### AkshareProvider

`query` goes from waiting for a slot to the answer; `job` is the work it
submitted, which survives it. `asyncio.Semaphore` (Python 3.12, which
`pyproject.toml` requires) is modelled with its queue and with the gap between
being woken and running, in which a timeout, a cancellation or `aclose` may fall.
The executor is a set of queued and running jobs. Threads may hang.

### EvidenceStages

The four stages run the same code over different domains (the four files differ in
names and messages only), so one module with the domain of the current stage
stands for all; `map` names one of the four files for each definition. `queue` is
`research_requests`, a request being its place in it; `seeded` remembers the queue
the run began with. Actions: `Initial`, `Targeted`, `Cancel`, `Release`. What
the agent's sub-graph does is an input: the factory may raise, the sub-graph may
raise, its result may be fatal or in order and hand back a request that is finished,
still open, or none of the kind. Evidence records are merged by id, as in
`ThesisValidation`, and not followed here.

### AgentFrame, the four agents and EvidenceAgents

What `EvidenceStages` takes as an input is here opened. The four files of
`agents/*/subgraph.py` are copies of one graph that have grown apart; `AgentFrame` has
what they still share and an agent's module what is its own. `pending`, `obs`, `round`,
`count`, `exhausted`, `skipped`, `drafts` and `evidence` are the channels of the
sub-graph; `seen` is `seen_request_fingerprints`, a request being its own fingerprint.
One action for each node (`Snapshot`, `Analyze`, `Plan`, `Execute`, `Review`,
`Finalize`), except that `execute_verification` awaits one tool after another and is
taken call by call (`Execute` reserves, `Call` makes or reuses one planned call).
Models write any sequence of requests and any draft that cites one or two calls; tools
answer, answer with rows of something else, or fail.

What differs: the fundamental agent reserves a call that tasks share once for a round
and asks for a stock's identity first; the event agent takes tasks one at a time, each
when the calls before it are known, and drafts must name rows as well; the
sentiment-flow agent reserves a task for all its checks even if they are answered
already; the technical agent stores prices, has calculators work on the stored
contexts, and puts an index in the place of the market or of a sector. Failing
calls are errors of the run for some agents and not for others; the models follow each file.
The technical agent resolves requests on the market in a plan but not those of a review
(`FollowUps`), and what it adds to the reason of a request may be too long for the schema,
outside any `try` (`Overlong`). `FinalizeRun` closes the request and may raise as well: the
request's own model (`Valid`) lets only a completed one refer to evidence. A run that raises
(`pc = "raised"`) returns nothing; for `EvidenceStages` that is a sub-graph that raises.
`EvidenceAgents` picks one of the four in `Init`, so its four properties are asked of
each.

Left out: report periods (a request whose period is refused behaves like one about a
stock that is not allowed), the expansion of a check into calls for two periods (a query
stands for one call), titles and texts, and the removal of drafts of the same title. An
answer holds at most one draft. Tasks beyond the limit of a round never reach
`execute_verification`, since `_build_tasks` has cut them off already.

### RunResources, ToolPlans and AgentTools

`RunResources` is `RunScopedToolResourceManager` and `InMemoryResearchDataStore`:
`current` is the context of each run, `made` all that were ever made, `entries` the
stored data; `cleaning` holds the lock while `cleanup` waits for the store, and
`Release` gives it back before `CleanNext` cleans what was listed, as `aclose` does.
An entry is `late` when it was put on a context that had been given up. `ToolPlans` is
a table of the queries of every tool and snapshot. `AgentTools` runs calls: a stage's
queries run concurrently (bounded by `max_concurrency` where the code has a
semaphore), end with rows, without, with an error or cancelled, and the stage fails
as its service says; then the call stores and tells the model how complete the
answer is, or a calculator reads references that other calls stored. A query that a
failing stage leaves behind goes on, but only once the tool has taken notice of what ended
it: `gather` hands on the first failure or cancellation. A snapshot of the events is EMPTY
when nothing was selected from its rows, and those of the stock catalogue are never
(`Shown`, `Selections`); the other tools are EMPTY when no query brought rows. Between any
two steps a run may be cleaned up, the
runtime closed, or the call cancelled.

### StructuredOutput and Recommendations

`StructuredOutput`: `call` is the loop of `ainvoke` for each caller, `log` the events
all callers record; an attempt is `AttemptFails` with a category or
`AttemptSucceeds`. `Recommendations`: the two manager nodes interleave (`Ask`,
`Refuse`, `TransportFails`, `AnswerInvalid`, `Answer`), then `Join`, `Finalize` or
`Debate`, and `Compose`. The debate is abstracted to the ways it may end, which
`CrossReview` and `Negotiation` show in detail. A draft is its proposals. A pool
with an unfinished thesis does not arise, since the validation completes every thesis
(`SummaryAccountsForAll`); the branch of `_state_error` for it is there and never
taken. A thesis may be too long for `DecisionThesisSummary` (`lengthy`), which both
managers then refuse with the same stop reason, `invalid_state`.

## 3. Runs

| Run | Instance | Shows |
|---|---|---|
| `validation` | 1 candidate and 1 discovered thesis, 2 rounds, 3 requests, 3 domains (2 executable), 5 records | ownership, audit trail, grounded verdicts, bound on steps, immutable history |
| `validation_oversize` | the same | a finding: see below |
| `negotiation` | a contested and an uncontested required slot, 4 scores, 2 rounds | safety of the negotiation, the refinement of `ConsensusLifecycle`, and everything is decided in the end |
| `cross_review` | two contested slots, 3 attempts | atomic, local, convergent corrections and the hand-over |
| `paged_query` | 2 callers, 3 where the servers are plain; pages of 2, 3 pages, 6 rows; sizes 0, 2, 5, 6, 7; cache expiry | complete or refused; limits exact; one payment per key; no lost wake-up; calls end |
| `akshare_provider` | 4 queries, 2 threads | slots conserved, close is final, queries end |
| `evidence_stages` | 2 stages of 3 domains, budget 2, up to 3 queued requests of any domain and status | stages settled in order, exact counters, closed for good |
| `evidence_agents` | each of 4 agents; 2 stocks, 2 queries, 2 rounds of 2 tasks, 5 calls, 3 requests an answer | evidence proved, tasks accounted for, calls bounded |
| `evidence_agents_budget` | the same | a finding: see below |
| `evidence_agents_closing` | the same | a finding: see below |
| `agent_tools` | 2 runs, 2 contexts; two calls and a calculator, over one query kind of each sort | answers tell how complete they are; references hold; close leaves nothing |
| `recommendations` | 3 theses, 6 drafts, 2 repairs, limit of 2 theses | calls can be followed, recommendations grounded, report tells the run |

Why the bounds are enough. *Validation*: two theses are what it takes for one to
be discovered while another is under review and for evidence to be shared; the
third request meets the run's budget after the thesis' own (two) is used up; the
records contain a decisive one, an undecided one, one of another target, a refused
one and a second version of the first, one for each test the code makes of a
record. The context limit of two records is exceeded in the run, as
`validation_oversize` shows. *Negotiation*: the scores lie on every side of the
gate's two thresholds; the gate looks at one slot at a time, and the second slot
is there for partial agreements. *Cross review*: two slots let a manager correct
one contradiction and not the other. *Data layer*: three callers give a queue of
two for a lock, so a waiter can be cancelled in it behind another; the sizes lie
below, at and above the limits, five rows being a last page that is not full; four queries on two threads let two hang and two
wait. *Evidence stages*: three requests exceed a budget of two, and the third domain
has no agent, so its requests must stay as they are. *Evidence agents*: three requests
exceed the limit of two tasks; two of them share calls, which is what reservation is
about; five calls are fewer than two rounds can plan, so the budget runs out before, in
and after a round. *Tools*: two runs let a cleanup hit the other one; two contexts let
a run be given up and taken up again; a calculator compares what two calls stored; the
catalogue of stocks may be all that brings rows to a snapshot of the events. The
instance cuts plans down to the queries that have outcomes in `MCOutcomes`, one or
two for each way a stage may depend on a query. *Recommendations*: two repairs give a
chain of events; three theses exceed the limit of two; the drafts are complete, or
fail one test each of the schema or of the node.

Bounds in guards: `MaxTime` ends the clock of `ProviderRouting`, `MaxQueued` bounds
the requests a run is started with, `MaxWritten` those in one answer of a model,
`MaxContexts` the contexts made; the other limits are the code's own.

Deadlock is checked except where a run of the system ends: `agent_tools` and
`recommendations`.

Three counterexamples to look at. `validation_oversize` expects a violation. The
documentation says that a context beyond the limit closes the thesis as
INCONCLUSIVE. That is so for the number of characters. The number of records is
limited by the constructor of `ThesisValidationInput`, outside the node's `try`: the
run aborts.

A second one: `evidence_agents_budget` expects a violation too. The limits of the
fundamental agent are described as hard, and so is the rule that a call shared by several
tasks is reserved and made once. It is reserved once; but when it fails, the next task
makes it again and nothing was reserved for that, so a run may make more calls than
`max_total_tool_calls`. `BudgetKept` says by how much at most: by the calls
that failed and were repeated in the same round, and not at all for the other agents.

The third: `evidence_agents_closing`. A run that could not afford one of its tasks closes its
request as cancelled by the budget, as `docs/technical-agent-v1.md:126-131` says, and
`docs/fundamental-agent-v1.md:184-185` has it completed or reported with that reason. `_complete_research_request` passes on the ids of the evidence
with that status, and `ResearchRequest` refuses ids for any status but COMPLETED, so
`finalize` raises: as soon as one draft is proved the sub-graph ends without a result, the stage
fails and the evidence is lost. `EveryTaskAccounted` says what is left of the promise: a request
closed in that way has no evidence, and a run that raises had skipped a task and had
drafts, or is the technical agent's with a reason that became too long. The three findings
are in `PROJECT.json`.

Smaller observations. A dataset that fills exactly the last allowed page is refused when the server does not
send `has_more`; if the server always says that there is more, a last allowed page that
is not full is refused too (`LimitIsExact` says both). An AKShare query that waited
for its slot while the provider was closed ends with the executor's
`RuntimeError`, not with a `ProviderError` (`Refused`). The error of a failed
model call is cut at 1000 characters with the diagnostic event behind the
details (`describe_exception`), so long details push the event out of the report,
which `docs/llm-structured-output-observability-v1.md:82` says echoes it;
`CallsAreAudited` therefore only claims that an event that is named is the right one.
`docs/technical-agent-v1.md:122-123` and `agents/technical/subgraph.py:749-762` differ
on how the target of an external sector is restored; the model follows the code.
`docs/portfolio-manager-nodes-v1.md` says that only the type of an exception is
recorded, while `describe_exception` includes the audited details of structured calls.
`initialize_run` neither refuses nor resets `independent_recommendations_finalized`:
with that flag and a consensus in one state the composer and `ResearchReport` would
disagree on the outcome. The runtime starts every run with a target and a date only,
so no run is in that state, and `OutcomeExpected` proves that they agree.

### Fairness

`Negotiation`: a node that is not the end goes on to another one, which is weak fairness
of `Next` (every step of it changes `pc`) in a form that TLC evaluates quickly. LangGraph runs
the next node until the graph ends, and a model call that hangs ends by its client's
timeout as a failure.
`PagedQuery`: weak fairness of each task's own steps. The event loop runs every
task that is ready, and HTTP requests have timeouts; a waiter's turn is not
assumed, it has to be shown. Cancellation and the clock are not fair.
`AgentTools`: a cleanup and the close of the runtime, once begun, go on; nothing is
assumed of calls, queries or models.
`AkshareProvider`: only the timers of `wait_for` are fair. In particular no
thread is assumed to end. The other modules state safety only; the validation
loop's end follows from `StepsBounded`, a bound on its steps.

## 4. Proofs

`ThesisValidationProofs` proves for all values of the constants that satisfy the
assumptions of `ThesisValidation` (finite or not, any limits):

* `TypeCorrect`: `Spec => []TypeOK`.
* `SessionOwns`: `SessionOwnsOpenWork`, one piece of work at a time.
* `CitationsStay`: citations of theses and findings stay collected, so the
  fail-closed branches for a vanished session or missing evidence are dead code
  in a run.
* `VerdictsStayGrounded`: a directional verdict keeps a decisive collected record
  about its target.
* `StepsArePaidFor` and `RunLength`: the loop takes at most
  `2*MaxRequests + 2*(MaxCandidates + MaxDiscovered) + 2` super-steps.

The assumptions are `InputAssumption` (what models and agents may send has the
types the schemas declare; a verdict cites something and cites nothing both ways) and
`LimitAssumption` (rounds and requests are at least one, at most one candidate is
drafted per decision). Every run of the module evaluates them.

The argument. None of the properties is inductive alone. The inductive invariant
`IInv` conjoins `TypeOK`, `SessionOwnsOpenWork`, `CitationsStayCollected`,
`VerdictsGrounded` and `StepsBounded` with what they need of each other:

* `TurnsRecorded`: the turns of a session are recorded findings. So the evidence
  a session found is cited by a finding, hence collected, and the review never
  meets missing evidence (`ReviewReady`).
* `CollectionOfPool`: the collection is the collector's view of the audit pool,
  whose ids are unique. So accepting a reply, which may add records but not change
  one (`Credible`), keeps every record that was collected before, which is what
  citations and verdicts rest on.
* `WithinBudgets`: an open request still has its place in the run's budget, and the
  pool grows by what was discovered only. It turns `StepsBounded` into the
  constant of `RunLength`.
* Finitely many findings, since steps are counted by their cardinality.

Ownership is what the count of steps needs: a super-step is charged to the
request or to the thesis the session names, and selection works off the pool in
order. `ReviewShape` and `ExecuteShape` first reduce the many branches of the two
nodes to a few shapes (a thesis is closed, a request is asked, an answer is
recorded, the loop is left), and `StepInv` has one lemma for each shape.

The second half of the module is about the audit trail, and proves from the same assumptions:

* `EveryRequestIsAnsweredOnce`: `EveryRequestAnsweredOnce`.
* `SummaryIsComplete`: `SummaryAccountsForAll`.
* `HistoryIsKept`: `HistoryImmutable`.

`Audit` adds to `IInv` what relates the ledger to the session. `SessionAudited`: the
turns of the session are as many as the findings about its thesis, and the questions of
those findings are the used ones without the pending one. So the next attempt has an id
that no finding has (`UnansweredId`), replacing "the request with this id" in the
channel replaces the open one and never a finished one, and the numbering grows by one
(`NumberingExtended`). `NoneBeforeReview`: a thesis that waits has no findings, so
opening a session with no turns is right. `Reported` is what the nodes before the
summary leave for it: the loop is left only when every thesis is decided, and a stop
reason is set only in a run that took up a thesis.

`EvidenceStagesProofs` proves for all domains, orders of stages, budgets and
starting queues that satisfy `StagesAssumption`:

* `StagesTyped`: `Spec => []TypeOK`.
* `StagesSettle`: `StagesSettled`.
* `RequestsStayClosed`: `ClosedForGood`, from the same invariant.
* `AccountsAreExact`: `RequestsAccounted`.

`StagesSettled` is not inductive alone: a stage is left behind by `Release`, and that
its requests are closed by then is what the route into `release` saw. The
strengthening is `RoutesAreRight`: `targeted` is entered with an open request and
budget left for it, `release` with no open request or with the stage failed. Every
node but `Release` is shown to do no more to the queue than `OwnOnly` says, to close
open requests of the current stage, and that preserves what is settled before and
after it (`QueueStaysSettled`). For the accounts, `WorksInOrder` adds that a request
that differs from the one the run was started with is closed, so what a step closes is
new to the accounts (`ClosingIsNew`), and that a stage works only while none has failed,
so its count is still exact when it cancels. `total` is compared with the set of what was
counted rather than with a sum, which would need induction over the domains.

`RecommendationsProofs` proves for all theses, drafts, limits and numbers of repairs
that satisfy `RecommendationsAssumption` (there are the two managers; drafts are
finite and each proposal cites something, as the schema demands):

* `Grounded`: `RecommendationsGrounded`.
* `Truthful`: `ReportTellsTheRun`.
* `Audit`: `CallsAreAudited`.

The inductive invariant is `TypeInv`, `NodeInv` and `StageInv`. `NodeInv` says that a
manager's node writes summary, recommendation and error together, and that a call under
way belongs to a node that has not ended and was not refused, which is why a refusal
and an answer never meet. `StageInv` says what has been written when the graph is at a
node; from it follows that a finalized run has had no debate, and so that the composer
and the report's model derive the same outcome (`OutcomeExpected`). A draft that
passes schema and node makes a grounded recommendation (`AssembledIsGrounded`): each
required dimension is there on the research target by the node's check, and once by
the schema's. `Audit` adds `AuditInv`: the attempts of a call under way have all failed
the validation and the next one repairs the last of them (`Retrying`), a call that ended
can be followed (`CallAt`), and an error names the end of its manager's call or nothing
(`ErrorsAt`). What makes it hold for interleaved calls is that an event is appended
(`Recorded`), so the other caller's events stay where they are (`OthersKept`) and the own
new one is the next attempt (`AttemptsRecorded`).

`NegotiationProofs` proves for all slots, proposals,
scores and numbers of rounds that satisfy `NegotiationAssumption` (a slot has at most
one proposal of each manager, there are finitely many proposals, scores lie between
the veto and one, there is at least one round):

* `TextsAreCurrent`: `AgreedOnCurrentText`.
* `SlotsHaveOneWinner`: `OneWinnerPerSlot`.
* `RecommendsTheAgreed`: `RecommendationFaithful`.
* `Implements`: `ImplementsLifecycle`, the refinement of `ConsensusLifecycle`.
* `RecordsExplain`: `AuditExplainsPool`.

The inductive invariant of the first four, `IInv`, says at which nodes what holds.
`ScoresCurrent`: outside the scoring stage every open proposal's scores are about its
text, and inside it those that are not are in the closure to be rescored, no agreed one
among them. `SidesTaken`: outside the validation of new scores no manager supports both
sides of a slot; since a proposal passes only if both scores together are positive, two
rivals cannot both pass (`OnePasses`), so the gate finds one winner. `SlotsWon`: the
rivals of an agreed proposal are out. `RoundsEnd`: proposals are left out in the last
round only. `GateRules` says what the gate makes of a proposal, from the statuses before
the pass; the refinement is that lemma for the gate and a short argument for every other
step. That no node refuses its input needs to know what each has recorded when the next
one runs: `AuditInv` says so stage by stage (`StagesRecorded`), for the gate's report
(`ReportFits`), for the count of rounds and for the records of earlier rounds, which a
new one does not touch. It rests on `IInv` but is not needed by it.

`MarketDataProofs` proves for all callers, keys, lifetimes of cache entries, limits,
sizes and ways of paging that satisfy `RoutingAssumption` (there are finitely many tasks,
and `NoTask` is none of them; an entry lives at least a tick) and `PagingAssumption` (limits are
positive, the keys are the offsets):

* `BackupIsPaidOnce`: `BackupPaidOnce`.
* `NoWakeupIsLost`: `NoLostWakeup`.
* `AllOrNothing`: `CompleteOrRefused`.
* `RefusedForSize`: `LimitIsExact`.

The invariant has two halves. `RouteInv` is about the router: who is past the lock holds
it (`LockHeld`), who waits is queued exactly once at the lock of its key (`Queued`), and
who asks the backup found no live entry (`NothingCached`, kept since only the holder of
a key's lock puts an answer for it). Steps are reduced to a few forms: a task moves
outside the locks (`PlainStep`), goes on inside (`InsideStep`), or gives the lock to the
head of the queue (`ReleaseStep`). `PagingInv` is about the calls: one that has pages has
exactly the first `key[t]` rows of the primary's snapshot, in full pages as long as there
are enough (`Underway`), and only the primary leaves more to ask for. `NewPage` shows
what each verdict means for such a call, `SamePage` that a primary which ignores the
offset is noticed, and `WholeAnswer` covers what the backup sends. The router's steps
leave a call alone but for its state (`MovesKeepCalls`).

It proves of `AkshareProvider`, for any finite set of queries and any number of threads
above zero (`WorkersAssumption`):

* `SlotsStay`: `SlotsConserved`.
* `CloseIsFinal`: `ClosedStartsNothing`.

The invariant adds to the property that the line holds those who wait, each once
(`InLine`), that a query without a slot has submitted nothing (`NotSubmitted`, so that a
submission adds to the held slots exactly once), and that nothing is queued once the
provider is closed (`ClosedQuiet`). `Wakes` says what every form of waking does to the
counts: a slot goes from free to each query that is woken, and either all that can be are
woken or one at least, after which no one is forgotten.

`CrossReviewProofs` proves for all slots, proposals and scores that satisfy
`CrossReviewAssumption` (finitely many proposals, one of each manager at least, each slot
with one of each at most):

* `NothingIsRefused`: `BookkeepingAccepted`.
* `StartsNegotiation`: `HandsOver`.
* `CorrectionsAreLocal`: `CorrectionsConverge`.
* `PoolTellsItsHistory`: `AuditTrail`.

The provenance checks compare things that were written at different times: the pool, the
reviews, the validator's report and the summary of the correction. `IInv` says how they fit
at each node. `ReportFits`: a report has every contradiction of the pool it was made for,
and no other. `PoolFits`: what is validated, and what was found valid or wrong, is what the
current reviews said. `CorrectionFits`: between a correction and its report the blamed
reviews carry the scores of the judged pool as their previous ones and are an attempt ahead
of it, and the others are that pool. `CorrectionShows` is what makes the nodes' checks
decide: a corrected pool differs from the one before it even when all scores are the same,
since it names another attempt, so a node can tell whether it has run already.
`ApplyShape`, `ValidateShape` and `CorrectShape` reduce the branches of the nodes to those
that the invariant leaves; the refusing ones are not among them. `CorrectionsConverge` has
two halves: only scores that a report names change, in all its managers' reviews together
(`CorrectsOnlyContradictions`), and, since every other score of the judged pool stands
(`CorrectionIsLocal`), what the next report holds against somebody was held against him
before (`NothingNewIsHeld`).

`AgentToolsProofs` proves for all runs, cut-offs, contexts, mixes of calls, outcomes of
queries and limits that satisfy `RunAssumption` and `ToolAssumption` (there are finitely
many runs and calls, and "none" is no call; a query may end in the four ways only, and the
first stage of each tool that is called has a query that is modelled):

* `ToolsTellTheTruth`: `ResultTellsTheTruth`.
* `ReferencesHold`: `StoreKeepsItsPromise`.

The plans are the real ones, of every tool; what is arbitrary is which of their queries are
modelled and how each may end. `CallFits` is about one call alone, so its steps are lemmas
about one record. A result that claims something rests on `Settled`: every planned query was
asked and has ended, none cancelled. `SaidOf` is what is said with a reference, and differs
for prices, events and the other snapshots. That a partial snapshot has an answer at all needs the
order of the stages (`PlansStaged`): the first stage of several is needed, and no later one
asks its queries again, so they have been answered (`FirstStageAnswers`).
What calls share goes through the store. `Ledger` says that an entry is what a call left that
can change no more (`Backed`), that there is one for a reference at most, and that it is there
while its context is kept. `ReadFits` says the same of what a calculator has read, which may
be gone from the store by then. `Keeps` is all that other calls need of a step: answers that
were given and contexts that were made stay as they are. `ResourcesFit` has the manager's
side: a run that is cleaned, and every run once the manager is released, has no current
context, so no cleanup takes an entry that is still promised (`RunCleaned`).

`EvidenceAgentsProofs` proves for all stocks, requests, limits, proxies and answers of models
that satisfy `AgentAssumption` and `SymbolsAssumption` (the checks of a request are some,
each once, and are not called like the tools for a snapshot, an identity or prices; limits are
positive; there are two proxies at least; market, sector, sector index, stocks and proxies
are told apart; technical requests have the four fields of their record):

* `RecordsAreGrounded`: `EvidenceGrounded`.
* `TasksAreAccounted`: `EveryTaskAccounted`.
* `BudgetIsKept`: `BudgetKept`.
* `NothingFoundTellsTheSearch`: `NothingFoundWasSearched`.

The four agents are proved together. An instance of an agent's module has its own copy of
the frame; the first lemmas say that the copies are the frame's operators. Then every step
of every agent is reduced to a few forms (`AgentStep`): a snapshot, a plan, the start of a
round, a call, a review, the end. A call goes to the next one of its task or ends the task
(`Stays`, `Ends`), and what it asks for is there already or is asked now (`Gets`). What
differs between the agents is left in four kinds of calls and in what a round may cost
(`Within`). `Inv` has these parts:

* `Base`: types, and what belongs to each node. A task at hand is one of `pending`, its next
  call one of the calls it plans.
* `Ground`: answers are about what this run may ask (`SoundAnswer`), and every call before
  the next one of the task at hand was answered (`Sofar`). So a task that ends has been
  researched, and a calculation has the prices of its own instruments.
* `Grounded`: what `EvidenceGrounded` says of each record. It is shown for the drafts that
  `finalize` takes, from the rows that `Supports` and `Subjects` look up, and records stay.
* `Accounts`: the tasks before the one at hand are researched or skipped; a round leaves
  nothing else to the review; in a verification the run is exhausted exactly when something
  was skipped. So whether `finalize` can close the request depends on the drafts alone, and
  a run that raised had some, or is the technical agent's before its first task.
* `Reports`: without errors no call failed that counts, and who reaches the review has asked
  something, failed, or run out of calls.
* `Places` and `NoRepeats`: a call is made by the task at hand, after those of earlier
  tasks, and only when no answer to it can be used.
* `ReservedSpends`, `EventSpends`, `FundamentalSpends`: what the calls still to be made may
  cost. Where a task is reserved for all its calls (`sentiment_flow`, `technical`) the calls
  made, the rest of this task and the tasks after it are within the limit. The event agent
  has set aside the calls of this task that have no answer (`Owing`), which only become
  fewer, as its own comment at `agents/event/subgraph.py` 279 claims. The fundamental agent has set
  aside each call of the round once; a call takes itself out of what is owed, unless it was
  made in this round already, and then it is one of those that were repeated (`Again`).
  That is the bound which `CallsWithinBudget` lacks.

The invariant of a round needs what `Reserve` and `Build` return, which are folds over
sequences. A recursive definition is out of reach for every input, but a fold of the
community modules is a function over sets of places: one that fits exists for every length
(`FoldExists`), since a least length without one would have a predecessor with one, and what
holds of the empty prefix and is kept by each step holds of all of them (`TraceStays`), by
the least place where it would fail. The two least-number arguments stand in for induction.

The proof found one thing in the model. `NothingFoundWasSearched` used to say that the
technical agent's failed prices are forgiven only for an instrument other than the task's
own. The step for calculations could not be proved, and rightly: nothing in
`agents/technical/` forbids a request that compares an instrument with itself; prices that came
back empty are then asked for again as the benchmark's, and when that fails it is no error.
The property now says so (`Compared`), and the instance has such a request.

Only model-checked. Liveness (`EveryProposalDecided`, `EveryCallEnds`, `EveryQueryEnds`,
`ClosedReleasesAll`) is out of the prover's reach and stays with TLC. Every other property
of a passing run is a theorem.

## 5. Plan

Modelled and checked: `ThesisValidation`, `Negotiation` over `ConsensusLifecycle`,
`CrossReview`, `ProviderRouting` and `PagedQuery`, `AkshareProvider`,
`EvidenceStages`, the four evidence agents, `AgentTools` over `RunResources`,
`Recommendations` over `StructuredOutput`. Proved: the theorems of section 4.

Next, in this order:

1. The disclosure of disagreements in the report, from the negotiation's records.
2. A request lifecycle (asked, active, one terminal state) as an abstract
   specification that the evidence stages and the validation loop both implement.

## 6. Not modelled

Wire parsing of provider payloads, the parameter rules of each API, row
normalisation, and the ranking and aggregation inside the daily snapshots:
conversions of data without control. Technical indicators: floating-point formulas,
out of TLC's reach. Prompts, model adapters, settings and the command line: no state.
Of the report the counts of its sections, the disclosure of disagreements, its
fingerprints and the Markdown layout. Of the consensus assembly the wording rules of
the synthesis draft; of the proposal normalisation its refusals; of the candidate
theses the strategist's limits. These components have the status `partly` or
`not_modelled` in `PROJECT.json`.
