# AI Council: models, checks and proofs

TLA+ models of the service in `src/src/ai_council`: a query is triaged, answered by one model
or by a council (several proposers, peer ranking or a vote, debate, a Chairman), under budgets
and a wall clock, through a gateway with retries, fallback, circuit breakers and a cache,
behind an API with a rate limit, an idempotency store and a daily spend ledger.  Every
definition is read off the code; `PROJECT.json` ("map") gives its lines.

    tlc -workers 2 -config MCGateway_breaker.cfg MCGateway     # any run
    tlapm GatewayProofs.tla                                    # any module of proofs:

`GatewayProofs`, `Stage1Proofs`, `OrchestratorProofs`, `DecisionsProofs`, `ApiProofs`,
`PersistenceProofs`, `RunScopeProofs` and the lemmas of `SetLemmas`.

## 1. Inventory

Everything runs on one asyncio event loop, so code between two `await`s is atomic and the
interesting interleavings are those of awaits: of several requests, of the gathered calls of
one council, and of the wall clock's cancellation with all of them.

| Component (paths under `src/src/ai_council`) | State | Operations | What makes it correct |
|---|---|---|---|
| Gateway `gateway/client.py` | a breaker per model (shared by all requests), the run's cost list | `complete`: cache lookup, primary, retries with backoff, fallback, cache write; `CircuitBreaker.allow/record_*` | a breaker reflects exhausted calls and nothing else; bounded traffic; the error tells what happened; a call ends |
| Exact cache `cache/redis_cache.py` | Redis strings with a ttl | `get_exact`, `set_exact` | an answer served from the cache was paid for, by a call for the same model and key |
| Orchestrator `council/orchestrator.py` | `_Progress`, `_Ledger`, the result | `run`, `_pipeline`, `_run_single`, `_run_council`, `_partial` | a result always, or an exception; flags, trace, cost and decision agree; a timeout falls back on one consistent snapshot |
| Router `router/` | none | rules, classifier, budget gate | too dear a council becomes a single call |
| Proposers `council/proposers.py` | none | `gather_proposals`, `run_stage1` | quorum over usable texts; a survivor is reused |
| Ranking `council/ranking.py` | none | labels, Borda, Kendall, `rank` | unanimity respected, lost orderings neutral, disagreement on its scale |
| Debate `council/debate.py` | loop variables | `run_debate` | stops; texts and ranking of one round stay together |
| Voting `council/voting.py` | none | `majority_vote` | majority wins, ties by quality order |
| Chairman `council/chairman.py` | none | `synthesize` with one repair | a verdict, or `ChairmanError` |
| Guardrails `guardrails/` | none | flags; an optional rewriting hook | only text the council did not write is flagged unfaithful |
| API `api/routes.py` and Redis stores | bucket per key, stored response per idempotency key, spend per key and day | `chat` | burst bound, one answer per key, no lost spend |
| Persistence `persistence/` | the tables `runs`, `run_stages`, `run_proposers` | `save_run`, `get_run` | a reader is told one whole run or none; rows of two runs never mix; one run per id, for ever |
| Observability `observability/`, telemetry `telemetry/` | the stack of open spans, the cost list, the correlation id (context variables); the process-wide cost counter | `span`, `cost_capture`, `bind_correlation_id`, `record_llm_call` | one trace per request; spans nest; cost list, trace and counter agree; nothing leaks between tasks |
| Evals `evals/` | the buckets of the report | `run_eval`, `decision_overrides`, `assert_no_regression` | a report is the sum of its items; gate and routing rule do not contradict each other |
| Settings, auth and schemas, migrations, frontend | -- | -- | not modelled: no state the control flow above reads |

How they interact: `chat` awaits the Redis stores, then `Orchestrator.run`; `run` drives the
stages, which share `_Progress` by reference and all call `LLMGateway.complete`; the gateway
shares its breakers and the cache among the calls of all requests and appends costs to a
context variable set by `run`, which gathered tasks inherit.  `asyncio.wait_for` around the
pipeline cancels whatever it is suspended in, the gathered calls included.  A store, when the
orchestrator is given one, saves the result in a transaction of its own once the answer is final
(the app of this commit gives it none, tests do).  The evals drive `run` twice per item.

The hard behaviours, with their lines, are the "hazards" of `PROJECT.json`: late replies
against breakers, cancellation between a charge and what follows it, snapshots taken in the
middle of a debate, check-then-act across awaits on Redis, runs that fail after spending, runs
that share breakers, ids that repeat, spans and costs of tasks that end in any order.

## 2. Modules

| Module | Models | Used by |
|---|---|---|
| `CallContract` | abstract: what `complete` promises its callers | `Gateway` (refinement) |
| `Gateway` | `complete`, `_attempt`, `CircuitBreaker`, the exact cache | `MCGateway`, `GatewayProofs` |
| `GatewayProofs` | theorems about `Gateway` | -- |
| `Voting` | `majority_vote`, `_vote_answer` (pure) | `Orchestrator`, `MCDecisions` |
| `Ranking` | letters, mean ranks, Borda, Kendall (pure) | `MCDecisions` |
| `DecisionsProofs` | theorems about `Voting`, `Ranking`, `Evals` | -- |
| `RunContract` | abstract: what `Orchestrator.run` promises | `Orchestrator` (refinement) |
| `Orchestrator` | `run` and all its stages | `MCOrchestrator`, `OrchestratorProofs` |
| `OrchestratorProofs` | theorems about `Orchestrator` | -- |
| `Stage1` | `run_stage1` of several runs over one `Gateway` (composition) | `MCStage1`, `Stage1Proofs` |
| `Stage1Proofs` | theorems about `Stage1` | -- |
| `Api` | `POST /v1/chat` over Redis | `MCApi`, `ApiProofs` |
| `ApiProofs` | theorems about `Api` | -- |
| `RunLog` | abstract: what a store of runs promises | `Persistence` (refinement) |
| `Persistence` | `save_run`, `get_run` over the SQL tables | `MCPersistence`, `PersistenceProofs` |
| `PersistenceProofs` | theorems about `Persistence` | -- |
| `RunScope` | context variables and cost counter of concurrent runs | `MCRunScope`, `RunScopeProofs` |
| `RunScopeProofs` | theorems about `RunScope` | -- |
| `Evals` | `run_eval`, the decision rule, the gate | `MCDecisions` |
| `SetLemmas` | lemmas on finite sets and sums over them | `OrchestratorProofs`, `ApiProofs`, `DecisionsProofs` |

State and actions follow the code in the same way everywhere.  `pc` is the await a task is
suspended in; an action is what the code does from there to the next await, all of it; a
child of a `gather` ends in one action and the parent resumes in another, with the timeout
free to strike in between.  Names are the code's, in TLA+ spelling: `Captured` is `_partial`'s
choice, `Allow`/`Admits` are the two sides of `allow()`.

`Gateway`.  `TryNext` is the loop over candidates from a given slot to its next await or to
the error at its end; `Start`, `CacheMiss` and `TransientGiveUp` run into it.  `elapsed`
stands for `clock() - opened_at`, counted up to `reset_after`, since the code only compares
it.  `sent`, `gaveUp` are history.  A cancellation or a Redis error while a write is out
leaves the cache either way.

`Orchestrator`.  A text is its author and a version (blank, draft, or the round of debate
that revised it), the least that tells a stale snapshot from a fresh one.  A ranking records
the texts it ranked (`of`).  A gateway call is assumed to do what `CallContract` says: a text,
perhaps blank, charged once or free (cached), an error, or an exception of another kind where
the call is not gathered (`Crash`).  Money is counted in charges, saturating at `CostCap`, and
`Estimate` counts the calls that the policy's estimate prices.
Which candidate wins the ranking and whether the judges disagree is left open when at least
one (two) judges were heard: `Ranking` says how they are computed.  The configuration is chosen
from `Configs` in `Init` and kept, so that one run compares several.

`Stage1`.  `Gateway` is instantiated with a call for every proposer of every run, and one more
for the call made when nobody survived, on the breakers of one process, without the cache.  The
provider is refined: it fails only while its model is sick, sick models may recover, and a
cancelled run takes its calls with it.  `clear` is history: all was well when the run began.

`Api`.  A Redis command takes effect when it is answered, which is the point in time that
matters to the other handlers; `hset` and `expire`, and `incrbyfloat` and `expire`, are one
action, as the expiry changes nothing modelled.  `orchestrator.run` is one step that charges
some amount and answers or raises (`RunContract`).  `Aborted` is a Redis error (500) or the
death of the handler, with the write that was out applied or not.  The clock ticks `Second` times
a second and the bucket is counted in what a tick refills, so that fractions of a token, and
`Retry-After` in whole seconds, are exact.  Who sends what, and after which answers, is a
workload, chosen in `Init`.

`Persistence`.  One action per SQL statement of a flush.  What is committed is in `runs`,
`stages`, `proposers`; a save that has inserted its key is in `open`, and an `INSERT` of that key
waits for it.  `SaveFails` is a database error, a cancellation or a crash, with a `COMMIT` that
was out applied or not.  The result of a run is abstracted to the run itself and the number of
its rows.  Nothing in the code deletes or updates a row.

`RunScope`.  A task's context is a record of the three context variables; a child of a gather
starts with a copy of its parent's.  `span`, `cost_capture` and the binding of the id are each a
set and a reset around an await; the `finally` of a cancelled task runs like any other.  A call
is one attempted candidate.

`Evals`.  An item is its class and a run's answer its score; averages are compared by their
numerators.  `MCDecisions` puts the functions of `Voting` and `Ranking` and the evals side by
side, each over all the inputs of its own small instance.

## 3. Runs

Passing runs (each finishes in at most two minutes):

| Run | Instance | Shows |
|---|---|---|
| `gateway_breaker` | 3 calls, 2 models (one falls back to the other), threshold 2, 1 retry, no cache | breakers stay coherent under late replies; only exhausted calls count; traffic accounted for; errors tell the traffic |
| `gateway_cache` | 2 calls, 3 models (one unreachable), prompts that share a key, threshold 1 | cached answers were paid for; `complete` implements `CallContract`; every call ends |
| `stage1_runs` | 3 runs, 2 of two proposers and 1 of the sick one alone, threshold 1, 1 retry, recovery, cancellations | a healthy quorum is met whatever the sick model does to the shared breakers; once all is well, every proposer answers for itself, and no cancelled probe keeps it out |
| `orch_run` | 3 proposers, quorum 3, all routes and budgets, wall clock, store, `max_rounds` 0 (which still debates once); and 2 proposers, quorum 1, 2 rounds, hook, no wall clock | `TypeOK`; texts and ranking of a snapshot belong together at every await; trace and flags agree; faithfulness flag; survivor reused; a council without debate stays within its estimate; what budget-capped and synthesized answers cost, debate included; debate stops; implements `RunContract`; ends, with the wall clock whatever the models do |
| `decisions` | up to 4 proposers, 3 answers, abstentions; 2 judges, 2 orderings, 3 candidates, any ordering lost; replies of up to 4 letters; evals of up to 3 items of 2 classes, all scores, runs that raise | the vote goes to the best of the most voted; every reply is read as an ordering, however the candidates are configured; Pareto; lost orderings neutral; scale of the disagreement; the report is the sum of its items; rule and gate agree |
| `api_chat` | 3 requests of one key in turn, one a retry, 4 half-second ticks; and 3 at once, 2 of one key; with and without Redis; failures, deaths | no spend lost; and for a client that makes its requests in turn, the burst bound, a `Retry-After` that is honest, one answer per key, councils that fit the day; every request ends |
| `persistence_saves` | 3 saves, 2 of one id, 2 readers, a failure at every statement | rows never mix; one writer per key; implements `RunLog`; every save ends |
| `runscope_runs` | 2 requests at once, one with a gather of two, one of two stages; cancellations | spans nest, one trace per request, costs agree, nothing leaks |

The type invariants of `Gateway`, `Persistence`, `Api` and `RunScope` are proved (section 5), so no
run repeats them; `MCApi_types.cfg` and `MCRunScope_types.cfg` check the last two by hand.

Each property of a passing run has a mutant ("Seeded fault" in the modules): a small bug of
the modelled code, under which TLC finds exactly that property violated.

Bounds and why they suffice.  Three calls are needed for a breaker to open by two calls and
be met late by a third, which is the longest cause-and-effect chain between calls; two
candidates are all `complete` ever tries; one retry separates first, middle and last attempt.
Three proposers give two survivors out of a failed quorum, and a best one among them; two
rounds give a converged, a non-converged and a last round; one judge of two heard, none and
both are the three cases of `rank`.  `CostCap` is three above the estimate of the larger
instance (10 calls), so that a classifier, a repair and one charge too many still tell, and budgets
and costs just below, at and above the estimate occur.  Two runs suffice to disturb each other's
breakers, and a third, which has only the sick model to ask, is the one that must not notice.
Two saves of one id and one of another give every conflict a key can have, as a third of the same
id would wait or be rejected like the second.  Three requests are a request, its retry and a
stranger.  Bounds that a guard enforces: `MaxClock` (a workload's `until`) the clock of `Api`,
long enough for a refused request to wait out its `Retry-After`; `MaxStages` the stages of a run
in `RunScope`; `MaxItems` the dataset of `Evals`; `MaxLetters` a judge's reply in `MCDecisions`.
Calls are made once, so everything else is finite.  `gateway_breaker` uses the symmetry of its
calls, `stage1_runs` that of its two equal runs; no liveness is checked in these.  Deadlock
checking is off throughout: every instance really stops once its calls, run or requests have
ended.

Fairness.  `Gateway`: replies, sleeps and Redis commands end (each provider request is inside
`wait_for`, the sleep is finite, Redis answers or fails).  `Orchestrator`: `ClockSpec` assumes that
the event loop runs ready tasks and fires the wall-clock timer, and nothing of anybody else;
`FairSpec` adds that hook and store answer and, only in a configuration without a wall clock
(`latency_budget_s` = 0), that calls end, which is what `EveryCallEnds` shows of the gateway.
`Api` assumes that Redis answers and that runs end, `Persistence` that the database answers a
statement that no lock holds up: a waiting `INSERT` is served because the holder ends, not by
assumption.
No fairness is assumed of failures, cancellations, expiry, clocks or clients.

Refinement.  `Gateway` implements `CallContract` (`ImplementsContract`, mapping `pc` and
`outcome` to a status, the charged texts to `paid`, and the text a call returned to `handed`): a
call is charged at most once, and the very text it hands over, from a provider or from the cache,
serves its request and was paid for by some call.  `Orchestrator`
implements `RunContract`: one end, spending only before it, the reported cost is the cost,
and a decision other than triage's is marked degraded or partial.  `Persistence` implements
`RunLog`: under an id there is nothing or one run, kept for ever once it is, and a reader is told
what is kept at one moment between its question and its answer, whole.  The mapping sends the
committed row of an id to `kept` and a finished load to the run it describes, or to `Torn` when
its three selections do not make up one run.  That step by step this holds is not only checked
but proved.

## 4. Where the code and its documents disagree

Four runs check a sentence of the documents and TLC refutes it; "findings" quotes them.

| Run | Statement | Trace in short |
|---|---|---|
| `gateway_one_probe` | the breaker lets one probe through (`OneProbe`) | cooldown over, two calls arrive before the first reply |
| `orch_raises` | a quorum gives a result (`QuorumNeverRaises`) | ranking done, Chairman and repair unusable, `ChairmanError`; under `RepliesSpec`, in which no call ends in any other exception |
| `orch_blank` | one provider cannot fail a quorum (`QuorumNeverBlank`) | two of three proposers answered, the third hangs, the wall clock returns "" |
| `api_retry` | safe to retry (`SafeToRetry`) | both requests look up the key before either has stored |

More statements of the documents are written in the modules with a configuration each, to be
run by hand; TLC refutes them too:

* `MCGateway_open_leaves.cfg`, `OpenLeavesByProbe` (client.py:129): a late success of a call
  let through earlier closes an open breaker directly.
* `MCGateway_all_failed.cfg`, `AllFailedMeansBoth` (models.py:65-66): raised as well when the
  fallback's breaker was open and it was never tried.
* `MCOrchestrator_hook.cfg`, `BoundedByWallClock` (orchestrator.py:7-9): hook and store are
  awaited after `wait_for`, and nothing times them out.
* `MCOrchestrator_blankcand.cfg`, `NoBlankCandidate` (proposers.py:115-117): a blank revision
  replaces a usable draft in the debate.
* `MCOrchestrator_unflagged.cfg`, `BlankIsFlagged` (BUILD_SPEC.md:226): a failed single-model
  run answers "" without a flag.
* `MCApi_burst.cfg`, `BurstBounded` (redis_cache.py:7): two concurrent requests of one key
  read the same bucket.
* `MCApi_cap.cfg`, `DailyCapEnforced` (BUILD_SPEC.md:205): the single-model path is never
  refused.
* `MCApi_unrecorded.cfg`, `EveryRunRecorded` (BUILD_SPEC.md:205): a run that raises is not
  added to the ledger.
* `MCPersistence_kept.cfg`, `EveryRunKept` (BUILD_SPEC.md:236-237, "full trace persisted"): the
  second run of a correlation id, which a client may repeat and the evals do (harness.py:100), is
  rejected by the primary key, and orchestrator.py:193 swallows the error.
* `MCDecisions_unmeasured.cfg`, `PassedMeansProven` (BUILD_SPEC.md:228): a high-value class of
  which the dataset has no item passes the gate unmeasured.

`SafeToRetry` and `BurstBounded` are what `api_chat` shows to hold, as `OneAnswerPerKey` and
`BurstToCapacity`, for a client that awaits each answer: what breaks them is concurrency alone.

## 5. Proofs

Every theorem is for all values of the constants that the ASSUMEs admit: any number of calls,
requests, runs, proposers, judges, rounds, any thresholds, budgets and configurations.  Every invariant and every action property that the passing runs
check is a theorem, and so are the three refinements; what is only model-checked is liveness.
TLC evaluates the assumptions of the constants in the runs of the same module.

Each component's proof rests on an inductive invariant, since none of its properties is
inductive as it stands.  The parts of it are named, so that the proof of a step says which
part an action disturbs.

### Gateway (`GatewayProofs`)

| Theorem | States |
|---|---|
| `GatewayTypeCorrect` | `Spec => []TypeOK` |
| `GatewayBreakerCoherent` | `Spec => []BreakerCoherent` |
| `GatewayTrafficAccounted` | `Spec => []TrafficAccounted` |
| `GatewayErrorsTellTraffic` | `Spec => []OutcomeTellsTraffic` |
| `GatewayNoEntryWhileOpen` | `Spec => NoEntryWhileOpen` |
| `GatewayOnlyExhaustionTrips` | `Spec => []OnlyExhaustionTrips` |
| `GatewayCachePaidFor` | `Spec => []CachePaidFor` |
| `GatewayImplementsContract` | `Spec => ImplementsContract` |

`Inv == Shape /\ CallsOK /\ BreakerCoherent`.  `TypeOK` alone is not inductive: a retry enters
`Current(c)`, so one must know that the candidate of a suspended call exists.  `Shape` adds
that: where a call stands determines its slot, attempt and what it has given up (`Fresh` before
its first candidate, `Out` while it is trying one).  `CallsOK` adds, call by call, the two
properties of its own traffic and error.  The argument: the steps of other calls leave a call's
variables alone (`StepOthers`), a call's own step either stays with its candidate or goes
through `TryNext` (`TryNextCases`), which enters one admitted slot or ends the call, and the
lemmas `FirstTry` and `NextTry` say what it leaves behind in each case.  `BreakerCoherent` is
preserved by every breaker operation on its own, whichever call performs it, which is why no
order of late replies can break it.  `NoEntryWhileOpen` then follows from the guards and
`TypeOK`.  `OnlyExhaustionTrips` bounds a breaker's count by the calls that gave its model up; a
count grows by one only in a step in which one more call gives up, and no other step makes the
set of those smaller.

The cache and the refinement need `CacheInv == Inv /\ Ledger /\ CachePaidFor`: a call that was
charged holds an answer to its own prompt by the model it asked or that model's fallback, and
keeps it while its write is out.  Without `Ledger`, nothing says that what a late write puts
into the cache was paid for.  The refinement sends a charge to the contract's payment and a
return to the handing over of the answer returned; everything else stutters.  That `handed` stays
put where it should takes `NothingHanded`; that a return hands over something paid for and
acceptable takes `StatusMoves`, with `CachePaidFor` for a hit and `Ledger` for a late write.  Assumptions: `FallbackAssumption` (no model is
its own fallback), `CacheKeyAssumption`, `LimitsAssumption`, `CallsAssumption`,
`NoTextAssumption`.

### Several runs over one gateway (`Stage1Proofs`)

| Theorem | States |
|---|---|
| `Stage1QuorumDespiteSick` | `Spec => []QuorumDespiteSick` |
| `Stage1RecoveredModelsServe` | `Spec => []RecoveredModelsServe` |

`Inv == Typed /\ StageKnown /\ HealthyKnown /\ WellAgain /\ Served /\ QuorumDespiteSick`.
`HealthyKnown` is why a sick model costs nobody a healthy one: nothing ever counts against a
model that is never sick, so its breaker is as new, a call to it stays with it, and ends in its
answer unless its run is cancelled.  `WellAgain` is why nothing is left behind: from the time all
is well, breakers that have cooled down let every call through and stay that way, and every call
that is out is out on the model it asks.  It quantifies over the calls of all runs, since another
run's failing call is what would open a breaker again.  Assumptions: `Stage1Assumption`,
`GatewayAssumption`.

### Orchestrator (`OrchestratorProofs`)

| Theorem | States |
|---|---|
| `OrchestratorTypeCorrect` | `Spec => []TypeOK` |
| `OrchestratorSnapshot` | `Spec => []SnapshotConsistent` |
| `OrchestratorUnfaithful` | `Spec => []OnlySynthesisUnfaithful` |
| `OrchestratorTraceTells` | `Spec => []TraceTellsOutcome` |
| `OrchestratorReusesSurvivor` | `Spec => []DegradeReusesSurvivor` |
| `OrchestratorWithinEstimate` | `Spec => []CouncilWithinEstimate` |
| `OrchestratorSynthesisWithinBudget` | `Spec => []SynthesisWithinBudget` |
| `OrchestratorDebateStops` | `Spec => DebateStops` |
| `OrchestratorImplementsContract` | `Spec => ImplementsContract` |

`Inv == TypeOK /\ SnapshotConsistent /\ Pipe /\ Told`.  The properties speak of a run that has
ended; `Pipe` says what they rest on while its pipeline works: which stages are in the trace at
each await, when there are candidates, when a ranking, and what the decision is.  The wall clock
may strike at any of these awaits, so `_partial` needs all of it.  `Told` says that what was
decided about the answer stays true of it while hook and store are awaited, and names the
survivors a degraded answer comes from.  `CouncilWithinEstimate` needs a second invariant,
`BudgetInv == Inv /\ Accounted`: `Ahead` counts, at each await, the calls that may still be made
without a debate (those waited for, the judges', the Chairman's, one repair), and what was charged
plus what is ahead never exceeds the estimate; every action that charges a call takes as much from
`Ahead`.  `SynthesisWithinBudget` needs a third, `Within`: who is asked to synthesize had budget
left, and the repair is one call later, so what the two may still charge is known at each of
their awaits; the lemmas named `...Marks` show that no step but theirs and the check before them
puts `chairman` or `budget_capped` into the trace.  Assumptions: `CouncilAssumption`, `CostAssumption`, `ContextsAssumption`.

### Votes, rankings and evals (`DecisionsProofs`)

| Theorem | States |
|---|---|
| `DecisionsBestOfTheMostVoted` | `CasesSpec => []BestOfTheMostVoted` |
| `DecisionsLettersHeeded` | `CasesSpec => []LettersHeeded` |
| `DecisionsPareto` | `CasesSpec => []Pareto` |
| `DecisionsLostOrderingIsNeutral` | `CasesSpec => []LostOrderingIsNeutral` |
| `DecisionsDisagreementScale` | `CasesSpec => []DisagreementScale` |
| `DecisionsReportOfItems` | `CasesSpec => []ReportOfItems` |
| `DecisionsRuleAndGateAgree` | `CasesSpec => []RuleAndGateAgree` |

Votes, replies and rankings are pure, so their invariant is only that the input is one (`ballot
\in Ballots`, `Reply`, `said \in Boxes`), and the work is in the operators.  `WinnerIs`: the answer with the
greatest support exists and nobody outvotes it.  `SortExists`: the candidates can be put into the
order of `borda_consensus`'s key, without which `Consensus` would be a choice from nothing;
`ConsensusIs` then reads `Pareto` off sums that are smaller term by term (`SumLess`).  `MeanIs`
and `KendallIs` show that the model's exact fractions divide without remainder, given that `Scale`
and `Tau` are common multiples (`RankingAssumption`, `TauAssumption`); a tau is between -1 and 1
as a sum of signs over as many pairs (`SignSum`).  `HeededIs` follows `letters_to_ids` letter by
letter: after each, the list has every candidate mentioned so far, once, in the order of first
mention (`Heeded`); `FoldIs` gives the list after each letter from the definition of the library's
`FoldLeft`.

`EvalInv` keeps, of the evals, the report equal to the sums over the items scored so far
(`ReportOfItems`) next to where the loop stands; `BucketIs` is the step that adds an item to its
class and leaves the other classes alone.  The gate compares an average with `min_uplift` and the
rule compares two averages, both over the same count, from which they agree.  Assumptions:
`ProposersAssumption`, `RepliesAssumption`, `EvalsAssumption` and the two above, among them that
`Failed`, which stands for a lost ordering and for a letter of nobody, is no candidate.

### API (`ApiProofs`)

| Theorem | States |
|---|---|
| `ApiTypeCorrect` | `Spec => []TypeOK` |
| `ApiAnsweredRunsRecorded` | `Spec => []AnsweredRunsRecorded` |
| `ApiBurstToCapacity` | `Spec => []BurstToCapacity` |
| `ApiRetryAfterHonest` | `Spec => []RetryAfterHonest` |
| `ApiOneAnswerPerKey` | `Spec => []OneAnswerPerKey` |
| `ApiCouncilsFitTheDay` | `Spec => CouncilsFitTheDay` |

`Inv == TypeOK /\ HandlersKnown /\ PriorEnded /\ StoreKnown /\ BucketKnown /\ RefusalKnown /\
LedgerKnown /\ DayKnown`: what a handler has read at each await, that a request in turn starts when
those before it have ended, and one conjunct per Redis key.  `BucketKnown` is the argument of a
token bucket: for every start `a`, what was admitted since then plus what is left never exceeds
the capacity plus the refill since `a`.  It has to hold for all `a` at once, and to know that a
handler about to write still sees the bucket it read, which is what "in turn" gives and concurrency
takes away (section 4).  `LedgerKnown` squeezes the ledger between what the answered and what all
ended runs charged, as a handler may die before or after its `incrbyfloat` took effect.
`RefusalKnown` follows a refused handler's bucket to the client's next request; `DayKnown` says that
while a client's only handler is in its run the ledger is what it read.
`CouncilsFitTheDay` is stated for a positive estimate: with an estimate of 0 (no model has a
price) `EstCost <= remaining` lets councils through on an overdrawn day.  Assumptions:
`KeysAssumption`, `AmountsAssumption`.

### Persistence (`PersistenceProofs`)

| Theorem | States |
|---|---|
| `PersistenceTypeCorrect` | `Spec => []TypeOK` |
| `PersistenceOneWriterPerKey` | `Spec => []OneWriterPerKey` |
| `PersistenceTraceOfOneRun` | `Spec => []TraceOfOneRun` |
| `PersistenceImplementsLog` | `Spec => ImplementsLog` |

The inductive invariant adds three conjuncts to the three that are properties.
`OpenWhileSaving`: a save holds its key exactly from the `INSERT` of its run to its end; without
it `OneWriterPerKey` says nothing of the moment of `COMMIT`.  `KeyOfRun`: the run kept under an
id carries that id.  `SelectedSoFar`: what a load has selected agrees with the run it selected
first, which is why three statements at different times add up to one run.  The argument: a
`COMMIT` finds its id empty (`CommitFindsNothing`, from `OneWriterPerKey`), so it adds the rows
of one run under an id that had none (`CommitKeepsInv`), and a load that has already selected a
run cannot be overtaken by another of the same id.  The refinement then goes action by action
(`CommitRefines`, `LoadRefines`): a commit is the log's keeping of a run, the last selection its
answer, everything else a stutter.  Assumptions: `RunsAssumption` and `NobodyAssumption`.

### Context of concurrent runs (`RunScopeProofs`)

| Theorem | States |
|---|---|
| `RunScopeTypeCorrect` | `Spec => []TypeOK` |
| `RunScopeSpansNest` | `Spec => []SpansNest` |
| `RunScopeOneTrace` | `Spec => []OneTracePerRun` |
| `RunScopeCostsAgree` | `Spec => []CostsAgree` |
| `RunScopeContextIsOwn` | `Spec => []ContextIsOwn` |

`Inv == TypeOK /\ OneTracePerRun /\ CostsAgree /\ ContextsKnown /\ SpansKnown /\ OpenKnown /\
PricesKnown`.  `ContextsKnown` gives the whole context of every task at work (request span, stage
span, and the span of its own call while it makes one), so that a reset can be seen to restore
what the set had found, in whatever order the children of a gather end.  `SpansKnown` and
`OpenKnown` say which spans exist and which are open; a span is new when it starts, so no parent
is ever overwritten.  `PricesKnown` lets a call be counted once.  Assumption: `ScopeAssumption`.

### Lemmas on sets and sums (`SetLemmas`)

Least and greatest elements of finite sets, smallest counterexamples, and the sum of a function
over a finite set: that it exists (`SumsExists`), what an element more adds (`SumStep`), when two
sums are equal, one is less, or one is nothing.  The library's `SumFunctionOnSet` is a recursive
function inside an operator that takes operators, and no theorem about it comes with the
library; these lemmas are proved from its definition, by taking a set of least cardinality for
which they fail.

### What stays with TLC

* Liveness under fairness: `EveryCallEnds`, `RunEnds`, `EveryRequestEnds`, `EverySaveEnds`.
* The four runs that refute a statement, and the configurations run by hand.

## 6. Not modelled, and why

* `LLMGateway.stream`, `stream_text`: no breaker, cache or ledger, and no caller in the service.
* Prices and tokens: the orchestrator's money is counted in calls, the estimate too; in `Api`
  amounts are small numbers and `EstCost` a constant.
* Prompts, patterns, JSON extraction, safety and PII expressions: a call's text is usable,
  blank or unusable; a vote is what `extract_answer` found.
* Floating point: a mean rank and a tau are exact fractions, counted in units of `1/Scale` and
  `1/Tau`, which the assumptions make common multiples of all divisors that can occur.
* Bucket expiry and the wall-clock change of a day: keys are those of one day, and an expired
  bucket is a full one, as it would be after its refill.
* Two clocks: the bucket's time stamp is the monotonic clock of the host that wrote it; `Api` has
  one process and one clock, and the code says nothing of two.
* What an Idempotency-Key is bound to (neither query nor API key), and which flags an answer
  carries when it is stored under one or scored by an eval: the code does not look at either, and
  promises nothing about it.
* What a provider bills for a call that was cancelled: the bill is outside the code.
* The adapters of Langfuse and OpenTelemetry (calls into SDKs), the attributes and durations of
  spans, the metrics besides the cost counter, log processors: written and never read.
* Migrations, the frontend, authentication (a stateless comparison) and the settings, whose values
  are the CONSTANTS of the modules; `get_config` does not check that every model it names is
  defined, and the modules take configurations in which it is.

## 7. Plan

1. Core (done): `Gateway` with contract and proofs, `Voting`, `Ranking`, `Orchestrator` with
   contract, `Api`.
2. Extended (done): several runs over one gateway (`Stage1`); `Persistence` with `RunLog` and
   proofs; `RunScope`; `Evals`; sub-second time and `Retry-After` in `Api`; configurations with and
   without a wall clock side by side in `Orchestrator`.
3. Proved (done): every invariant and every action property of the passing runs, and the three
   refinements (section 5).
4. Next: that an instance of `Gateway` in `Stage1` keeps the invariants of `GatewayProofs`, with
   the sick and the recovering provider; that what `Orchestrator` assumes of the winner of a
   ranking and of the judges' disagreement is what `Ranking` computes; the debate's share of a
   council's cost, so that the estimate can be compared with it.
