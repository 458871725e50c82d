---------------------------- MODULE Orchestrator ----------------------------
(***************************************************************************)
(* Orchestrator.run (council/orchestrator.py) with the stages it drives:   *)
(* triage (router/), proposers, ranking, debate, voting and chairman       *)
(* (council/), for one request.                                            *)
(*                                                                         *)
(* The pipeline is one asyncio task; the proposers, judges and debaters    *)
(* are gathered child tasks.  Each action is the code between two awaits.  *)
(* A gather is two kinds of step: a child ends (its reply), and, once all  *)
(* have ended, the pipeline resumes.  In between, and at any other await,  *)
(* the wall clock may cancel the pipeline.                                 *)
(*                                                                         *)
(* A gateway call is what CallContract says: a text, possibly blank, a     *)
(* GatewayError, or (Redis down, malformed response) another exception.    *)
(* A call that answers charges one unit, or nothing if it was cached.      *)
(***************************************************************************)
EXTENDS Integers, FiniteSets

CONSTANTS
  Configs,        \* the configurations
  Judges,         \* the judges: the proposers, or judge_pool
  ClassRouting,   \* class_routing
  CostCap,        \* amounts beyond this are not told apart
  NoLimit,        \* no budget given
  Contexts,       \* the RunContexts asked under each configuration
  Answers,        \* what can be extracted from a proposer's text
  NoAnswer,
  NoRanking, Nobody, Solo, Chair, Hook   \* authors of texts besides the proposers

VARIABLES
  config,    \* the configuration of the process, which never changes
  pc,        \* the await the run is suspended in, or "start", "done", "raised"
  ctx,       \* the RunContext
  waiting,   \* proposers whose gathered task is still running
  judging,   \* judges' tasks still running
  good,      \* proposers that returned a usable text
  heard,     \* judges with a valid ranking in this pass
  next,      \* the revised texts of this round of debate
  cands,     \* the candidates the pipeline works on: [proposer -> version]
  ranking,   \* the ranking it works on
  rounds,    \* rounds of debate
  conv,      \* the last round changed no text
  progress,  \* _Progress, what a timeout falls back on
  cost,      \* the run's cost list, summed
  stages,    \* names in the ledger
  result     \* the RunResult

gatherVars  == <<waiting, judging, good, heard, next>>
councilVars == <<cands, ranking, rounds, conv>>
state == <<pc, ctx, gatherVars, councilVars, progress, cost, stages, result>>
vars  == <<config, state>>

\* What the code reads from its configuration.
N            == config.n             \* proposers, 1 .. N in configured (quality) order
Quorum       == config.quorum        \* council.quorum
Orderings    == config.orderings     \* ranking.orderings_per_judge
MaxRounds    == config.max_rounds    \* debate.max_rounds
DebateOn     == config.debate        \* debate.enabled
WallClock    == config.wall_clock    \* latency_budget_s > 0
Verify       == config.verify        \* guardrails.verify_faithfulness
HasGuardrail == config.guardrail     \* an answer-rewriting hook is given
HasStore     == config.store         \* a RunStore is given

Proposers == 1 .. N
Decisions == {"single_model", "council", "council_with_voting"}
Classes   == {"trivial", "standard", "high_stakes", "verifiable_reasoning"}
Amounts   == 0 .. CostCap

ASSUME CouncilAssumption ==
  /\ \A c \in Configs :
       /\ c.n \in Nat \ {0}
       /\ {c.quorum, c.orderings, c.max_rounds} \subseteq Int
       /\ {c.debate, c.wall_clock, c.verify, c.guardrail, c.store} \subseteq BOOLEAN
  /\ IsFiniteSet(Judges)
  /\ ClassRouting \in [Classes -> Decisions]
ASSUME CostAssumption ==
  /\ CostCap \in Nat
  /\ NoLimit \notin Amounts
ASSUME ContextsAssumption ==
  /\ DOMAIN Contexts = Configs
  /\ \A c \in Configs :
       Contexts[c] \subseteq [force_single : BOOLEAN, force_council : BOOLEAN, short : BOOLEAN,
                             budget : Amounts \union {NoLimit}, daily : Amounts \union {NoLimit}]

Votes == INSTANCE Voting

\* A text: who wrote it, and which version it is.  Draft is a proposer's first text, a
\* positive version its revision in that round of debate.
Blank    == -1
Draft    == 0
Rounds   == IF MaxRounds > 1 THEN MaxRounds ELSE 1
Versions == Blank .. Rounds
Authors  == Proposers \union {Nobody, Solo, Chair, Hook}
Texts    == [by : Authors, v : Versions]
Empty    == [by |-> Nobody, v |-> Blank]

\* Seeded fault: the repair call is made outside wait_for.
InPipeline_NoRepair == {"triage", "single", "proposers", "degrade", "ranking", "debate", "rerank",
                        "chairman"}

\* Where wait_for may cancel the pipeline.
InPipeline == {"triage", "single", "proposers", "degrade", "ranking", "debate", "rerank",
               "chairman", "repair"}

NoCands == [p \in {} |-> Draft]

-----------------------------------------------------------------------------
(* Helpers.                                                                  *)

\* Seeded fault: the last of the configured order.
Best_Last(proposers) == CHOOSE p \in proposers : \A q \in proposers : p >= q

Best(proposers) == CHOOSE p \in proposers : \A q \in proposers : p <= q

EffectiveQuorum ==
  LET q == IF Quorum < N THEN Quorum ELSE N IN IF q > 1 THEN q ELSE 1

Met == Cardinality(good) >= EffectiveQuorum

JudgeTasks == Judges \X (1 .. IF Orderings > 2 THEN Orderings ELSE 2)

\* The cost list with k more units.
Charge(k) == IF cost + k > CostCap THEN CostCap ELSE cost + k

\* Seeded fault: the judges are counted once, however often they are asked.
Estimate_OneOrdering == N + N + 1

\* CouncilPolicy.estimate_cost_usd, in charges: every proposer once, every proposer as a judge
\* orderings_per_judge times, the Chairman once.
Estimate == N + N * Orderings + 1

\* CouncilPolicy.gate
TooDear ==
  \/ ctx.budget # NoLimit /\ Estimate > ctx.budget
  \/ ctx.daily # NoLimit /\ Estimate > ctx.daily

Gate(decision) ==
  IF decision # "single_model" /\ TooDear THEN "single_model" ELSE decision

\* Seeded fault: the budget may be reached before the Chairman is asked.
OverBudget_Strict == ctx.budget # NoLimit /\ cost > ctx.budget

OverBudget == ctx.budget # NoLimit /\ cost >= ctx.budget

\* disagreement > threshold, which takes two judges and two candidates
ShouldDebate(rk) == DebateOn /\ rk.high

\* Ranker.rank once its judges have been asked: no judge, or one candidate, is no signal.
Rankings(cs) ==
  IF heard = {} \/ Cardinality(DOMAIN cs) <= 1
  THEN {[leader |-> Best(DOMAIN cs), of |-> cs, high |-> FALSE]}
  ELSE [leader : DOMAIN cs, of : {cs},
        high : IF Cardinality(heard) > 1 THEN BOOLEAN ELSE {FALSE}]

\* Seeded fault: only the new ranking is captured.
Captures_RankingOnly(cs, rk) == [progress EXCEPT !.ranking = rk]

\* Texts and their ranking are captured together.
Captures(cs, rk) == [progress EXCEPT !.cands = cs, !.ranking = rk]

\* Seeded fault: a round that changes nothing does not end the debate.
AnotherRound_IgnoresConvergence == rounds < Rounds

\* Seeded fault: one round too many.
AnotherRound_OneMore == ~conv /\ rounds <= Rounds

\* The loop of run_debate.
AnotherRound == ~conv /\ rounds < Rounds

TextOf(cs, p) == [by |-> p, v |-> cs[p]]

CandTexts(cs) == {TextOf(cs, p) : p \in DOMAIN cs}

Reply(final, decision, degraded, partial) ==
  [final |-> final, decision |-> decision, requested |-> progress'.requested,
   degraded |-> degraded, partial |-> partial,
   cost |-> 0, stages |-> {}, unfaithful |-> FALSE]

\* _guardrail_flags: the check compares with progress.candidates, and neither a blank
\* answer nor one of the candidates' own texts can fail it.
MayBeUnfaithful(final) ==
  /\ Verify
  /\ progress'.cands # NoCands
  /\ final.v # Blank
  /\ final \notin CandTexts(progress'.cands)

\* Seeded fault: the last charge is not reported.
Settle_EarlyCost(r) ==
  /\ \E flagged \in (IF MayBeUnfaithful(r.final) THEN BOOLEAN ELSE {FALSE}) :
       result' = [r EXCEPT !.cost = cost, !.stages = stages', !.unfaithful = flagged]
  /\ pc' = IF HasStore THEN "persist" ELSE "done"

\* The synchronous tail of run: cost, stages, flags; then the store, if there is one.
Settle(r) ==
  /\ \E flagged \in (IF MayBeUnfaithful(r.final) THEN BOOLEAN ELSE {FALSE}) :
       result' = [r EXCEPT !.cost = cost', !.stages = stages', !.unfaithful = flagged]
  /\ pc' = IF HasStore THEN "persist" ELSE "done"

\* The pipeline returns r, or run builds it after a timeout; the hook comes first.
Conclude(r) ==
  IF HasGuardrail THEN pc' = "guardrail" /\ result' = r ELSE Settle(r)

Raise ==
  /\ pc' = "raised"
  /\ waiting' = {} /\ judging' = {}
  /\ UNCHANGED <<ctx, good, heard, next, councilVars, progress, stages, result>>

-----------------------------------------------------------------------------
(* Triage and the single-model path.                                         *)

Init ==
  /\ config \in Configs
  /\ pc = "start"
  /\ ctx \in Contexts[config]
  /\ waiting = {} /\ judging = {} /\ good = {} /\ heard = {} /\ next = NoCands
  /\ cands = NoCands /\ ranking = NoRanking /\ rounds = 0 /\ conv = FALSE
  /\ progress = [requested |-> "single_model", decision |-> "single_model",
                 cands |-> NoCands, ranking |-> NoRanking, degraded |-> FALSE]
  /\ cost = 0
  /\ stages = {}
  /\ result = [final |-> Empty, decision |-> "single_model", requested |-> "single_model",
               degraded |-> FALSE, partial |-> FALSE, cost |-> 0, stages |-> {},
               unfaithful |-> FALSE]

\* The triage decision is recorded and the branch taken: one call, or the proposers' gather.
Dispatch(decision) ==
  /\ stages' = stages \union {"triage"}
  /\ progress' = [progress EXCEPT !.requested = decision, !.decision = decision]
  /\ \/ /\ decision = "single_model"
        /\ pc' = "single"
        /\ UNCHANGED waiting
     \/ /\ decision # "single_model"
        /\ pc' = "proposers"
        /\ waiting' = Proposers
  /\ UNCHANGED <<ctx, judging, good, heard, next, councilVars, result>>

\* LLMRouter.route: the rules decide without a call, the classifier with one.
Ruled == ctx.force_single \/ ctx.force_council \/ ctx.short
RuledDecision == IF ctx.force_single \/ ~ctx.force_council THEN "single_model" ELSE "council"

Begin ==
  /\ pc = "start"
  /\ \/ /\ Ruled
        /\ Dispatch(Gate(RuledDecision))
        /\ UNCHANGED cost
     \/ /\ ~Ruled
        /\ pc' = "triage"
        /\ UNCHANGED <<ctx, gatherVars, councilVars, progress, cost, stages, result>>

\* A class, or a failure or an unusable reply, which count as "standard".
Classified ==
  /\ pc = "triage"
  /\ \E class \in Classes, k \in {0, 1} : Dispatch(Gate(ClassRouting[class])) /\ cost' = Charge(k)

SoloAnswers ==
  /\ pc = "single"
  /\ \E v \in {Blank, Draft}, k \in {0, 1} :
       /\ cost' = Charge(k)
       /\ stages' = stages \union {"single_model"}
       /\ UNCHANGED progress
       /\ Conclude(Reply([by |-> Solo, v |-> v], "single_model", FALSE, FALSE))
  /\ UNCHANGED <<ctx, gatherVars, councilVars>>

\* A GatewayError: the answer stays empty, and only the trace tells.
SoloFails ==
  /\ pc = "single"
  /\ stages' = stages \union {"single_error", "single_model"}
  /\ UNCHANGED progress
  /\ UNCHANGED <<ctx, gatherVars, councilVars, cost>>
  /\ Conclude(Reply(Empty, "single_model", FALSE, FALSE))

-----------------------------------------------------------------------------
(* Stage 1.                                                                  *)

\* One proposer's call ends: a usable text, a blank one (no success), or an exception.
ProposerEnds(p) ==
  /\ pc = "proposers"
  /\ p \in waiting
  /\ waiting' = waiting \ {p}
  /\ \/ \E k \in {0, 1} : good' = good \union {p} /\ cost' = Charge(k)
     \/ \E k \in {0, 1} : UNCHANGED good /\ cost' = Charge(k)
  /\ UNCHANGED <<pc, ctx, judging, heard, next, councilVars, progress, stages, result>>

\* The budget check before the Chairman, and what follows it.
BeforeChairman(cs, rk, done) ==
  /\ \/ /\ OverBudget
        /\ stages' = done \union {"budget_capped"}
        /\ Conclude(Reply(TextOf(cs, rk.leader), "council", TRUE, FALSE))
     \/ /\ ~OverBudget
        /\ stages' = done
        /\ pc' = "chairman"
        /\ UNCHANGED result

\* A first ranking: captured, then a debate if the judges disagree.
Ranked(cs, rk, done) ==
  /\ progress' = Captures(cs, rk)
  /\ cands' = cs
  /\ ranking' = rk
  /\ \/ /\ ShouldDebate(rk)
        /\ pc' = "debate"
        /\ waiting' = DOMAIN cs
        /\ next' = cs
        /\ stages' = done \union {"ranking"}
        /\ UNCHANGED result
     \/ /\ ~ShouldDebate(rk)
        /\ BeforeChairman(cs, rk, done \union {"ranking"})
        /\ UNCHANGED <<waiting, next>>

Drafts == [p \in good |-> Draft]

\* council_with_voting: each text is worth what extract_answer finds in it.
ResumeVoting ==
  /\ progress.decision = "council_with_voting"
  /\ progress' = [progress EXCEPT !.cands = Drafts]
  /\ stages' = stages \union {"proposers", "voting"}
  /\ \E ballot \in [good -> Answers] :
       Conclude(Reply(TextOf(Drafts, Votes!Spokesman(ballot)), "council_with_voting", FALSE, FALSE))
  /\ UNCHANGED <<gatherVars, councilVars>>

\* council: a lone candidate is ranked without asking anybody.
ResumeCouncil ==
  /\ progress.decision = "council"
  /\ \/ /\ Cardinality(good) > 1
        /\ pc' = "ranking"
        /\ judging' = JudgeTasks
        /\ progress' = [progress EXCEPT !.cands = Drafts]
        /\ cands' = Drafts
        /\ stages' = stages \union {"proposers"}
        /\ UNCHANGED <<waiting, next, ranking, result>>
     \/ /\ Cardinality(good) = 1
        /\ \E rk \in Rankings(Drafts) : Ranked(Drafts, rk, stages \union {"proposers"})
        /\ UNCHANGED judging
  /\ UNCHANGED <<good, heard, rounds, conv>>

\* Below quorum with a survivor: its text is the answer.
ResumeDegraded ==
  /\ good # {}
  /\ progress' = [progress EXCEPT !.degraded = TRUE, !.decision = "single_model"]
  /\ stages' = stages \union {"proposers"}
  /\ Conclude(Reply(TextOf(Drafts, Best(good)), "single_model", TRUE, FALSE))
  /\ UNCHANGED <<gatherVars, councilVars>>

\* Nobody survived: one more call.
ResumeEmptyHanded ==
  /\ good = {}
  /\ pc' = "degrade"
  /\ UNCHANGED <<gatherVars, councilVars, progress, stages, result>>

ProposersResume ==
  /\ pc = "proposers"
  /\ waiting = {}
  /\ UNCHANGED <<ctx, cost>>
  /\ \/ Met /\ (ResumeVoting \/ ResumeCouncil)
     \/ ~Met /\ (ResumeDegraded \/ ResumeEmptyHanded)

\* The call after a stage nobody survived; its text may be blank, or it may fail.
DegradeEnds ==
  /\ pc = "degrade"
  /\ progress' = [progress EXCEPT !.degraded = TRUE, !.decision = "single_model"]
  /\ stages' = stages \union {"proposers"}
  /\ \/ \E v \in {Blank, Draft}, k \in {0, 1} :
          /\ cost' = Charge(k)
          /\ Conclude(Reply([by |-> Solo, v |-> v], "single_model", TRUE, FALSE))
     \/ /\ UNCHANGED cost
        /\ Conclude(Reply(Empty, "single_model", TRUE, FALSE))
  /\ UNCHANGED <<ctx, gatherVars, councilVars>>

-----------------------------------------------------------------------------
(* Ranking and debate.                                                       *)

\* One judge's call ends: a ranking, or anything else, which gather swallows.
JudgeEnds(t) ==
  /\ pc \in {"ranking", "rerank"}
  /\ t \in judging
  /\ judging' = judging \ {t}
  /\ \/ \E k \in {0, 1} : heard' = heard \union {t[1]} /\ cost' = Charge(k)
     \/ \E k \in {0, 1} : UNCHANGED heard /\ cost' = Charge(k)
  /\ UNCHANGED <<pc, ctx, waiting, good, next, councilVars, progress, stages, result>>

RankingResumes ==
  /\ pc = "ranking"
  /\ judging = {}
  /\ heard' = {}
  /\ UNCHANGED <<ctx, judging, good, rounds, conv, cost>>
  /\ \E rk \in Rankings(cands) : Ranked(cands, rk, stages)

\* One debater's call ends.  A text is taken as it is, a blank one too; after an
\* exception the old text stays.
DebaterEnds(p) ==
  /\ pc = "debate"
  /\ p \in waiting
  /\ waiting' = waiting \ {p}
  /\ \/ \E v \in {cands[p], rounds + 1, Blank}, k \in {0, 1} :
          next' = [next EXCEPT ![p] = v] /\ cost' = Charge(k)
     \/ UNCHANGED <<next, cost>>
  /\ UNCHANGED <<pc, ctx, judging, good, heard, councilVars, progress, stages, result>>

\* Seeded fault: the round's texts are captured before they are ranked.
DebateResumes_CapturesEarly ==
  /\ pc = "debate"
  /\ waiting = {}
  /\ rounds' = rounds + 1
  /\ conv' = (next = cands)
  /\ cands' = next
  /\ progress' = [progress EXCEPT !.cands = next]
  /\ pc' = "rerank"
  /\ judging' = JudgeTasks
  /\ UNCHANGED <<ctx, waiting, good, heard, next, ranking, cost, stages, result>>

\* The round is over; its texts are ranked anew.  Nothing is captured yet.
DebateResumes ==
  /\ pc = "debate"
  /\ waiting = {}
  /\ rounds' = rounds + 1
  /\ conv' = (next = cands)
  /\ cands' = next
  /\ pc' = "rerank"
  /\ judging' = JudgeTasks
  /\ UNCHANGED <<ctx, waiting, good, heard, next, ranking, progress, cost, stages, result>>

\* Another round, or the debate is over and captured.
RerankResumes ==
  /\ pc = "rerank"
  /\ judging = {}
  /\ heard' = {}
  /\ UNCHANGED <<ctx, judging, good, next, cands, rounds, conv, cost>>
  /\ \E rk \in Rankings(cands) :
       /\ ranking' = rk
       /\ \/ /\ AnotherRound
             /\ pc' = "debate"
             /\ waiting' = DOMAIN cands
             /\ UNCHANGED <<progress, stages, result>>
          \/ /\ ~AnotherRound
             /\ progress' = Captures(cands, rk)
             /\ BeforeChairman(cands, rk, stages \union {"debate"})
             /\ UNCHANGED waiting

-----------------------------------------------------------------------------
(* Chairman, wall clock, hooks.                                              *)

ChairmanAnswers ==
  /\ pc \in {"chairman", "repair"}
  /\ \E v \in {Blank, Draft}, k \in {0, 1} :
       /\ cost' = Charge(k)
       /\ stages' = stages \union {"chairman"}
       /\ UNCHANGED progress
       /\ Conclude(Reply([by |-> Chair, v |-> v], "council", FALSE, FALSE))
  /\ UNCHANGED <<ctx, gatherVars, councilVars>>

\* A GatewayError or an invalid reply is repaired once; then ChairmanError leaves run.
ChairmanInvalid ==
  /\ pc \in {"chairman", "repair"}
  /\ \E k \in {0, 1} : cost' = Charge(k)
  /\ \/ /\ pc = "chairman"
        /\ pc' = "repair"
        /\ UNCHANGED <<ctx, gatherVars, councilVars, progress, stages, result>>
     \/ pc = "repair" /\ Raise

\* An exception that is no GatewayError leaves a call that is not gathered.
Crash ==
  /\ pc \in {"triage", "single", "degrade", "chairman", "repair"}
  /\ \E k \in {0, 1} : cost' = Charge(k)
  /\ Raise

\* Calls in flight when the pipeline is cancelled: some may have been charged already.
InFlight ==
  IF pc \in {"proposers", "ranking", "debate", "rerank"}
  THEN Cardinality(waiting) + Cardinality(judging)
  ELSE 1

\* _partial: the top of the last captured ranking, else the first captured candidate.  Its
\* first branch, a captured verdict, is never taken: no await follows the capture.
Captured ==
  IF progress.cands = NoCands THEN Empty
  ELSE IF progress.ranking = NoRanking THEN TextOf(progress.cands, Best(DOMAIN progress.cands))
  ELSE TextOf(progress.cands, progress.ranking.leader)

\* Seeded fault: the partial result is not marked.
Timeout_Unmarked ==
  /\ WallClock
  /\ pc \in InPipeline
  /\ \E k \in 0 .. InFlight : cost' = Charge(k)
  /\ stages' = stages \union {"timeout"}
  /\ waiting' = {} /\ judging' = {}
  /\ UNCHANGED progress
  /\ Conclude(Reply(Captured, progress.decision, progress.degraded, FALSE))
  /\ UNCHANGED <<ctx, good, heard, next, councilVars>>

\* wait_for cancels the pipeline and its children, and run answers with what it captured.
Timeout ==
  /\ WallClock
  /\ pc \in InPipeline
  /\ \E k \in 0 .. InFlight : cost' = Charge(k)
  /\ stages' = stages \union {"timeout"}
  /\ waiting' = {} /\ judging' = {}
  /\ UNCHANGED progress
  /\ Conclude(Reply(Captured, progress.decision, progress.degraded, TRUE))
  /\ UNCHANGED <<ctx, good, heard, next, councilVars>>

\* The hook returns the text or another one, or raises; no clock runs any more.
GuardrailReturns ==
  /\ pc = "guardrail"
  /\ UNCHANGED <<cost, progress>>
  /\ stages' = stages \union {"guardrail"}
  /\ \E final \in {result.final, [by |-> Hook, v |-> Draft]} :
       Settle([result EXCEPT !.final = final])
  /\ UNCHANGED <<ctx, gatherVars, councilVars>>

GuardrailRaises ==
  /\ pc = "guardrail"
  /\ UNCHANGED cost
  /\ Raise

\* save_run ends; its exceptions are logged and swallowed.
Persisted ==
  /\ pc = "persist"
  /\ pc' = "done"
  /\ UNCHANGED <<ctx, gatherVars, councilVars, progress, cost, stages, result>>

\* A text or a GatewayError of a model somewhere ...
Replied ==
  \/ Classified \/ SoloAnswers \/ SoloFails \/ DegradeEnds
  \/ ChairmanAnswers \/ ChairmanInvalid
  \/ \E p \in Proposers : ProposerEnds(p) \/ DebaterEnds(p)
  \/ \E t \in JudgeTasks : JudgeEnds(t)

\* ... or any other exception.
Answered == Replied \/ Crash

\* The event loop runs a task that can go on.
Resumed == Begin \/ ProposersResume \/ RankingResumes \/ DebateResumes \/ RerankResumes

Hooks == GuardrailReturns \/ GuardrailRaises \/ Persisted

Next == (Answered \/ Resumed \/ Hooks \/ Timeout) /\ UNCHANGED config

Spec == Init /\ [][Next]_vars

\* A run in which every call ends in a text or a GatewayError.
RepliesSpec == Init /\ [][(Replied \/ Resumed \/ Hooks \/ Timeout) /\ UNCHANGED config]_vars

\* The loop schedules ready tasks and fires its timers.
ClockSpec == Spec /\ WF_state(Resumed) /\ WF_state(Timeout)

\* The hook and the store answer.  Nothing is assumed of the models under a wall clock;
\* without one, every call must end: the gateway's EveryCallEnds.
FairSpec == ClockSpec /\ WF_state(Hooks) /\ WF_state(~WallClock /\ Answered)

-----------------------------------------------------------------------------
(* Properties.                                                               *)

CandSets == UNION {[S -> Versions] : S \in SUBSET Proposers}
RankSet  == [leader : Proposers, of : CandSets, high : BOOLEAN] \union {NoRanking}

\* Every variable keeps its type.
TypeOK ==
  /\ pc \in InPipeline \union {"start", "guardrail", "persist", "done", "raised"}
  /\ config \in Configs
  /\ ctx \in Contexts[config]
  /\ waiting \subseteq Proposers
  /\ judging \subseteq JudgeTasks
  /\ good \subseteq Proposers
  /\ heard \subseteq Judges
  /\ next \in CandSets /\ cands \in CandSets
  /\ ranking \in RankSet
  /\ rounds \in 0 .. Rounds
  /\ conv \in BOOLEAN
  /\ progress \in [requested : Decisions, decision : Decisions, cands : CandSets,
                   ranking : RankSet, degraded : BOOLEAN]
  /\ cost \in Amounts
  /\ stages \subseteq {"triage", "single_error", "single_model", "proposers", "voting",
                       "ranking", "debate", "budget_capped", "chairman", "timeout", "guardrail"}
  /\ result \in [final : Texts, decision : Decisions, requested : Decisions,
                 degraded : BOOLEAN, partial : BOOLEAN, cost : Amounts,
                 stages : SUBSET stages, unfaithful : BOOLEAN]

\* Whatever a timeout would fall back on belongs together: the captured ranking ranked
\* exactly the captured texts, never those of another round of debate.
SnapshotConsistent ==
  progress.ranking # NoRanking =>
    progress.ranking.of = progress.cands /\ progress.ranking.leader \in DOMAIN progress.cands

Ended == pc \in {"persist", "done"}

\* The faithfulness flag only ever falls on a text the council did not write itself: the
\* Chairman's synthesis or the hook's rewriting, never a candidate's own words.
OnlySynthesisUnfaithful ==
  Ended /\ result.unfaithful => result.final.by \in {Chair, Hook}

\* The trace and the flags tell the same story.
TraceTellsOutcome ==
  Ended =>
    /\ result.partial <=> "timeout" \in result.stages
    /\ "budget_capped" \in result.stages => result.degraded /\ "chairman" \notin result.stages
    /\ "chairman" \in result.stages <=>
         result.decision = "council" /\ ~result.degraded /\ ~result.partial
    /\ "debate" \in result.stages => "ranking" \in result.stages
    /\ result.partial => ~result.degraded

\* Below quorum, if anybody survived, the answer is a survivor's own draft, of the survivor
\* first in the configured order.
DegradeReusesSurvivor ==
  Ended /\ result.degraded /\ result.decision = "single_model" /\ good # {} /\ ~HasGuardrail =>
    /\ result.final \in CandTexts(Drafts)
    /\ \A p \in good : result.final.by <= p

\* README, "re-checks actual cost before the Chairman call": an answer is only kept from the
\* Chairman when the charges reported with it have used up the budget, and one the Chairman
\* wrote is reported at its repair call beyond the budget at most, whatever the triage, the
\* judges and the rounds of debate before it, which no budget stops, have charged.
SynthesisWithinBudget ==
  Ended =>
    /\ "budget_capped" \in result.stages => ctx.budget # NoLimit /\ result.cost >= ctx.budget
    /\ "chairman" \in result.stages /\ ctx.budget # NoLimit => result.cost <= ctx.budget + 1

\* policy.py, "upper-ish estimate of one full council run": without a debate, with no more
\* judges than proposers asked as often as configured, a council charges no more calls than
\* the gate compared with the budgets, but for the classifier before it and one repair.
\* (next is empty until a debate begins.)
CouncilWithinEstimate ==
  /\ progress.requested # "single_model" /\ next = NoCands
  /\ Cardinality(Judges) <= N /\ Orderings > 1
  => cost <= Estimate + 1 + (IF Ruled THEN 0 ELSE 1)

\* A debate stops when a round changes nothing, and after max_rounds.
DebateStops == [][rounds' # rounds => ~conv /\ rounds' <= Rounds]_vars

\* run ends: with the wall clock whatever the models do, without it if they answer.
RunEnds == <>(pc \in {"done", "raised"})

-----------------------------------------------------------------------------
(* run keeps the promise of RunContract.                                     *)

Contract ==
  INSTANCE RunContract WITH
    MaxSpent <- CostCap,
    status   <- CASE pc = "done" -> "answered" [] pc = "raised" -> "raised" [] OTHER -> "running",
    asked    <- IF "triage" \in stages THEN progress.requested ELSE "undecided",
    spent    <- cost,
    reply    <- IF pc = "done"
                THEN [decision |-> result.decision, degraded |-> result.degraded,
                      partial |-> result.partial, cost |-> result.cost]
                ELSE [decision |-> "none", degraded |-> FALSE, partial |-> FALSE, cost |-> 0]

ImplementsContract == Contract!Spec

-----------------------------------------------------------------------------
(* What the documents and comments say.                                      *)

\* BUILD_SPEC.md, "The council must produce a result if a quorum of proposers succeed": it does
\* not raise, when every call ends in a text or a GatewayError (RepliesSpec).
QuorumNeverRaises == pc = "raised" => ~Met

\* BUILD_SPEC.md, "no single provider failure can fail a request that has a quorum": if a
\* quorum of proposers has answered, the answer is not empty.
QuorumNeverBlank ==
  Ended /\ Met /\ result.requested # "single_model" => result.final.v # Blank

\* BUILD_SPEC.md, "Do NOT swallow provider errors silently": an empty answer is flagged.
BlankIsFlagged == Ended /\ result.final.v = Blank => result.degraded \/ result.partial

\* council/orchestrator.py, "The whole run is bounded by a wall-clock budget": a run that was
\* in its pipeline ends without anybody's help.
BoundedByWallClock == pc \in InPipeline ~> pc \in {"done", "raised"}

\* council/proposers.py, "A successful HTTP call that returns empty/whitespace content is
\* NOT a usable proposal": no candidate is blank.
NoBlankCandidate == \A p \in DOMAIN cands : cands[p] # Blank
=============================================================================
