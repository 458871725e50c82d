------------------------- MODULE OrchestratorProofs -------------------------
(***************************************************************************)
(* Theorems of Orchestrator, for every configuration, every council and    *)
(* every budget: the type invariant, what a timeout falls back on, what    *)
(* the flags and the trace tell, and that run implements RunContract.      *)
(***************************************************************************)
EXTENDS Orchestrator, SetLemmas

-----------------------------------------------------------------------------
(* The inductive invariant.  Pipe says where the run is while its pipeline   *)
(* works, Told what is already known of its answer afterwards.               *)

StageNames == {"triage", "single_error", "single_model", "proposers", "voting",
               "ranking", "debate", "budget_capped", "chairman", "timeout", "guardrail"}

\* The pcs before anything is captured, and those of a council that has candidates.
Early  == {"start", "triage", "single", "proposers", "degrade"}
Judged == {"ranking", "debate", "rerank", "chairman", "repair"}

Pipe ==
  /\ pc \in {"start", "triage"} => stages = {}
  /\ pc \in {"single", "proposers", "degrade"} => stages = {"triage"}
  /\ pc = "ranking" => stages = {"triage", "proposers"}
  /\ pc \in {"debate", "rerank"} => stages = {"triage", "proposers", "ranking"}
  /\ pc \in {"chairman", "repair"} =>
       stages \in {{"triage", "proposers", "ranking"}, {"triage", "proposers", "ranking", "debate"}}
  /\ pc \in Early => progress.cands = NoCands
  /\ pc \in Early \union {"ranking"} =>
       progress.ranking = NoRanking /\ rounds = 0 /\ ~conv /\ next = NoCands
  /\ pc \in Early \union Judged => ~progress.degraded /\ progress.requested = progress.decision
  /\ pc = "single" => progress.decision = "single_model"
  /\ pc \in {"proposers", "degrade"} => progress.decision # "single_model"
  /\ pc \in Judged => progress.decision = "council"
  /\ pc \in {"ranking", "debate", "rerank"} => DOMAIN cands # {}
  /\ pc \in {"debate", "rerank"} => DOMAIN next = DOMAIN cands
  /\ pc = "debate" => waiting \subseteq DOMAIN cands /\ ~conv /\ rounds < Rounds
  /\ pc = "degrade" => good = {}

\* The flags of reply r go with the stages st of its trace.
Story(r, st) ==
  /\ r.partial <=> "timeout" \in st
  /\ "budget_capped" \in st => r.degraded /\ "chairman" \notin st
  /\ "chairman" \in st <=> r.decision = "council" /\ ~r.degraded /\ ~r.partial
  /\ "debate" \in st => "ranking" \in st
  /\ r.partial => ~r.degraded

\* A text that is not the Chairman's cannot fail the faithfulness check against cs.
OwnWords(final, cs) ==
  final.by = Chair \/ cs = NoCands \/ final.v = Blank \/ final \in CandTexts(cs)

\* A degraded answer is the draft of the first of the survivors g.
Survivor(r, g) ==
  r.degraded /\ r.decision = "single_model" /\ g # {} =>
    (\E p \in g : r.final = [by |-> p, v |-> Draft]) /\ \A p \in g : r.final.by <= p

\* An answer that is not what triage asked for says so.
Frank(r, requested, st) ==
  r.partial \/ ("triage" \in st /\ (r.decision = requested \/ r.degraded))

ReplySet(st) ==
  [final : Texts, decision : Decisions, requested : Decisions, degraded : BOOLEAN,
   partial : BOOLEAN, cost : Amounts, stages : SUBSET st, unfaithful : BOOLEAN]

\* Reply r fits a run with stages st, captured candidates cs and survivors g.
Fit(r, st, requested, cs, g) ==
  /\ r \in ReplySet(st)
  /\ Story(r, st)
  /\ OwnWords(r.final, cs)
  /\ Survivor(r, g)
  /\ Frank(r, requested, st)

Told ==
  /\ pc = "guardrail" =>
       HasGuardrail /\ Fit(result, stages, progress.requested, progress.cands, good)
  /\ Ended =>
       /\ Story(result, result.stages)
       /\ result.unfaithful => result.final.by \in {Chair, Hook}
       /\ ~HasGuardrail => Survivor(result, good)
       /\ Frank(result, progress.requested, stages)
       /\ result.cost = cost

Inv == TypeOK /\ SnapshotConsistent /\ Pipe /\ Told

-----------------------------------------------------------------------------
(* Lemmas about the operators.                                               *)

\* What a configuration gives.
LEMMA ConfigFacts ==
  ASSUME config \in Configs
  PROVE  /\ N \in Nat \ {0} /\ Proposers \subseteq Nat \ {0}
         /\ Rounds \in Nat \ {0} /\ Versions \subseteq Int
         /\ {Blank, Draft} \subseteq Versions /\ 1 .. Rounds \subseteq Versions
         /\ IsFiniteSet(Proposers) /\ Cardinality(Proposers) = N
         /\ {DebateOn, WallClock, Verify, HasGuardrail, HasStore} \subseteq BOOLEAN
         /\ {Quorum, Orderings, MaxRounds} \subseteq Int
<1>1. N \in Nat \ {0} /\ MaxRounds \in Int /\ {Quorum, Orderings} \subseteq Int
  BY CouncilAssumption DEF N, MaxRounds, Quorum, Orderings
<1>2. Rounds \in Nat \ {0}
  BY <1>1 DEF Rounds
<1>3. IsFiniteSet(Proposers) /\ Cardinality(Proposers) = N
  BY <1>1, FS_Interval DEF Proposers
<1>4. {DebateOn, WallClock, Verify, HasGuardrail, HasStore} \subseteq BOOLEAN
  BY CouncilAssumption DEF DebateOn, WallClock, Verify, HasGuardrail, HasStore
<1> QED
  BY <1>1, <1>2, <1>3, <1>4 DEF Proposers, Versions, Blank, Draft

\* The configuration never changes, and neither does what is read from it.
LEMMA ConfigFixed ==
  ASSUME UNCHANGED config
  PROVE  /\ Proposers' = Proposers /\ Rounds' = Rounds /\ CandSets' = CandSets
         /\ RankSet' = RankSet /\ Texts' = Texts /\ JudgeTasks' = JudgeTasks
         /\ HasGuardrail' = HasGuardrail
  BY DEF Proposers, N, Rounds, MaxRounds, CandSets, Versions, RankSet, Texts, Authors,
         JudgeTasks, Orderings, HasGuardrail

\* A set of candidates maps proposers to versions.
LEMMA CandSetIs ==
  ASSUME NEW cs
  PROVE  cs \in CandSets <=> DOMAIN cs \subseteq Proposers /\ cs \in [DOMAIN cs -> Versions]
  BY DEF CandSets

LEMMA NoCandsIs ==
  /\ NoCands \in CandSets /\ DOMAIN NoCands = {}
  /\ \A cs \in CandSets : cs = NoCands <=> DOMAIN cs = {}
<1>1. NoCands = [p \in {} |-> Draft] /\ DOMAIN NoCands = {}
  BY DEF NoCands
<1>2. \A cs \in CandSets : cs \in [DOMAIN cs -> Versions]
  BY CandSetIs
<1>3. \A cs \in CandSets : DOMAIN cs = {} => cs = NoCands
  BY <1>1, <1>2
<1>4. NoCands \in [{} -> Versions] /\ {} \in SUBSET Proposers
  BY <1>1
<1> QED
  BY <1>1, <1>3, <1>4, CandSetIs

LEMMA BestIsFirst ==
  ASSUME config \in Configs, NEW S, S \subseteq Proposers, S # {}
  PROVE  Best(S) \in S /\ \A q \in S : Best(S) <= q
<1>1. \E m \in S : \A q \in S : m <= q
  BY ConfigFacts, LeastExists
<1> QED
  BY <1>1 DEF Best

LEMMA DraftsIs ==
  ASSUME TypeOK
  PROVE  /\ Drafts \in CandSets /\ DOMAIN Drafts = good
         /\ \A p \in good : TextOf(Drafts, p) = [by |-> p, v |-> Draft]
         /\ CandTexts(Drafts) = {[by |-> p, v |-> Draft] : p \in good}
<1>1. DOMAIN Drafts = good /\ \A p \in good : Drafts[p] = Draft
  BY DEF Drafts
<1>2. Drafts \in [good -> Versions]
  BY ConfigFacts DEF Drafts, TypeOK
<1>3. Drafts \in CandSets
  BY <1>1, <1>2, CandSetIs DEF TypeOK
<1> QED
  BY <1>1, <1>3 DEF TextOf, CandTexts

\* A candidate's text is a text, and one of the candidates' texts.
LEMMA CandTextType ==
  ASSUME NEW cs \in CandSets, NEW p \in DOMAIN cs
  PROVE  TextOf(cs, p) \in Texts /\ TextOf(cs, p) \in CandTexts(cs)
  BY CandSetIs DEF TextOf, CandTexts, Texts, Authors

LEMMA AuthorTexts ==
  ASSUME config \in Configs, NEW a \in {Nobody, Solo, Chair, Hook}, NEW v \in {Blank, Draft}
  PROVE  [by |-> a, v |-> v] \in Texts /\ Empty \in Texts
  BY ConfigFacts DEF Texts, Authors, Empty

\* The ranker ranks what it was given.
LEMMA RankingsType ==
  ASSUME config \in Configs, NEW cs \in CandSets, DOMAIN cs # {}, NEW rk \in Rankings(cs)
  PROVE  rk \in RankSet /\ rk.of = cs /\ rk.leader \in DOMAIN cs /\ rk.high \in BOOLEAN
<1>1. DOMAIN cs \subseteq Proposers
  BY CandSetIs
<1>2. Best(DOMAIN cs) \in DOMAIN cs
  BY <1>1, BestIsFirst
<1>3. rk \in [leader : DOMAIN cs, of : {cs}, high : BOOLEAN]
  <2>1. CASE heard = {} \/ Cardinality(DOMAIN cs) <= 1
    <3>1. rk = [leader |-> Best(DOMAIN cs), of |-> cs, high |-> FALSE]
      BY <2>1 DEF Rankings
    <3> QED
      BY <1>2, <3>1
  <2>2. CASE ~(heard = {} \/ Cardinality(DOMAIN cs) <= 1)
    <3> DEFINE high == IF Cardinality(heard) > 1 THEN BOOLEAN ELSE {FALSE}
    <3>1. high \subseteq BOOLEAN
      OBVIOUS
    <3>2. rk \in [leader : DOMAIN cs, of : {cs}, high : high]
      BY <2>2 DEF Rankings
    <3> HIDE DEF high
    <3> QED
      BY <3>1, <3>2
  <2> QED
    BY <2>1, <2>2
<1> QED
  BY <1>1, <1>3 DEF RankSet

LEMMA ChargeType ==
  ASSUME cost \in Amounts, NEW k \in Nat
  PROVE  Charge(k) \in Amounts /\ cost <= Charge(k) /\ Charge(k) <= cost + k
  BY CostAssumption DEF Amounts, Charge

\* With a quorum there is a survivor.
LEMMA MetSurvives ==
  ASSUME TypeOK, Met
  PROVE  good # {}
<1>1. EffectiveQuorum \in Int /\ EffectiveQuorum >= 1
  BY ConfigFacts DEF TypeOK, EffectiveQuorum
<1>2. Cardinality({}) = 0
  BY FS_EmptySet
<1>3. ASSUME good = {} PROVE FALSE
  BY <1>1, <1>2, <1>3 DEF Met
<1> QED
  BY <1>3

-----------------------------------------------------------------------------
(* The vote: whose text is delivered.                                        *)

LEMMA SameCardinality == \A S : Votes!Cardinality(S) = Cardinality(S)
  BY DEF Votes!Cardinality, Cardinality

LEMMA SupportNamed ==
  ASSUME NEW ballot, NEW a \in Votes!Given(ballot)
  PROVE  Votes!Support(ballot, a) # {} /\ Votes!Support(ballot, a) \subseteq DOMAIN ballot
  BY DEF Votes!Given, Votes!Support

LEMMA VoteBestIsFirst ==
  ASSUME config \in Configs, NEW S, S \subseteq Proposers, S # {}
  PROVE  Votes!Best(S) \in S /\ \A q \in S : Votes!Best(S) <= q
<1>1. \E m \in S : \A q \in S : m <= q
  BY ConfigFacts, LeastExists
<1> QED
  BY <1>1 DEF Votes!Best

\* If anything was answered, one answer wins, and somebody gave it.
LEMMA WinnerGiven ==
  ASSUME config \in Configs, NEW ballot, DOMAIN ballot \subseteq Proposers,
         Votes!Given(ballot) # {}
  PROVE  Votes!Winner(ballot) \in Votes!Given(ballot)
<1> DEFINE G == Votes!Given(ballot)
           T == Votes!Tied(ballot)
           votes == [a \in G |-> Cardinality(Votes!Support(ballot, a))]
           rank == [a \in T |-> Votes!BestRank(ballot, a)]
<1>1. \A a \in G : /\ IsFiniteSet(Votes!Support(ballot, a))
                   /\ Cardinality(Votes!Support(ballot, a)) \in Nat
                   /\ Cardinality(Votes!Support(ballot, a)) <= N
  <2>1. \A a \in G : Votes!Support(ballot, a) \in SUBSET Proposers
    BY SupportNamed
  <2> QED
    BY <2>1, ConfigFacts, FS_Subset, FS_CardinalityType
<1>2. T # {}
  <2>1. votes \in [G -> Nat] /\ \A a \in G : votes[a] <= N
    BY <1>1
  <2>2. N \in Nat
    BY ConfigFacts
  <2>3. PICK a \in G : \A b \in G : votes[b] <= votes[a]
    <3> HIDE DEF votes, G
    <3>1. G # {}
      BY DEF G
    <3> QED
      BY <2>1, <2>2, <3>1, GreatestValue
  <2>4. \A b \in G : Cardinality(Votes!Support(ballot, a)) >= Cardinality(Votes!Support(ballot, b))
    BY <1>1, <2>3
  <2> QED
    BY <2>4, SameCardinality DEF Votes!Tied
<1>3. T \subseteq G
  BY DEF Votes!Tied
<1>4. rank \in [T -> Nat]
  <2>1. \A a \in T : Votes!BestRank(ballot, a) \in Nat
    BY <1>3, SupportNamed, VoteBestIsFirst, ConfigFacts DEF Votes!BestRank
  <2> QED
    BY <2>1
<1>5. PICK a \in T : \A b \in T : rank[a] <= rank[b]
  <2> HIDE DEF rank, T
  <2> QED
    BY <1>2, <1>4, LeastValue
<1>6. \A b \in T : Votes!BestRank(ballot, a) <= Votes!BestRank(ballot, b)
  BY <1>5
<1>7. Votes!Winner(ballot) \in T
  BY <1>6 DEF Votes!Winner
<1> QED
  BY <1>3, <1>7

LEMMA SpokesmanVoted ==
  ASSUME config \in Configs, NEW ballot, DOMAIN ballot \subseteq Proposers, DOMAIN ballot # {}
  PROVE  Votes!Spokesman(ballot) \in DOMAIN ballot
<1>1. CASE Votes!Winner(ballot) = NoAnswer
  BY <1>1, VoteBestIsFirst DEF Votes!Spokesman
<1>2. CASE Votes!Winner(ballot) # NoAnswer
  <2>1. Votes!Winner(ballot) \in Votes!Given(ballot)
    BY <1>2, WinnerGiven DEF Votes!Winner
  <2> QED
    BY <1>2, <2>1, SupportNamed, VoteBestIsFirst DEF Votes!Spokesman
<1> QED
  BY <1>1, <1>2

-----------------------------------------------------------------------------
(* How a run concludes.                                                      *)

ProgressSet == [requested : Decisions, decision : Decisions, cands : CandSets,
                ranking : RankSet, degraded : BOOLEAN]

\* The type of everything but the pc and the result.
RestTyped ==
  /\ config \in Configs /\ ctx \in Contexts[config]
  /\ waiting \subseteq Proposers /\ judging \subseteq JudgeTasks
  /\ good \subseteq Proposers /\ heard \subseteq Judges
  /\ next \in CandSets /\ cands \in CandSets /\ ranking \in RankSet
  /\ rounds \in 0 .. Rounds /\ conv \in BOOLEAN
  /\ progress \in ProgressSet
  /\ cost \in Amounts
  /\ stages \subseteq StageNames

Pcs == InPipeline \union {"start", "guardrail", "persist", "done", "raised"}

LEMMA TypeSplit == TypeOK <=> RestTyped /\ pc \in Pcs /\ result \in ReplySet(stages)
  BY DEF TypeOK, RestTyped, Pcs, ReplySet, ProgressSet, StageNames

LEMMA TypeSplitAfter == TypeOK' <=> RestTyped' /\ pc' \in Pcs /\ result' \in ReplySet(stages)'
  BY DEF TypeOK, RestTyped, Pcs, InPipeline, ReplySet, ProgressSet, StageNames

\* What Reply builds.
LEMMA ReplyIs ==
  ASSUME NEW final \in Texts, NEW decision \in Decisions,
         NEW degraded \in BOOLEAN, NEW partial \in BOOLEAN,
         progress' \in ProgressSet, NEW r, r = Reply(final, decision, degraded, partial)
  PROVE  /\ \A st : r \in ReplySet(st)
         /\ r.final = final /\ r.decision = decision
         /\ r.degraded = degraded /\ r.partial = partial
<1>1. progress'.requested \in Decisions
  BY DEF ProgressSet
<1>2. 0 \in Amounts
  BY CostAssumption DEF Amounts
<1> QED
  BY <1>1, <1>2 DEF Reply, ReplySet

\* The tail of run: what the caller is told fits the run, and the faithfulness flag falls on
\* no text of the candidates.
LEMMA SettleTells ==
  ASSUME config \in Configs, UNCHANGED config, NEW r, Settle(r),
         r \in ReplySet(stages'), Story(r, stages'),
         OwnWords(r.final, progress'.cands) \/ r.final.by = Hook,
         ~HasGuardrail => Survivor(r, good'),
         Frank(r, progress'.requested, stages'), cost' \in Amounts
  PROVE  pc' \in {"persist", "done"} /\ result' \in ReplySet(stages') /\ Told'
<1>1. PICK flagged \in (IF MayBeUnfaithful(r.final) THEN BOOLEAN ELSE {FALSE}) :
        result' = [r EXCEPT !.cost = cost', !.stages = stages', !.unfaithful = flagged]
  BY DEF Settle
<1>2. pc' \in {"persist", "done"}
  BY DEF Settle
<1>3. flagged \in BOOLEAN
  BY <1>1
<1>4. flagged => r.final.by \in {Chair, Hook}
  BY <1>1 DEF MayBeUnfaithful, OwnWords
<1>5. /\ result' \in ReplySet(stages')
      /\ result'.final = r.final /\ result'.decision = r.decision
      /\ result'.degraded = r.degraded /\ result'.partial = r.partial
      /\ result'.cost = cost' /\ result'.stages = stages' /\ result'.unfaithful = flagged
  BY <1>1, <1>3 DEF ReplySet
<1>6. Story(result', result'.stages)
  BY <1>5 DEF Story
<1>7. ~HasGuardrail' => Survivor(result', good')
  BY <1>5, ConfigFixed DEF Survivor
<1>8. Frank(result', progress'.requested, stages')
  BY <1>5 DEF Frank
<1> QED
  BY <1>2, <1>4, <1>5, <1>6, <1>7, <1>8 DEF Told, Ended

LEMMA ConcludeTells ==
  ASSUME config \in Configs, UNCHANGED config, NEW r, Conclude(r),
         Fit(r, stages', progress'.requested, progress'.cands, good'), cost' \in Amounts
  PROVE  /\ pc' \in {"guardrail", "persist", "done"}
         /\ result' \in ReplySet(stages')
         /\ Told'
<1>1. CASE HasGuardrail
  <2>1. pc' = "guardrail" /\ result' = r
    BY <1>1 DEF Conclude
  <2>2. r \in ReplySet(stages)'
    BY ConfigFixed DEF Fit, ReplySet
  <2> QED
    BY <1>1, <2>1, <2>2, ConfigFixed
       DEF Told, Ended, Fit, ReplySet, Story, OwnWords, Survivor, Frank
<1>2. CASE ~HasGuardrail
  BY <1>2, SettleTells DEF Conclude, Fit
<1> QED
  BY <1>1, <1>2

\* A step that concludes the run keeps the invariant.
LEMMA ConcludeStep ==
  ASSUME config \in Configs, UNCHANGED config, NEW r, Conclude(r), RestTyped',
         Fit(r, stages', progress'.requested, progress'.cands, good'), SnapshotConsistent'
  PROVE  Inv'
<1>1. cost' \in Amounts
  BY DEF RestTyped
<1>2. /\ pc' \in {"guardrail", "persist", "done"} /\ Told'
      /\ result' \in ReplySet(stages')
  BY <1>1, ConcludeTells
<1>3. result' \in ReplySet(stages)'
  BY <1>2, ConfigFixed DEF ReplySet
<1>4. TypeOK'
  BY <1>2, <1>3, TypeSplitAfter DEF Pcs
<1>5. Pipe'
  BY <1>2 DEF Pipe, Early, Judged
<1> QED
  BY <1>2, <1>4, <1>5 DEF Inv

-----------------------------------------------------------------------------
(* The steps, one by one.                                                    *)

LEMMA InitInv == Init => Inv
<1> SUFFICES ASSUME Init PROVE Inv
  OBVIOUS
<1>1. config \in Configs
  BY DEF Init
<1>2. 0 \in Amounts /\ Empty \in Texts /\ Rounds \in Nat
  BY <1>1, CostAssumption, AuthorTexts, ConfigFacts DEF Amounts
<1>3. RestTyped
  <2>1. NoRanking \in RankSet /\ NoCands \in CandSets
    BY NoCandsIs DEF RankSet
  <2>2. progress \in ProgressSet
    BY <2>1 DEF Init, ProgressSet, Decisions
  <2>3. 0 \in 0 .. Rounds
    BY <1>2
  <2> QED
    BY <1>1, <1>2, <2>1, <2>2, <2>3 DEF Init, RestTyped
<1>4. result \in ReplySet(stages)
  BY <1>2 DEF Init, ReplySet, Decisions
<1>5. TypeOK
  BY <1>3, <1>4, TypeSplit DEF Init, Pcs
<1>6. SnapshotConsistent /\ Pipe /\ Told
  BY DEF Init, SnapshotConsistent, Pipe, Told, Ended, Early, Judged
<1> QED
  BY <1>5, <1>6 DEF Inv

\* What the invariant gives at once.
LEMMA InvTypes ==
  ASSUME Inv
  PROVE  TypeOK /\ RestTyped /\ config \in Configs /\ pc \in Pcs /\ result \in ReplySet(stages)
  BY TypeSplit DEF Inv, RestTyped

\* A step inside the pipeline.
LEMMA PipeStep ==
  ASSUME Inv, UNCHANGED <<config, result>>, RestTyped', stages \subseteq stages',
         pc' \in InPipeline, Pipe', SnapshotConsistent'
  PROVE  Inv'
<1>1. result' \in ReplySet(stages)'
  BY InvTypes, ConfigFixed DEF ReplySet
<1>2. TypeOK'
  BY <1>1, TypeSplitAfter DEF Pcs
<1>3. Told'
  BY DEF Told, Ended, InPipeline
<1> QED
  BY <1>2, <1>3 DEF Inv

LEMMA GateType ==
  ASSUME NEW decision \in Decisions
  PROVE  Gate(decision) \in Decisions
  BY DEF Gate, Decisions

LEMMA DispatchStep ==
  ASSUME Inv, UNCHANGED config, pc \in {"start", "triage"}, NEW decision \in Decisions,
         Dispatch(decision), cost' \in Amounts
  PROVE  Inv'
<1>1. /\ RestTyped /\ Pipe /\ SnapshotConsistent
  BY InvTypes DEF Inv
<1>2. progress' = [progress EXCEPT !.requested = decision, !.decision = decision]
  BY DEF Dispatch
<1>3. /\ progress' \in ProgressSet /\ progress'.requested = decision
      /\ progress'.decision = decision /\ progress'.cands = progress.cands
      /\ progress'.ranking = progress.ranking /\ progress'.degraded = progress.degraded
  BY <1>1, <1>2 DEF RestTyped, ProgressSet
<1>4. /\ stages' = stages \union {"triage"} /\ UNCHANGED <<ctx, judging, good, heard, next, result>>
      /\ UNCHANGED <<cands, ranking, rounds, conv>>
      /\ \/ decision = "single_model" /\ pc' = "single" /\ UNCHANGED waiting
         \/ decision # "single_model" /\ pc' = "proposers" /\ waiting' = Proposers
  BY DEF Dispatch, councilVars
<1>5. RestTyped'
  <2>1. progress' \in ProgressSet'
    BY <1>3, ConfigFixed DEF ProgressSet
  <2>2. stages' \subseteq StageNames /\ waiting' \subseteq Proposers
    BY <1>1, <1>4 DEF RestTyped, StageNames
  <2> QED
    BY <1>1, <1>4, <2>1, <2>2, ConfigFixed DEF RestTyped, Amounts
<1>6. Pipe'
  BY <1>1, <1>3, <1>4 DEF Pipe, Early, Judged
<1>7. SnapshotConsistent'
  BY <1>1, <1>3 DEF SnapshotConsistent
<1> QED
  BY <1>4, <1>5, <1>6, <1>7, PipeStep DEF InPipeline

LEMMA BeginStep ==
  ASSUME Inv, UNCHANGED config, Begin
  PROVE  Inv'
<1>1. RestTyped /\ Pipe /\ SnapshotConsistent
  BY InvTypes DEF Inv
<1>2. CASE Ruled /\ Dispatch(Gate(RuledDecision)) /\ UNCHANGED cost
  <2> PICK decision \in Decisions : decision = Gate(RuledDecision)
    BY GateType DEF RuledDecision, Decisions
  <2>1. Dispatch(decision)
    BY <1>2 DEF Dispatch
  <2> QED
    BY <1>1, <1>2, <2>1, DispatchStep DEF Begin, RestTyped
<1>3. CASE pc' = "triage" /\ UNCHANGED <<ctx, gatherVars, councilVars, progress, cost, stages, result>>
  <2>1. RestTyped'
    BY <1>1, <1>3, ConfigFixed DEF RestTyped, gatherVars, councilVars, ProgressSet, Amounts
  <2>2. Pipe' /\ SnapshotConsistent'
    BY <1>1, <1>3 DEF Begin, Pipe, Early, Judged, SnapshotConsistent, gatherVars, councilVars
  <2> QED
    BY <1>3, <2>1, <2>2, PipeStep DEF InPipeline
<1> QED
  BY <1>2, <1>3 DEF Begin

LEMMA ClassifiedStep ==
  ASSUME Inv, UNCHANGED config, Classified
  PROVE  Inv'
<1>1. PICK class \in Classes, k \in {0, 1} : Dispatch(Gate(ClassRouting[class])) /\ cost' = Charge(k)
  BY DEF Classified
<1>2. cost' \in Amounts
  BY <1>1, ChargeType, InvTypes DEF RestTyped
<1> PICK decision \in Decisions : decision = Gate(ClassRouting[class])
  BY GateType, CouncilAssumption
<1>3. Dispatch(decision)
  BY <1>1 DEF Dispatch
<1> QED
  BY <1>2, <1>3, DispatchStep DEF Classified

\* A step that only touches the progress, the cost and the stages.
LEMMA FrameTyped ==
  ASSUME Inv, UNCHANGED <<config, ctx, gatherVars, councilVars>>,
         progress' \in ProgressSet, cost' \in Amounts, stages' \subseteq StageNames
  PROVE  RestTyped'
<1>1. progress' \in ProgressSet'
  BY ConfigFixed DEF ProgressSet
<1> QED
  BY <1>1, InvTypes, ConfigFixed DEF RestTyped, gatherVars, councilVars, Amounts

\* The single-model answer, blank or not, and the empty one after an error.
LEMMA SoloStep ==
  ASSUME Inv, UNCHANGED config, SoloAnswers \/ SoloFails
  PROVE  Inv'
<1>1. RestTyped /\ Pipe /\ SnapshotConsistent
  BY InvTypes DEF Inv
<1>2. /\ pc = "single" /\ stages = {"triage"} /\ progress.cands = NoCands
      /\ ~progress.degraded /\ progress.requested = "single_model"
      /\ UNCHANGED <<progress, ctx, gatherVars, councilVars>>
  BY <1>1 DEF SoloAnswers, SoloFails, Pipe, Early
<1>3. PICK final \in Texts : /\ cost' \in Amounts
                             /\ stages' \subseteq StageNames
                             /\ "triage" \in stages' /\ "timeout" \notin stages'
                             /\ "chairman" \notin stages' /\ "debate" \notin stages'
                             /\ "budget_capped" \notin stages'
                             /\ Conclude(Reply(final, "single_model", FALSE, FALSE))
  <2>1. CASE SoloAnswers
    <3>1. PICK v \in {Blank, Draft}, k \in {0, 1} :
            /\ cost' = Charge(k)
            /\ stages' = stages \union {"single_model"}
            /\ Conclude(Reply([by |-> Solo, v |-> v], "single_model", FALSE, FALSE))
      BY <2>1 DEF SoloAnswers
    <3>2. [by |-> Solo, v |-> v] \in Texts
      BY <1>1, AuthorTexts DEF RestTyped
    <3>3. cost' \in Amounts
      BY <1>1, <3>1, ChargeType DEF RestTyped
    <3> QED
      BY <1>2, <3>1, <3>2, <3>3 DEF StageNames
  <2>2. CASE SoloFails
    <3>1. Empty \in Texts /\ cost' \in Amounts
      BY <1>1, <2>2, AuthorTexts DEF RestTyped, SoloFails
    <3> QED
      BY <1>2, <2>2, <3>1 DEF SoloFails, StageNames
  <2> QED
    BY <2>1, <2>2
<1>4. RestTyped'
  BY <1>1, <1>2, <1>3, FrameTyped DEF RestTyped
<1> PICK r : r = Reply(final, "single_model", FALSE, FALSE)
  OBVIOUS
<1>5. Conclude(r)
  BY <1>3 DEF Conclude, Settle
<1>6. /\ \A st : r \in ReplySet(st)
      /\ r.final = final /\ r.decision = "single_model" /\ ~r.degraded /\ ~r.partial
  <2>1. progress' \in ProgressSet
    BY <1>1, <1>2 DEF RestTyped
  <2> PICK single \in Decisions, no \in BOOLEAN : single = "single_model" /\ no = FALSE
    BY DEF Decisions
  <2>2. r = Reply(final, single, no, no)
    OBVIOUS
  <2>3. /\ \A st : r \in ReplySet(st)
        /\ r.final = final /\ r.decision = single /\ r.degraded = no /\ r.partial = no
    BY ONLY <2>1, <2>2, ReplyIs, final \in Texts, single \in Decisions, no \in BOOLEAN
  <2> QED
    BY <2>3
<1>7. /\ "triage" \in stages' /\ "timeout" \notin stages' /\ "chairman" \notin stages'
      /\ "debate" \notin stages' /\ "budget_capped" \notin stages'
      /\ progress'.requested = "single_model" /\ progress'.cands = NoCands /\ good' = good
  BY <1>2, <1>3 DEF gatherVars
<1>8. Fit(r, stages', progress'.requested, progress'.cands, good')
  <2>1. Story(r, stages')
    BY ONLY <1>6, <1>7 DEF Story
  <2>2. OwnWords(r.final, progress'.cands)
    BY ONLY <1>7 DEF OwnWords
  <2>3. Survivor(r, good')
    BY ONLY <1>6 DEF Survivor
  <2>4. Frank(r, progress'.requested, stages')
    BY ONLY <1>6, <1>7 DEF Frank
  <2> QED
    BY ONLY <1>6, <2>1, <2>2, <2>3, <2>4 DEF Fit
<1>9. SnapshotConsistent'
  BY <1>1, <1>2 DEF SnapshotConsistent
<1> QED
  BY <1>1, <1>4, <1>5, <1>8, <1>9, ConcludeStep DEF RestTyped

LEMMA ProposerEndsStep ==
  ASSUME Inv, UNCHANGED config, NEW p \in Proposers, ProposerEnds(p)
  PROVE  Inv'
<1>1. RestTyped /\ Pipe /\ SnapshotConsistent
  BY InvTypes DEF Inv
<1>2. /\ pc = "proposers" /\ waiting' \subseteq waiting /\ good' \subseteq good \union {p}
      /\ UNCHANGED <<pc, ctx, judging, heard, next, councilVars, progress, stages, result>>
      /\ \E k \in {0, 1} : cost' = Charge(k)
  BY DEF ProposerEnds
<1>3. cost' \in Amounts
  BY <1>1, <1>2, ChargeType DEF RestTyped
<1>4. RestTyped'
  BY <1>1, <1>2, <1>3, ConfigFixed DEF RestTyped, councilVars, ProgressSet, Amounts
<1>5. Pipe' /\ SnapshotConsistent'
  BY <1>1, <1>2 DEF Pipe, Early, Judged, SnapshotConsistent, councilVars
<1> QED
  BY <1>2, <1>4, <1>5, PipeStep DEF InPipeline

\* The budget check before the Chairman.
LEMMA BeforeChairmanStep ==
  ASSUME Inv, UNCHANGED config, NEW cs \in CandSets, NEW rk \in RankSet, NEW done,
         rk.of = cs, rk.leader \in DOMAIN cs,
         done \in {{"triage", "proposers", "ranking"}, {"triage", "proposers", "ranking", "debate"}},
         progress.decision = "council", progress.requested = "council", ~progress.degraded,
         progress' = Captures(cs, rk), RestTyped', UNCHANGED good,
         stages \subseteq done, BeforeChairman(cs, rk, done)
  PROVE  Inv'
<1>1. RestTyped /\ progress \in ProgressSet
  BY InvTypes DEF RestTyped
<1>2. /\ progress' \in ProgressSet /\ progress'.cands = cs /\ progress'.ranking = rk
      /\ progress'.requested = "council" /\ progress'.decision = "council"
      /\ ~progress'.degraded
  BY <1>1 DEF ProgressSet, Captures
<1>3. SnapshotConsistent'
  BY <1>2 DEF SnapshotConsistent
<1>4. CASE OverBudget /\ stages' = done \union {"budget_capped"}
           /\ Conclude(Reply(TextOf(cs, rk.leader), "council", TRUE, FALSE))
  <2> PICK final \in Texts : final = TextOf(cs, rk.leader) /\ final \in CandTexts(cs)
    BY CandTextType
  <2> PICK r : r = Reply(final, "council", TRUE, FALSE)
    OBVIOUS
  <2>1. Conclude(r)
    BY <1>4 DEF Conclude, Settle
  <2>2. /\ \A st : r \in ReplySet(st)
        /\ r.final = final /\ r.decision = "council" /\ r.degraded /\ ~r.partial
    BY <1>2, CostAssumption DEF Reply, ReplySet, ProgressSet, Decisions, Amounts
  <2>3. Fit(r, stages', progress'.requested, progress'.cands, good')
    BY <1>2, <1>4, <2>2 DEF Fit, Story, OwnWords, Survivor, Frank
  <2> QED
    BY <1>1, <1>3, <2>1, <2>3, ConcludeStep DEF RestTyped
<1>5. CASE stages' = done /\ pc' = "chairman" /\ UNCHANGED result
  <2>1. Pipe'
    BY <1>2, <1>5 DEF Pipe, Early, Judged
  <2> QED
    BY <1>3, <1>5, <2>1, PipeStep DEF InPipeline
<1> QED
  BY <1>4, <1>5 DEF BeforeChairman

\* A first ranking of cs, and the debate or the Chairman after it.
LEMMA RankedStep ==
  ASSUME Inv, UNCHANGED <<config, ctx, good, rounds, conv, cost>>,
         pc \in {"proposers", "ranking"}, progress.decision = "council",
         judging' \subseteq JudgeTasks, heard' \subseteq Judges,
         NEW cs \in CandSets, DOMAIN cs # {}, NEW rk \in Rankings(cs),
         Ranked(cs, rk, {"triage", "proposers"})
  PROVE  Inv'
<1> DEFINE done == {"triage", "proposers", "ranking"}
<1>1. RestTyped /\ Pipe /\ SnapshotConsistent
  BY InvTypes DEF Inv
<1>2. rk \in RankSet /\ rk.of = cs /\ rk.leader \in DOMAIN cs
  BY <1>1, RankingsType DEF RestTyped
<1>3. /\ rounds = 0 /\ ~conv /\ ~progress.degraded /\ progress.requested = "council"
      /\ stages \subseteq done
  BY <1>1 DEF Pipe, Early, Judged
<1>4. /\ progress' \in ProgressSet /\ progress'.cands = cs /\ progress'.ranking = rk
      /\ progress'.requested = "council" /\ progress'.decision = "council"
      /\ ~progress'.degraded
  BY <1>1, <1>2, <1>3 DEF RestTyped, ProgressSet, Captures, Ranked
<1>5. /\ progress' = Captures(cs, rk) /\ cands' = cs /\ ranking' = rk
      /\ {"triage", "proposers"} \union {"ranking"} = done
  BY DEF Ranked
<1>6. ASSUME waiting' \subseteq Proposers, next' \in CandSets, stages' \subseteq StageNames
      PROVE  RestTyped'
  <2>1. progress' \in ProgressSet'
    BY <1>4, ConfigFixed DEF ProgressSet
  <2> QED
    BY <1>1, <1>2, <1>5, <1>6, <2>1, ConfigFixed DEF RestTyped, Amounts
<1>7. SnapshotConsistent'
  BY <1>2, <1>4 DEF SnapshotConsistent
<1>8. CASE /\ pc' = "debate" /\ waiting' = DOMAIN cs /\ next' = cs
           /\ stages' = done /\ UNCHANGED result
  <2>1. waiting' \subseteq Proposers /\ 0 < Rounds
    BY <1>1, <1>8, CandSetIs, ConfigFacts DEF RestTyped
  <2>2. RestTyped'
    BY <1>6, <1>8, <2>1 DEF StageNames
  <2>3. rounds' < Rounds'
    BY <1>3, <2>1, ConfigFixed
  <2>4. Pipe'
    BY <1>3, <1>4, <1>5, <1>8, <2>3 DEF Pipe, Early, Judged
  <2> QED
    BY <1>3, <1>7, <1>8, <2>2, <2>4, PipeStep DEF InPipeline
<1>9. CASE BeforeChairman(cs, rk, done) /\ UNCHANGED <<waiting, next>>
  <2>1. RestTyped'
    BY <1>1, <1>6, <1>9 DEF BeforeChairman, StageNames, RestTyped
  <2> QED
    BY <1>2, <1>3, <1>5, <1>9, <2>1, BeforeChairmanStep
<1> QED
  BY <1>5, <1>8, <1>9 DEF Ranked

LEMMA VotingStep ==
  ASSUME Inv, UNCHANGED <<config, ctx, cost>>, pc = "proposers", Met, ResumeVoting
  PROVE  Inv'
<1>1. RestTyped /\ TypeOK /\ Pipe /\ SnapshotConsistent
  BY InvTypes DEF Inv
<1>2. /\ stages = {"triage"} /\ ~progress.degraded /\ progress.ranking = NoRanking
      /\ progress.requested = "council_with_voting"
      /\ progress.decision = "council_with_voting"
  BY <1>1 DEF Pipe, Early, Judged, ResumeVoting
<1>3. /\ Drafts \in CandSets /\ DOMAIN Drafts = good /\ good # {}
  BY <1>1, DraftsIs, MetSurvives
<1>4. /\ progress' \in ProgressSet /\ progress'.cands = Drafts
      /\ progress'.requested = "council_with_voting" /\ progress'.ranking = NoRanking
  BY <1>1, <1>2, <1>3 DEF RestTyped, ProgressSet, ResumeVoting
<1>5. stages' = stages \union {"proposers", "voting"} /\ UNCHANGED <<gatherVars, councilVars, good>>
  BY DEF ResumeVoting, gatherVars
<1>6. RestTyped'
  BY <1>1, <1>2, <1>4, <1>5, FrameTyped DEF RestTyped, StageNames
<1>7. PICK ballot \in [good -> Answers] :
        Conclude(Reply(TextOf(Drafts, Votes!Spokesman(ballot)), "council_with_voting", FALSE, FALSE))
  BY DEF ResumeVoting
<1>8. Votes!Spokesman(ballot) \in DOMAIN Drafts
  BY <1>1, <1>3, SpokesmanVoted DEF RestTyped
<1> PICK cs \in CandSets : cs = Drafts
  BY <1>3
<1> PICK final \in Texts : final = TextOf(cs, Votes!Spokesman(ballot)) /\ final \in CandTexts(cs)
  BY <1>8, CandTextType
<1> PICK r : r = Reply(final, "council_with_voting", FALSE, FALSE)
  OBVIOUS
<1>9. Conclude(r)
  BY <1>7 DEF Conclude, Settle
<1>10. /\ \A st : r \in ReplySet(st)
       /\ r.final = final /\ r.decision = "council_with_voting" /\ ~r.degraded /\ ~r.partial
  BY <1>4, CostAssumption DEF Reply, ReplySet, ProgressSet, Decisions, Amounts
<1>11. Fit(r, stages', progress'.requested, progress'.cands, good')
  BY <1>2, <1>4, <1>5, <1>10 DEF Fit, Story, OwnWords, Survivor, Frank
<1>12. SnapshotConsistent'
  BY <1>4 DEF SnapshotConsistent
<1> QED
  BY <1>1, <1>6, <1>9, <1>11, <1>12, ConcludeStep DEF RestTyped

LEMMA CouncilStep ==
  ASSUME Inv, UNCHANGED <<config, ctx, cost>>, pc = "proposers", Met, ResumeCouncil
  PROVE  Inv'
<1>1. RestTyped /\ TypeOK /\ Pipe /\ SnapshotConsistent
  BY InvTypes DEF Inv
<1>2. /\ stages = {"triage"} /\ ~progress.degraded /\ progress.ranking = NoRanking
      /\ progress.requested = "council" /\ progress.decision = "council"
      /\ rounds = 0 /\ ~conv /\ next = NoCands
      /\ UNCHANGED <<good, heard, rounds, conv>>
  BY <1>1 DEF Pipe, Early, Judged, ResumeCouncil
<1>3. /\ Drafts \in CandSets /\ DOMAIN Drafts = good /\ good # {}
  BY <1>1, DraftsIs, MetSurvives
<1>4. CASE /\ pc' = "ranking" /\ judging' = JudgeTasks
           /\ progress' = [progress EXCEPT !.cands = Drafts] /\ cands' = Drafts
           /\ stages' = stages \union {"proposers"}
           /\ UNCHANGED <<waiting, next, ranking, result>>
  <2>1. /\ progress' \in ProgressSet /\ progress'.requested = "council"
        /\ progress'.decision = "council" /\ progress'.ranking = NoRanking
        /\ ~progress'.degraded
    BY <1>1, <1>2, <1>3, <1>4 DEF RestTyped, ProgressSet
  <2>2. progress' \in ProgressSet'
    BY <2>1, ConfigFixed DEF ProgressSet
  <2>3. RestTyped'
    BY <1>1, <1>2, <1>3, <1>4, <2>2, ConfigFixed DEF RestTyped, StageNames, Amounts
  <2>4. Pipe'
    BY <1>2, <1>3, <1>4, <2>1 DEF Pipe, Early, Judged
  <2>5. SnapshotConsistent'
    BY <2>1 DEF SnapshotConsistent
  <2> QED
    BY <1>4, <2>3, <2>4, <2>5, PipeStep DEF InPipeline
<1>5. CASE \E rk \in Rankings(Drafts) : Ranked(Drafts, rk, stages \union {"proposers"}) /\ UNCHANGED judging
  <2> PICK cs \in CandSets : cs = Drafts
    BY <1>3
  <2> PICK rk \in Rankings(cs) : Ranked(cs, rk, stages \union {"proposers"}) /\ UNCHANGED judging
    BY <1>5
  <2>1. stages \union {"proposers"} = {"triage", "proposers"}
    BY <1>2
  <2>2. Ranked(cs, rk, {"triage", "proposers"})
    BY <2>1
  <2> QED
    BY <1>1, <1>2, <1>3, <2>2, RankedStep DEF RestTyped
<1> QED
  BY <1>4, <1>5 DEF ResumeCouncil

LEMMA DegradedStep ==
  ASSUME Inv, UNCHANGED <<config, ctx, cost>>, pc = "proposers", ResumeDegraded
  PROVE  Inv'
<1>1. RestTyped /\ TypeOK /\ Pipe /\ SnapshotConsistent
  BY InvTypes DEF Inv
<1>2. stages = {"triage"} /\ progress.cands = NoCands /\ progress.ranking = NoRanking
  BY <1>1 DEF Pipe, Early, Judged
<1>3. /\ progress' \in ProgressSet /\ progress'.cands = NoCands /\ progress'.ranking = NoRanking
  BY <1>1, <1>2 DEF RestTyped, ProgressSet, ResumeDegraded, Decisions
<1>4. /\ stages' = stages \union {"proposers"} /\ UNCHANGED <<gatherVars, councilVars, good>>
      /\ good # {}
      /\ Conclude(Reply(TextOf(Drafts, Best(good)), "single_model", TRUE, FALSE))
  BY DEF ResumeDegraded, gatherVars
<1>5. RestTyped'
  BY <1>1, <1>2, <1>3, <1>4, FrameTyped DEF RestTyped, StageNames
<1>6. PICK p \in good : p = Best(good) /\ \A q \in good : p <= q
  BY <1>1, <1>4, BestIsFirst DEF RestTyped
<1> PICK final \in Texts : /\ final = TextOf(Drafts, Best(good))
                           /\ final = [by |-> p, v |-> Draft] /\ final.by = p
  BY <1>1, <1>6, DraftsIs, CandTextType
<1> PICK r : r = Reply(final, "single_model", TRUE, FALSE)
  OBVIOUS
<1>7. Conclude(r)
  BY <1>4 DEF Conclude, Settle
<1>8. /\ \A st : r \in ReplySet(st)
      /\ r.final = final /\ r.decision = "single_model" /\ r.degraded /\ ~r.partial
  BY <1>3, CostAssumption DEF Reply, ReplySet, ProgressSet, Decisions, Amounts
<1>9. Survivor(r, good')
  BY <1>4, <1>6, <1>8 DEF Survivor
<1>10. Fit(r, stages', progress'.requested, progress'.cands, good')
  BY <1>2, <1>3, <1>4, <1>8, <1>9 DEF Fit, Story, OwnWords, Frank
<1>11. SnapshotConsistent'
  BY <1>3 DEF SnapshotConsistent
<1> QED
  BY <1>1, <1>5, <1>7, <1>10, <1>11, ConcludeStep DEF RestTyped

LEMMA EmptyHandedStep ==
  ASSUME Inv, UNCHANGED <<config, ctx, cost>>, pc = "proposers", ResumeEmptyHanded
  PROVE  Inv'
<1>1. RestTyped /\ Pipe /\ SnapshotConsistent
  BY InvTypes DEF Inv
<1>2. /\ good = {} /\ pc' = "degrade"
      /\ UNCHANGED <<gatherVars, councilVars, progress, stages, result>>
  BY DEF ResumeEmptyHanded
<1>3. RestTyped'
  BY <1>1, <1>2, FrameTyped DEF RestTyped
<1>4. Pipe' /\ SnapshotConsistent'
  BY <1>1, <1>2 DEF Pipe, Early, Judged, SnapshotConsistent, gatherVars, councilVars
<1> QED
  BY <1>2, <1>3, <1>4, PipeStep DEF InPipeline

LEMMA DegradeEndsStep ==
  ASSUME Inv, UNCHANGED config, DegradeEnds
  PROVE  Inv'
<1>1. RestTyped /\ Pipe /\ SnapshotConsistent
  BY InvTypes DEF Inv
<1>2. /\ stages = {"triage"} /\ progress.cands = NoCands /\ progress.ranking = NoRanking
      /\ good = {}
  BY <1>1 DEF Pipe, Early, Judged, DegradeEnds
<1>3. /\ progress' \in ProgressSet /\ progress'.cands = NoCands /\ progress'.ranking = NoRanking
  BY <1>1, <1>2 DEF RestTyped, ProgressSet, DegradeEnds, Decisions
<1>4. /\ stages' = stages \union {"proposers"} /\ UNCHANGED <<ctx, gatherVars, councilVars, good>>
  BY DEF DegradeEnds, gatherVars
<1>5. PICK final \in Texts : /\ cost' \in Amounts
                             /\ Conclude(Reply(final, "single_model", TRUE, FALSE))
  <2>1. ASSUME NEW v \in {Blank, Draft}, NEW k \in {0, 1}, cost' = Charge(k),
               Conclude(Reply([by |-> Solo, v |-> v], "single_model", TRUE, FALSE))
        PROVE  \E final \in Texts : /\ cost' \in Amounts
                                    /\ Conclude(Reply(final, "single_model", TRUE, FALSE))
    <3>1. [by |-> Solo, v |-> v] \in Texts /\ cost' \in Amounts
      BY <1>1, <2>1, AuthorTexts, ChargeType DEF RestTyped
    <3> QED
      BY <2>1, <3>1
  <2>2. ASSUME UNCHANGED cost, Conclude(Reply(Empty, "single_model", TRUE, FALSE))
        PROVE  \E final \in Texts : /\ cost' \in Amounts
                                    /\ Conclude(Reply(final, "single_model", TRUE, FALSE))
    <3>1. Empty \in Texts /\ cost' \in Amounts
      BY <1>1, <2>2, AuthorTexts DEF RestTyped
    <3> QED
      BY <2>2, <3>1
  <2> QED
    BY <2>1, <2>2 DEF DegradeEnds
<1>6. RestTyped'
  BY <1>1, <1>2, <1>3, <1>4, <1>5, FrameTyped DEF RestTyped, StageNames
<1> PICK r : r = Reply(final, "single_model", TRUE, FALSE)
  OBVIOUS
<1>7. Conclude(r)
  BY <1>5 DEF Conclude, Settle
<1>8. /\ \A st : r \in ReplySet(st)
      /\ r.final = final /\ r.decision = "single_model" /\ r.degraded /\ ~r.partial
  BY <1>3, CostAssumption DEF Reply, ReplySet, ProgressSet, Decisions, Amounts
<1>9. Fit(r, stages', progress'.requested, progress'.cands, good')
  BY <1>2, <1>3, <1>4, <1>8 DEF Fit, Story, OwnWords, Survivor, Frank
<1>10. SnapshotConsistent'
  BY <1>3 DEF SnapshotConsistent
<1> QED
  BY <1>1, <1>6, <1>7, <1>9, <1>10, ConcludeStep DEF RestTyped

LEMMA ProposersResumeStep ==
  ASSUME Inv, UNCHANGED config, ProposersResume
  PROVE  Inv'
  BY VotingStep, CouncilStep, DegradedStep, EmptyHandedStep DEF ProposersResume

LEMMA JudgeEndsStep ==
  ASSUME Inv, UNCHANGED config, NEW t \in JudgeTasks, JudgeEnds(t)
  PROVE  Inv'
<1>1. RestTyped /\ Pipe /\ SnapshotConsistent
  BY InvTypes DEF Inv
<1>2. t[1] \in Judges
  BY DEF JudgeTasks
<1>3. /\ pc \in {"ranking", "rerank"} /\ judging' \subseteq judging
      /\ heard' \subseteq heard \union {t[1]}
      /\ UNCHANGED <<pc, ctx, waiting, good, next, councilVars, progress, stages, result>>
      /\ \E k \in {0, 1} : cost' = Charge(k)
  BY DEF JudgeEnds
<1>4. cost' \in Amounts
  BY <1>1, <1>3, ChargeType DEF RestTyped
<1>5. RestTyped'
  BY <1>1, <1>2, <1>3, <1>4, ConfigFixed DEF RestTyped, councilVars, ProgressSet, Amounts
<1>6. Pipe' /\ SnapshotConsistent'
  BY <1>1, <1>3 DEF Pipe, Early, Judged, SnapshotConsistent, councilVars
<1> QED
  BY <1>3, <1>5, <1>6, PipeStep DEF InPipeline

LEMMA RankingResumesStep ==
  ASSUME Inv, UNCHANGED config, RankingResumes
  PROVE  Inv'
<1>1. RestTyped /\ Pipe
  BY InvTypes DEF Inv
<1>2. /\ stages = {"triage", "proposers"} /\ progress.decision = "council" /\ DOMAIN cands # {}
      /\ pc = "ranking" /\ UNCHANGED <<ctx, judging, good, rounds, conv, cost>> /\ heard' = {}
  BY <1>1 DEF Pipe, Judged, RankingResumes
<1> PICK cs \in CandSets : cs = cands
  BY <1>1 DEF RestTyped
<1>3. PICK rk \in Rankings(cs) : Ranked(cs, rk, stages)
  BY DEF RankingResumes
<1>4. Ranked(cs, rk, {"triage", "proposers"})
  BY <1>2, <1>3
<1> QED
  BY <1>1, <1>2, <1>4, RankedStep DEF RestTyped

LEMMA DebaterEndsStep ==
  ASSUME Inv, UNCHANGED config, NEW p \in Proposers, DebaterEnds(p)
  PROVE  Inv'
<1>1. RestTyped /\ Pipe /\ SnapshotConsistent
  BY InvTypes DEF Inv
<1>2. /\ pc = "debate" /\ p \in waiting /\ waiting' = waiting \ {p}
      /\ UNCHANGED <<pc, ctx, judging, good, heard, councilVars, progress, stages, result>>
  BY DEF DebaterEnds
<1>3. /\ p \in DOMAIN cands /\ DOMAIN next = DOMAIN cands /\ rounds < Rounds
  BY <1>1, <1>2 DEF Pipe
<1>4. next' \in CandSets /\ DOMAIN next' = DOMAIN next /\ cost' \in Amounts
  <2>1. CASE UNCHANGED <<next, cost>>
    BY <1>1, <2>1 DEF RestTyped
  <2>2. CASE \E v \in {cands[p], rounds + 1, Blank}, k \in {0, 1} :
               next' = [next EXCEPT ![p] = v] /\ cost' = Charge(k)
    <3> PICK v \in {cands[p], rounds + 1, Blank}, k \in {0, 1} :
               next' = [next EXCEPT ![p] = v] /\ cost' = Charge(k)
      BY <2>2
    <3>1. cands \in [DOMAIN cands -> Versions] /\ next \in [DOMAIN cands -> Versions]
          /\ DOMAIN cands \subseteq Proposers
      BY <1>1, <1>3, CandSetIs DEF RestTyped
    <3>2. v \in Versions
      BY <1>1, <1>3, <3>1, ConfigFacts DEF RestTyped
    <3>3. next' \in [DOMAIN cands -> Versions] /\ DOMAIN next' = DOMAIN cands
      BY <3>1, <3>2
    <3>4. cost' \in Amounts
      BY <1>1, ChargeType DEF RestTyped
    <3> PICK f : f = next'
      OBVIOUS
    <3> QED
      BY <1>3, <3>1, <3>3, <3>4, CandSetIs
  <2> QED
    BY <2>1, <2>2 DEF DebaterEnds
<1>5. RestTyped'
  BY <1>1, <1>2, <1>4, ConfigFixed DEF RestTyped, councilVars, ProgressSet, Amounts
<1>6. Pipe' /\ SnapshotConsistent'
  BY <1>1, <1>2, <1>4, ConfigFixed DEF Pipe, Early, Judged, SnapshotConsistent, councilVars
<1> QED
  BY <1>2, <1>5, <1>6, PipeStep DEF InPipeline

LEMMA DebateResumesStep ==
  ASSUME Inv, UNCHANGED config, DebateResumes
  PROVE  Inv'
<1>1. RestTyped /\ Pipe /\ SnapshotConsistent
  BY InvTypes DEF Inv
<1>2. /\ pc = "debate" /\ pc' = "rerank" /\ judging' = JudgeTasks /\ rounds' = rounds + 1
      /\ conv' \in BOOLEAN /\ cands' = next
      /\ UNCHANGED <<ctx, waiting, good, heard, next, ranking, progress, cost, stages, result>>
  BY DEF DebateResumes
<1>3. /\ DOMAIN next # {} /\ rounds < Rounds /\ Rounds \in Nat
  BY <1>1, <1>2, ConfigFacts DEF Pipe, RestTyped
<1>4. rounds' \in 0 .. Rounds
  BY <1>1, <1>2, <1>3 DEF RestTyped
<1>5. RestTyped'
  BY <1>1, <1>2, <1>4, ConfigFixed DEF RestTyped, ProgressSet, Amounts
<1>6. Pipe' /\ SnapshotConsistent'
  BY <1>1, <1>2, <1>3 DEF Pipe, Early, Judged, SnapshotConsistent
<1> QED
  BY <1>2, <1>5, <1>6, PipeStep DEF InPipeline

LEMMA RerankResumesStep ==
  ASSUME Inv, UNCHANGED config, RerankResumes
  PROVE  Inv'
<1>1. RestTyped /\ Pipe /\ SnapshotConsistent
  BY InvTypes DEF Inv
<1>2. /\ stages = {"triage", "proposers", "ranking"} /\ progress.decision = "council"
      /\ progress.requested = "council" /\ ~progress.degraded /\ DOMAIN cands # {}
      /\ pc = "rerank" /\ UNCHANGED <<ctx, judging, good, next, cands, rounds, conv, cost>>
      /\ heard' = {}
  BY <1>1 DEF Pipe, Early, Judged, RerankResumes
<1> PICK cs \in CandSets : cs = cands
  BY <1>1 DEF RestTyped
<1>3. PICK rk \in Rankings(cs) :
        /\ ranking' = rk
        /\ \/ /\ AnotherRound /\ pc' = "debate" /\ waiting' = DOMAIN cs
              /\ UNCHANGED <<progress, stages, result>>
           \/ /\ progress' = Captures(cs, rk)
              /\ BeforeChairman(cs, rk, stages \union {"debate"})
              /\ UNCHANGED waiting
  BY DEF RerankResumes
<1>4. rk \in RankSet /\ rk.of = cs /\ rk.leader \in DOMAIN cs
  BY <1>1, <1>2, RankingsType DEF RestTyped
<1>5. CASE /\ AnotherRound /\ pc' = "debate" /\ waiting' = DOMAIN cs
           /\ UNCHANGED <<progress, stages, result>>
  <2>1. waiting' \subseteq Proposers
    BY <1>5, CandSetIs
  <2>2. RestTyped'
    BY <1>1, <1>2, <1>3, <1>4, <1>5, <2>1, ConfigFixed DEF RestTyped, ProgressSet, Amounts
  <2>3. DOMAIN next = DOMAIN cands
    BY <1>1, <1>2 DEF Pipe
  <2>4. Pipe'
    BY <1>1, <1>2, <1>5, <2>3, ConfigFixed DEF Pipe, Early, Judged, AnotherRound
  <2>5. SnapshotConsistent'
    BY <1>1, <1>5 DEF SnapshotConsistent
  <2> QED
    BY <1>2, <1>5, <2>2, <2>4, <2>5, PipeStep DEF InPipeline
<1>6. CASE /\ progress' = Captures(cs, rk)
           /\ BeforeChairman(cs, rk, stages \union {"debate"})
           /\ UNCHANGED waiting
  <2>1. progress' \in ProgressSet
    BY <1>1, <1>4, <1>6 DEF RestTyped, ProgressSet, Captures
  <2>2. progress' \in ProgressSet'
    BY <2>1, ConfigFixed DEF ProgressSet
  <2>3. stages' \subseteq StageNames
    BY <1>2, <1>6 DEF BeforeChairman, StageNames
  <2>4. RestTyped'
    BY <1>1, <1>2, <1>3, <1>4, <1>6, <2>2, <2>3, ConfigFixed DEF RestTyped, Amounts
  <2> PICK done : done = stages \union {"debate"}
    OBVIOUS
  <2>5. BeforeChairman(cs, rk, done)
    BY <1>6 DEF BeforeChairman
  <2> QED
    BY <1>2, <1>4, <1>6, <2>4, <2>5, BeforeChairmanStep
<1> QED
  BY <1>3, <1>5, <1>6

-----------------------------------------------------------------------------

\* An exception ends the run with what it has.
LEMMA RaiseStep ==
  ASSUME Inv, UNCHANGED config, Raise, cost' \in Amounts
  PROVE  Inv'
<1>1. RestTyped /\ Pipe /\ SnapshotConsistent
  BY InvTypes DEF Inv
<1>2. /\ pc' = "raised" /\ waiting' = {} /\ judging' = {}
      /\ UNCHANGED <<ctx, good, heard, next, councilVars, progress, stages, result>>
  BY DEF Raise
<1>3. RestTyped'
  BY <1>1, <1>2, ConfigFixed DEF RestTyped, councilVars, ProgressSet, Amounts
<1>4. result' \in ReplySet(stages)'
  BY <1>2, InvTypes, ConfigFixed DEF ReplySet
<1>5. TypeOK'
  BY <1>2, <1>3, <1>4, TypeSplitAfter DEF Pcs
<1>6. Pipe' /\ Told' /\ SnapshotConsistent'
  BY <1>1, <1>2 DEF Pipe, Early, Judged, Told, Ended, SnapshotConsistent
<1> QED
  BY <1>5, <1>6 DEF Inv

LEMMA ChairmanAnswersStep ==
  ASSUME Inv, UNCHANGED config, ChairmanAnswers
  PROVE  Inv'
<1>1. RestTyped /\ Pipe /\ SnapshotConsistent
  BY InvTypes DEF Inv
<1>2. /\ stages \in {{"triage", "proposers", "ranking"}, {"triage", "proposers", "ranking", "debate"}}
      /\ progress.requested = "council"
      /\ UNCHANGED <<ctx, gatherVars, councilVars, good, progress>>
  BY <1>1 DEF Pipe, Early, Judged, ChairmanAnswers, gatherVars
<1>3. PICK v \in {Blank, Draft}, k \in {0, 1} :
        /\ cost' = Charge(k)
        /\ stages' = stages \union {"chairman"}
        /\ Conclude(Reply([by |-> Chair, v |-> v], "council", FALSE, FALSE))
  BY DEF ChairmanAnswers
<1>4. cost' \in Amounts
  BY <1>1, <1>3, ChargeType DEF RestTyped
<1>5. RestTyped'
  BY <1>1, <1>2, <1>3, <1>4, FrameTyped DEF RestTyped, StageNames
<1> PICK final \in Texts : final = [by |-> Chair, v |-> v] /\ final.by = Chair
  BY <1>1, AuthorTexts DEF RestTyped
<1> PICK r : r = Reply(final, "council", FALSE, FALSE)
  OBVIOUS
<1>6. Conclude(r)
  BY <1>3 DEF Conclude, Settle
<1>7. /\ \A st : r \in ReplySet(st)
      /\ r.final = final /\ r.decision = "council" /\ ~r.degraded /\ ~r.partial
  BY <1>1, <1>2, CostAssumption DEF RestTyped, Reply, ReplySet, ProgressSet, Decisions, Amounts
<1>8. Fit(r, stages', progress'.requested, progress'.cands, good')
  BY <1>2, <1>3, <1>7 DEF Fit, Story, OwnWords, Survivor, Frank
<1>9. SnapshotConsistent'
  BY <1>1, <1>2 DEF SnapshotConsistent
<1> QED
  BY <1>1, <1>5, <1>6, <1>8, <1>9, ConcludeStep DEF RestTyped

LEMMA ChairmanInvalidStep ==
  ASSUME Inv, UNCHANGED config, ChairmanInvalid
  PROVE  Inv'
<1>1. RestTyped /\ Pipe /\ SnapshotConsistent
  BY InvTypes DEF Inv
<1>2. cost' \in Amounts
  BY <1>1, ChargeType DEF RestTyped, ChairmanInvalid
<1>3. CASE /\ pc = "chairman" /\ pc' = "repair"
           /\ UNCHANGED <<ctx, gatherVars, councilVars, progress, stages, result>>
  <2>1. RestTyped'
    BY <1>1, <1>2, <1>3, FrameTyped DEF RestTyped
  <2>2. Pipe' /\ SnapshotConsistent'
    BY <1>1, <1>3 DEF Pipe, Early, Judged, SnapshotConsistent
  <2> QED
    BY <1>3, <2>1, <2>2, PipeStep DEF InPipeline
<1>4. CASE Raise
  BY <1>2, <1>4, RaiseStep
<1> QED
  BY <1>3, <1>4 DEF ChairmanInvalid

LEMMA CrashStep ==
  ASSUME Inv, UNCHANGED config, Crash
  PROVE  Inv'
  BY InvTypes, ChargeType, RaiseStep DEF Crash, RestTyped

\* What a timeout falls back on is a text of the council, or nothing.
LEMMA CapturedOwn ==
  ASSUME Inv
  PROVE  Captured \in Texts /\ OwnWords(Captured, progress.cands)
<1>1. RestTyped /\ SnapshotConsistent /\ progress.cands \in CandSets
  BY InvTypes DEF Inv, RestTyped, ProgressSet
<1>2. CASE progress.cands = NoCands
  BY <1>1, <1>2, AuthorTexts DEF Captured, OwnWords, RestTyped
<1>3. CASE progress.cands # NoCands
  <2>1. DOMAIN progress.cands # {} /\ DOMAIN progress.cands \subseteq Proposers
    BY <1>1, <1>3, NoCandsIs, CandSetIs
  <2>2. Best(DOMAIN progress.cands) \in DOMAIN progress.cands
    BY <1>1, <2>1, BestIsFirst DEF RestTyped
  <2>3. progress.ranking # NoRanking => progress.ranking.leader \in DOMAIN progress.cands
    BY <1>1 DEF SnapshotConsistent
  <2>4. \E p \in DOMAIN progress.cands : Captured = TextOf(progress.cands, p)
    BY <1>3, <2>2, <2>3 DEF Captured
  <2> QED
    BY <1>1, <2>4, CandTextType DEF OwnWords
<1> QED
  BY <1>2, <1>3

\* The calls in flight are finitely many.
LEMMA InFlightNat ==
  ASSUME TypeOK
  PROVE  InFlight \in Nat
<1>1. IsFiniteSet(waiting) /\ IsFiniteSet(Proposers)
  BY ConfigFacts, FS_Subset DEF TypeOK
<1>2. IsFiniteSet(JudgeTasks)
  <2>1. (IF Orderings > 2 THEN Orderings ELSE 2) \in Int
    BY ConfigFacts DEF TypeOK
  <2>2. IsFiniteSet(1 .. IF Orderings > 2 THEN Orderings ELSE 2)
    BY <2>1, FS_Interval
  <2> QED
    BY <2>2, CouncilAssumption, FS_Product DEF JudgeTasks
<1>3. IsFiniteSet(judging)
  BY <1>2, FS_Subset DEF TypeOK
<1>4. Cardinality(waiting) \in Nat /\ Cardinality(judging) \in Nat
  BY <1>1, <1>3, FS_CardinalityType
<1> QED
  BY <1>4 DEF InFlight

LEMMA TimeoutStep ==
  ASSUME Inv, UNCHANGED config, Timeout
  PROVE  Inv'
<1>1. RestTyped /\ Pipe /\ SnapshotConsistent /\ TypeOK
  BY InvTypes DEF Inv
<1>2. /\ stages' = stages \union {"timeout"} /\ waiting' = {} /\ judging' = {}
      /\ UNCHANGED <<ctx, good, heard, next, councilVars, progress>>
      /\ pc \in InPipeline
  BY DEF Timeout
<1>3. PICK k \in 0 .. InFlight : cost' = Charge(k)
  BY DEF Timeout
<1>4. cost' \in Amounts
  BY <1>1, <1>3, InFlightNat, ChargeType DEF RestTyped
<1>5. RestTyped'
  BY <1>1, <1>2, <1>4, ConfigFixed DEF RestTyped, councilVars, ProgressSet, Amounts, StageNames
<1>6. /\ ~progress.degraded /\ progress.decision \in Decisions
      /\ "chairman" \notin stages /\ "budget_capped" \notin stages
      /\ "debate" \in stages => "ranking" \in stages
  BY <1>1, <1>2 DEF RestTyped, ProgressSet, Pipe, Early, Judged, InPipeline
<1> PICK final \in Texts : final = Captured /\ OwnWords(final, progress.cands)
  BY CapturedOwn
<1> PICK r : r = Reply(final, progress.decision, progress.degraded, TRUE)
  OBVIOUS
<1>7. Conclude(r)
  BY DEF Timeout, Conclude, Settle
<1>8. /\ \A st : r \in ReplySet(st)
      /\ r.final = final /\ ~r.degraded /\ r.partial
  BY <1>1, <1>2, <1>6, CostAssumption DEF RestTyped, Reply, ReplySet, ProgressSet, Amounts
<1>9. Fit(r, stages', progress'.requested, progress'.cands, good')
  BY <1>2, <1>6, <1>8 DEF Fit, Story, Survivor, Frank
<1>10. SnapshotConsistent'
  BY <1>1, <1>2 DEF SnapshotConsistent
<1> QED
  BY <1>1, <1>5, <1>7, <1>9, <1>10, ConcludeStep DEF RestTyped

\* The hook's own text, or the one it was given; what fitted the run still does.
LEMMA GuardrailReturnsStep ==
  ASSUME Inv, UNCHANGED config, GuardrailReturns
  PROVE  Inv'
<1>1. RestTyped /\ Told /\ SnapshotConsistent /\ result \in ReplySet(stages)
  BY InvTypes DEF Inv
<1>2. /\ pc = "guardrail" /\ stages' = stages \union {"guardrail"}
      /\ UNCHANGED <<ctx, gatherVars, councilVars, good, cost, progress>>
  BY DEF GuardrailReturns, gatherVars
<1>3. HasGuardrail /\ Fit(result, stages, progress.requested, progress.cands, good)
  BY <1>1, <1>2 DEF Told
<1>4. RestTyped'
  BY <1>1, <1>2, FrameTyped DEF RestTyped, StageNames
<1>5. PICK final \in {result.final, [by |-> Hook, v |-> Draft]} : Settle([result EXCEPT !.final = final])
  BY DEF GuardrailReturns
<1>6. final \in Texts /\ (OwnWords(final, progress.cands) \/ final.by = Hook)
  BY <1>1, <1>3, <1>5, AuthorTexts DEF RestTyped, ReplySet, Fit
<1> PICK r : r = [result EXCEPT !.final = final]
  OBVIOUS
<1>7. Settle(r)
  BY <1>5 DEF Settle
<1>8. /\ r \in ReplySet(stages') /\ r.final = final /\ r.decision = result.decision
      /\ r.degraded = result.degraded /\ r.partial = result.partial
  BY <1>1, <1>2, <1>6 DEF ReplySet
<1>9. Story(r, stages') /\ Frank(r, progress'.requested, stages')
  BY <1>2, <1>3, <1>8 DEF Fit, Story, Frank
<1>10. cost' \in Amounts
  BY <1>1, <1>2 DEF RestTyped
<1>11. OwnWords(r.final, progress'.cands) \/ r.final.by = Hook
  BY <1>2, <1>6, <1>8
<1>12. pc' \in {"persist", "done"} /\ result' \in ReplySet(stages') /\ Told'
  BY <1>1, <1>3, <1>7, <1>8, <1>9, <1>10, <1>11, SettleTells DEF RestTyped
<1>13. result' \in ReplySet(stages)'
  BY <1>12, ConfigFixed DEF ReplySet
<1>14. TypeOK'
  BY <1>4, <1>12, <1>13, TypeSplitAfter DEF Pcs
<1>15. Pipe' /\ SnapshotConsistent'
  BY <1>1, <1>2, <1>12 DEF Pipe, Early, Judged, SnapshotConsistent
<1> QED
  BY <1>12, <1>14, <1>15 DEF Inv

LEMMA GuardrailRaisesStep ==
  ASSUME Inv, UNCHANGED config, GuardrailRaises
  PROVE  Inv'
  BY InvTypes, RaiseStep DEF GuardrailRaises, RestTyped

LEMMA PersistedStep ==
  ASSUME Inv, UNCHANGED config, Persisted
  PROVE  Inv'
<1>1. RestTyped /\ Told /\ SnapshotConsistent /\ result \in ReplySet(stages)
  BY InvTypes DEF Inv
<1>2. /\ pc = "persist" /\ pc' = "done"
      /\ UNCHANGED <<ctx, gatherVars, councilVars, good, progress, cost, stages, result>>
  BY DEF Persisted, gatherVars
<1>3. RestTyped'
  BY <1>1, <1>2, FrameTyped DEF RestTyped
<1>4. result' \in ReplySet(stages)'
  BY <1>1, <1>2, ConfigFixed DEF ReplySet
<1>5. TypeOK'
  BY <1>2, <1>3, <1>4, TypeSplitAfter DEF Pcs
<1>6. Pipe' /\ SnapshotConsistent'
  BY <1>1, <1>2 DEF Pipe, Early, Judged, SnapshotConsistent
<1>7. Told'
  BY <1>1, <1>2, ConfigFixed DEF Told, Ended, Story, Survivor, Frank
<1> QED
  BY <1>5, <1>6, <1>7 DEF Inv

LEMMA StutterStep ==
  ASSUME Inv, UNCHANGED vars
  PROVE  Inv'
<1>1. /\ UNCHANGED <<config, pc, ctx, gatherVars, councilVars, good, progress, cost, stages, result>>
  BY DEF vars, state, gatherVars
<1>2. RestTyped /\ Pipe /\ Told /\ SnapshotConsistent /\ result \in ReplySet(stages) /\ pc \in Pcs
  BY InvTypes DEF Inv
<1>3. RestTyped'
  BY <1>1, <1>2, FrameTyped DEF RestTyped
<1>4. result' \in ReplySet(stages)'
  BY <1>1, <1>2, ConfigFixed DEF ReplySet
<1>5. TypeOK'
  BY <1>1, <1>2, <1>3, <1>4, TypeSplitAfter DEF Pcs
<1>6. Pipe' /\ SnapshotConsistent'
  BY <1>1, <1>2, ConfigFixed DEF Pipe, Early, Judged, SnapshotConsistent, gatherVars, councilVars
<1>7. Told'
  BY <1>1, <1>2, ConfigFixed
     DEF Told, Ended, Fit, ReplySet, Story, OwnWords, Survivor, Frank
<1> QED
  BY <1>5, <1>6, <1>7 DEF Inv

LEMMA NextInv == Inv /\ [Next]_vars => Inv'
<1> SUFFICES ASSUME Inv, [Next]_vars PROVE Inv'
  OBVIOUS
<1>1. CASE UNCHANGED vars
  BY <1>1, StutterStep
<1>2. ASSUME Answered, UNCHANGED config PROVE Inv'
  BY <1>2, ClassifiedStep, SoloStep, DegradeEndsStep, ChairmanAnswersStep, ChairmanInvalidStep,
     CrashStep, ProposerEndsStep, DebaterEndsStep, JudgeEndsStep DEF Answered, Replied
<1>3. ASSUME Resumed, UNCHANGED config PROVE Inv'
  BY <1>3, BeginStep, ProposersResumeStep, RankingResumesStep, DebateResumesStep,
     RerankResumesStep DEF Resumed
<1>4. ASSUME Hooks, UNCHANGED config PROVE Inv'
  BY <1>4, GuardrailReturnsStep, GuardrailRaisesStep, PersistedStep DEF Hooks
<1> QED
  BY <1>1, <1>2, <1>3, <1>4, TimeoutStep DEF Next

LEMMA Invariance == Spec => []Inv
  BY InitInv, NextInv, PTL DEF Spec

-----------------------------------------------------------------------------
(* What follows from the invariant.                                          *)

\* Every variable of a run keeps its type, whatever the models answer and whenever the wall
\* clock cancels the pipeline.
THEOREM OrchestratorTypeCorrect == Spec => []TypeOK
<1>1. Inv => TypeOK
  BY DEF Inv
<1> QED
  BY <1>1, Invariance, PTL

\* The ranking a timeout falls back on is one of the very texts captured with it, whenever in
\* a debate the clock strikes.
THEOREM OrchestratorSnapshot == Spec => []SnapshotConsistent
<1>1. Inv => SnapshotConsistent
  BY DEF Inv
<1> QED
  BY <1>1, Invariance, PTL

\* Only the Chairman's synthesis and the hook's rewriting can be called unfaithful.
THEOREM OrchestratorUnfaithful == Spec => []OnlySynthesisUnfaithful
<1>1. Inv => OnlySynthesisUnfaithful
  BY DEF Inv, Told, OnlySynthesisUnfaithful
<1> QED
  BY <1>1, Invariance, PTL

\* The trace a caller is shown and the flags of its answer tell the same story.
THEOREM OrchestratorTraceTells == Spec => []TraceTellsOutcome
<1>1. Inv => TraceTellsOutcome
  BY DEF Inv, Told, Story, TraceTellsOutcome
<1> QED
  BY <1>1, Invariance, PTL

\* Below quorum the first of the survivors answers with the text it already gave.
THEOREM OrchestratorReusesSurvivor == Spec => []DegradeReusesSurvivor
<1>1. Inv => DegradeReusesSurvivor
  BY DraftsIs DEF Inv, Told, Survivor, DegradeReusesSurvivor
<1> QED
  BY <1>1, Invariance, PTL

-----------------------------------------------------------------------------
(* What any step does to the cost, the triage decision and the rounds.       *)

CostKept   == cost' \in cost .. CostCap
RoundsKept == rounds' = rounds
TriageKept ==
  ("triage" \in stages' <=> "triage" \in stages) /\ progress'.requested = progress.requested
TriageNow  == "triage" \notin stages /\ "triage" \in stages' /\ progress'.requested \in Decisions

\* The Chairman is asked only if the budget is not used up.
Affordable == pc # "chairman" /\ pc' = "chairman" => ~OverBudget /\ UNCHANGED <<cost, ctx>>

Usual == CostKept /\ TriageKept /\ RoundsKept /\ Affordable

LEMMA ChargeKept ==
  ASSUME Inv, NEW k \in Nat, cost' = Charge(k) \/ cost' = cost
  PROVE  CostKept
  BY InvTypes, ChargeType, CostAssumption DEF RestTyped, CostKept, Amounts

LEMMA DispatchMoves ==
  ASSUME Inv, pc \in {"start", "triage"}, NEW decision \in Decisions, Dispatch(decision)
  PROVE  TriageNow /\ RoundsKept /\ pc' # "chairman"
<1>1. /\ stages = {} /\ progress \in ProgressSet
  BY InvTypes DEF Inv, RestTyped, Pipe
<1> QED
  BY <1>1 DEF Dispatch, TriageNow, RoundsKept, councilVars, ProgressSet

LEMMA BeforeChairmanMoves ==
  ASSUME NEW cs, NEW rk, NEW done, BeforeChairman(cs, rk, done), UNCHANGED <<cost, ctx>>,
         "triage" \in done
  PROVE  "triage" \in stages' /\ Affordable
<1>1. CASE OverBudget /\ stages' = done \union {"budget_capped"}
           /\ Conclude(Reply(TextOf(cs, rk.leader), "council", TRUE, FALSE))
  BY <1>1 DEF Conclude, Settle, Affordable
<1>2. CASE ~OverBudget /\ stages' = done
  BY <1>2 DEF Affordable
<1> QED
  BY <1>1, <1>2 DEF BeforeChairman

\* The steps of the stages before the ranking, and of the single-model path.
LEMMA EarlyMoves ==
  ASSUME Inv,
         \/ Begin \/ Classified \/ SoloAnswers \/ SoloFails \/ DegradeEnds
         \/ \E p \in Proposers : ProposerEnds(p)
  PROVE  Usual \/ (CostKept /\ TriageNow /\ RoundsKept /\ Affordable)
<1>1. RestTyped /\ Pipe
  BY InvTypes DEF Inv
<1>2. CASE Begin
  <2>1. CASE Ruled /\ Dispatch(Gate(RuledDecision)) /\ UNCHANGED cost
    <3> PICK decision \in Decisions : decision = Gate(RuledDecision)
      BY GateType DEF RuledDecision, Decisions
    <3>1. Dispatch(decision)
      BY <2>1 DEF Dispatch
    <3>2. CostKept
      BY <1>1, <2>1, ChargeKept DEF CostKept
    <3> QED
      BY <1>2, <3>1, <3>2, DispatchMoves DEF Begin, Affordable
  <2>2. CASE pc' = "triage" /\ UNCHANGED <<ctx, gatherVars, councilVars, progress, cost, stages, result>>
    <3>1. CostKept
      BY <2>2, ChargeKept
    <3> QED
      BY <2>2, <3>1 DEF Usual, TriageKept, RoundsKept, Affordable, councilVars
  <2> QED
    BY <1>2, <2>1, <2>2 DEF Begin
<1>3. CASE Classified
  <2>1. PICK class \in Classes, k \in {0, 1} : Dispatch(Gate(ClassRouting[class])) /\ cost' = Charge(k)
    BY <1>3 DEF Classified
  <2> PICK decision \in Decisions : decision = Gate(ClassRouting[class])
    BY GateType, CouncilAssumption
  <2>2. Dispatch(decision)
    BY <2>1 DEF Dispatch
  <2>3. CostKept
    BY <2>1, ChargeKept
  <2> QED
    BY <1>3, <2>2, <2>3, DispatchMoves DEF Classified, Affordable
<1>4. CASE SoloAnswers \/ SoloFails
  <2>1. stages = {"triage"}
    BY <1>1, <1>4 DEF Pipe, SoloAnswers, SoloFails
  <2>2. CostKept
    BY <1>4, ChargeKept DEF SoloAnswers, SoloFails
  <2>3. TriageKept /\ RoundsKept
    BY <1>4, <2>1 DEF SoloAnswers, SoloFails, TriageKept, RoundsKept, councilVars
  <2>4. pc' # "chairman"
    BY <1>4 DEF SoloAnswers, SoloFails, Conclude, Settle
  <2> QED
    BY <2>2, <2>3, <2>4 DEF Usual, Affordable
<1>5. CASE DegradeEnds
  <2>1. stages = {"triage"} /\ progress \in ProgressSet
    BY <1>1, <1>5 DEF Pipe, DegradeEnds, RestTyped
  <2>2. CostKept
    BY <1>5, ChargeKept DEF DegradeEnds
  <2>3. TriageKept /\ RoundsKept
    BY <1>5, <2>1 DEF DegradeEnds, TriageKept, RoundsKept, councilVars, ProgressSet
  <2>4. pc' # "chairman"
    BY <1>5 DEF DegradeEnds, Conclude, Settle
  <2> QED
    BY <2>2, <2>3, <2>4 DEF Usual, Affordable
<1>6. ASSUME NEW p \in Proposers, ProposerEnds(p) PROVE Usual
  <2>1. CostKept
    BY <1>6, ChargeKept DEF ProposerEnds
  <2> QED
    BY <1>6, <2>1 DEF ProposerEnds, Usual, TriageKept, RoundsKept, Affordable, councilVars
<1> QED
  BY <1>2, <1>3, <1>4, <1>5, <1>6

LEMMA RankedMoves ==
  ASSUME Inv, NEW cs, NEW rk, NEW done, Ranked(cs, rk, done), UNCHANGED <<cost, ctx, rounds>>,
         "triage" \in done, "triage" \in stages
  PROVE  Usual
<1>1. progress \in ProgressSet
  BY InvTypes DEF RestTyped
<1>2. progress'.requested = progress.requested
  BY <1>1 DEF Ranked, Captures, ProgressSet
<1>3. "triage" \in stages' /\ Affordable
  <2>1. CASE stages' = done \union {"ranking"} /\ pc' = "debate"
    BY <2>1 DEF Affordable
  <2>2. CASE BeforeChairman(cs, rk, done \union {"ranking"})
    <3> PICK all : all = done \union {"ranking"}
      OBVIOUS
    <3>1. BeforeChairman(cs, rk, all)
      BY <2>2 DEF BeforeChairman
    <3> QED
      BY <3>1, BeforeChairmanMoves
  <2> QED
    BY <2>1, <2>2 DEF Ranked
<1>4. CostKept
  BY ChargeKept
<1> QED
  BY <1>2, <1>3, <1>4 DEF Usual, TriageKept, RoundsKept

LEMMA ProposersResumeMoves ==
  ASSUME Inv, ProposersResume
  PROVE  Usual
<1>1. /\ pc = "proposers" /\ stages = {"triage"} /\ progress \in ProgressSet
      /\ UNCHANGED <<ctx, cost>>
  BY InvTypes DEF Inv, RestTyped, Pipe, ProposersResume
<1>2. CostKept
  BY <1>1, ChargeKept
<1>3. CASE ResumeVoting
  <2>1. TriageKept /\ RoundsKept
    BY <1>1, <1>3 DEF ResumeVoting, TriageKept, RoundsKept, councilVars, ProgressSet
  <2>2. pc' # "chairman"
    BY <1>3 DEF ResumeVoting, Conclude, Settle
  <2> QED
    BY <1>2, <2>1, <2>2 DEF Usual, Affordable
<1>4. CASE ResumeCouncil
  <2>1. CASE /\ pc' = "ranking" /\ progress' = [progress EXCEPT !.cands = Drafts]
             /\ stages' = stages \union {"proposers"} /\ UNCHANGED rounds
    BY <1>1, <1>2, <2>1 DEF Usual, TriageKept, RoundsKept, Affordable, ProgressSet
  <2>2. CASE UNCHANGED rounds /\ \E rk \in Rankings(Drafts) : Ranked(Drafts, rk, stages \union {"proposers"})
    <3> PICK cs : cs = Drafts
      OBVIOUS
    <3> PICK done : done = stages \union {"proposers"}
      OBVIOUS
    <3> PICK rk \in Rankings(cs) : Ranked(cs, rk, done)
      BY <2>2
    <3> QED
      BY <1>1, <2>2, RankedMoves
  <2> QED
    BY <1>4, <2>1, <2>2 DEF ResumeCouncil
<1>5. CASE ResumeDegraded
  <2>1. TriageKept /\ RoundsKept
    BY <1>1, <1>5 DEF ResumeDegraded, TriageKept, RoundsKept, councilVars, ProgressSet
  <2>2. pc' # "chairman"
    BY <1>5 DEF ResumeDegraded, Conclude, Settle
  <2> QED
    BY <1>2, <2>1, <2>2 DEF Usual, Affordable
<1>6. CASE ResumeEmptyHanded
  BY <1>2, <1>6 DEF ResumeEmptyHanded, Usual, TriageKept, RoundsKept, Affordable, councilVars
<1> QED
  BY <1>3, <1>4, <1>5, <1>6 DEF ProposersResume

\* The steps of the ranking and the debate; only a finished round counts.
LEMMA JudgedMoves ==
  ASSUME Inv,
         \/ RankingResumes \/ RerankResumes
         \/ \E p \in Proposers : DebaterEnds(p)
         \/ \E t \in JudgeTasks : JudgeEnds(t)
  PROVE  Usual
<1>1. Pipe /\ progress \in ProgressSet
  BY InvTypes DEF Inv, RestTyped
<1>2. CASE RankingResumes
  <2>1. "triage" \in stages /\ UNCHANGED <<cost, ctx, rounds>>
    BY <1>1, <1>2 DEF RankingResumes, Pipe
  <2> PICK cs, done : cs = cands /\ done = stages
    OBVIOUS
  <2> PICK rk \in Rankings(cs) : Ranked(cs, rk, done)
    BY <1>2 DEF RankingResumes
  <2> QED
    BY <2>1, RankedMoves
<1>3. CASE RerankResumes
  <2>1. "triage" \in stages /\ UNCHANGED <<cost, ctx, rounds>>
    BY <1>1, <1>3 DEF RerankResumes, Pipe
  <2>2. CostKept
    BY <2>1, ChargeKept
  <2> PICK cs, done : cs = cands /\ done = stages \union {"debate"}
    OBVIOUS
  <2>3. PICK rk \in Rankings(cs) :
          \/ pc' = "debate" /\ UNCHANGED <<progress, stages>>
          \/ progress' = Captures(cs, rk) /\ BeforeChairman(cs, rk, done)
    BY <1>3 DEF RerankResumes, BeforeChairman
  <2>4. CASE pc' = "debate" /\ UNCHANGED <<progress, stages>>
    BY <2>1, <2>2, <2>4 DEF Usual, TriageKept, RoundsKept, Affordable
  <2>5. CASE progress' = Captures(cs, rk) /\ BeforeChairman(cs, rk, done)
    <3>1. progress'.requested = progress.requested
      BY <1>1, <2>5 DEF Captures, ProgressSet
    <3>2. "triage" \in stages' /\ Affordable
      BY <2>1, <2>5, BeforeChairmanMoves
    <3> QED
      BY <2>1, <2>2, <3>1, <3>2 DEF Usual, TriageKept, RoundsKept
  <2> QED
    BY <2>3, <2>4, <2>5
<1>4. ASSUME NEW p \in Proposers, DebaterEnds(p) PROVE Usual
  <2>1. CostKept
    BY <1>4, ChargeKept DEF DebaterEnds
  <2> QED
    BY <1>4, <2>1 DEF DebaterEnds, Usual, TriageKept, RoundsKept, Affordable, councilVars
<1>5. ASSUME NEW t \in JudgeTasks, JudgeEnds(t) PROVE Usual
  <2>1. CostKept
    BY <1>5, ChargeKept DEF JudgeEnds
  <2> QED
    BY <1>5, <2>1 DEF JudgeEnds, Usual, TriageKept, RoundsKept, Affordable, councilVars
<1> QED
  BY <1>2, <1>3, <1>4, <1>5

LEMMA DebateResumesMoves ==
  ASSUME Inv, DebateResumes
  PROVE  /\ CostKept /\ TriageKept /\ Affordable
         /\ ~conv /\ rounds' <= Rounds
<1>1. Pipe /\ rounds \in Nat /\ Rounds \in Nat
  BY InvTypes, ConfigFacts DEF Inv, RestTyped
<1>2. CostKept
  BY ChargeKept DEF DebateResumes
<1> QED
  BY <1>1, <1>2 DEF DebateResumes, TriageKept, Affordable, Pipe

\* The Chairman, the clock and the hooks.
LEMMA LateMoves ==
  ASSUME Inv, ChairmanAnswers \/ ChairmanInvalid \/ Crash \/ Timeout \/ Hooks
  PROVE  Usual
<1>1. CASE ChairmanAnswers
  <2>1. CostKept /\ pc # "start" /\ pc \in {"chairman", "repair"}
    BY <1>1, ChargeKept DEF ChairmanAnswers
  <2>2. pc' # "chairman"
    BY <1>1 DEF ChairmanAnswers, Conclude, Settle
  <2> QED
    BY <1>1, <2>1, <2>2 DEF ChairmanAnswers, Usual, TriageKept, RoundsKept, Affordable, councilVars
<1>2. CASE ChairmanInvalid \/ Crash
  <2>1. CostKept
    BY <1>2, ChargeKept DEF ChairmanInvalid, Crash
  <2> QED
    BY <1>2, <2>1
       DEF ChairmanInvalid, Crash, Raise, Usual, TriageKept, RoundsKept, Affordable, councilVars
<1>3. CASE Timeout
  <2>1. PICK k \in 0 .. InFlight : cost' = Charge(k)
    BY <1>3 DEF Timeout
  <2>2. CostKept
    BY <2>1, InFlightNat, InvTypes, ChargeKept
  <2>3. pc' # "chairman"
    BY <1>3 DEF Timeout, Conclude, Settle
  <2> QED
    BY <1>3, <2>2, <2>3 DEF Timeout, Usual, TriageKept, RoundsKept, Affordable, councilVars
<1>4. CASE Hooks
  <2>1. CostKept
    BY <1>4, ChargeKept DEF Hooks, GuardrailReturns, GuardrailRaises, Persisted
  <2>2. pc' # "chairman"
    BY <1>4 DEF Hooks, GuardrailReturns, GuardrailRaises, Persisted, Raise, Settle
  <2> QED
    BY <1>4, <2>1, <2>2
       DEF Hooks, GuardrailReturns, GuardrailRaises, Persisted, Raise,
           Usual, TriageKept, RoundsKept, Affordable, councilVars
<1> QED
  BY <1>1, <1>2, <1>3, <1>4

LEMMA Moves ==
  ASSUME Inv, Next
  PROVE  /\ CostKept /\ Affordable /\ (TriageKept \/ TriageNow)
         /\ RoundsKept \/ (~conv /\ rounds' <= Rounds)
  BY EarlyMoves, ProposersResumeMoves, JudgedMoves, DebateResumesMoves, LateMoves
     DEF Next, Answered, Replied, Resumed, Usual

\* The marks a budget leaves in the trace.
Marks == {"budget_capped", "chairman"}

\* What a step does to them: nothing, as long as no more is charged once there is one ...
Unmarking ==
  /\ stages' \intersect Marks = stages \intersect Marks
  /\ stages \intersect Marks # {} => cost' = cost
  /\ pc' # "repair" /\ (pc' = "chairman" => pc # "chairman")

\* ... or an answer is kept from the Chairman ...
Capping ==
  /\ OverBudget /\ cost' = cost
  /\ stages' \intersect Marks = {"budget_capped"}
  /\ pc' \notin {"chairman", "repair"}

\* ... or the Chairman is asked to repair its reply, or answers, for one more call.
Repairing == pc = "chairman" /\ pc' = "repair" /\ stages' = stages /\ cost' <= cost + 1

Synthesizing ==
  /\ pc \in {"chairman", "repair"} /\ pc' \notin {"chairman", "repair"}
  /\ stages' \intersect Marks = {"chairman"}
  /\ cost' <= cost + 1

Marking == UNCHANGED ctx /\ (Unmarking \/ Capping \/ Repairing \/ Synthesizing)

\* There are no marks while the pipeline works.
LEMMA PipelineUnmarked ==
  ASSUME Inv, pc \in InPipeline \union {"start"}
  PROVE  stages \intersect Marks = {}
  BY DEF Inv, Pipe, InPipeline, Marks

LEMMA OneCallMore ==
  ASSUME Inv, NEW k \in {0, 1}, cost' = Charge(k)
  PROVE  cost' <= cost + 1
  BY InvTypes, ChargeType, CostAssumption DEF RestTyped, Amounts

LEMMA BeforeChairmanMarks ==
  ASSUME NEW cs, NEW rk, NEW done, BeforeChairman(cs, rk, done), UNCHANGED <<cost, ctx>>,
         pc # "chairman", done \intersect Marks = {}, stages \intersect Marks = {}
  PROVE  Marking
<1>1. CASE OverBudget /\ stages' = done \union {"budget_capped"}
           /\ Conclude(Reply(TextOf(cs, rk.leader), "council", TRUE, FALSE))
  <2>1. pc' \notin {"chairman", "repair"}
    BY <1>1 DEF Conclude, Settle
  <2> QED
    BY <1>1, <2>1 DEF Marking, Capping, Marks
<1>2. CASE ~OverBudget /\ stages' = done /\ pc' = "chairman"
  BY <1>2 DEF Marking, Unmarking
<1> QED
  BY <1>1, <1>2 DEF BeforeChairman

LEMMA RankedMarks ==
  ASSUME NEW cs, NEW rk, NEW done, Ranked(cs, rk, done), UNCHANGED <<cost, ctx>>,
         pc # "chairman", done \intersect Marks = {}, stages \intersect Marks = {}
  PROVE  Marking
<1> PICK all : all = done \union {"ranking"}
  OBVIOUS
<1>1. all \intersect Marks = {}
  BY DEF Marks
<1>2. CASE pc' = "debate" /\ stages' = all
  BY <1>1, <1>2 DEF Marking, Unmarking
<1>3. CASE BeforeChairman(cs, rk, all)
  BY <1>1, <1>3, BeforeChairmanMarks
<1> QED
  BY <1>2, <1>3 DEF Ranked, BeforeChairman

\* The stages before the ranking, and the single-model path.
LEMMA EarlyMarks ==
  ASSUME Inv,
         \/ Begin \/ Classified \/ SoloAnswers \/ SoloFails \/ DegradeEnds
         \/ \E p \in Proposers : ProposerEnds(p)
  PROVE  Marking
<1>1. stages \intersect Marks = {}
  BY PipelineUnmarked
     DEF Begin, Classified, SoloAnswers, SoloFails, DegradeEnds, ProposerEnds, InPipeline
<1>2. CASE Begin \/ Classified
  BY <1>1, <1>2 DEF Begin, Classified, Dispatch, Marking, Unmarking, Marks
<1>3. CASE SoloAnswers \/ SoloFails \/ DegradeEnds
  BY <1>1, <1>3
     DEF SoloAnswers, SoloFails, DegradeEnds, Conclude, Settle, Marking, Unmarking, Marks
<1>4. CASE \E p \in Proposers : ProposerEnds(p)
  BY <1>1, <1>4 DEF ProposerEnds, Marking, Unmarking
<1> QED
  BY <1>2, <1>3, <1>4

LEMMA ProposersResumeMarks ==
  ASSUME Inv, ProposersResume
  PROVE  Marking
<1>1. stages \intersect Marks = {} /\ pc = "proposers" /\ UNCHANGED <<ctx, cost>>
  BY PipelineUnmarked DEF ProposersResume, InPipeline
<1>2. CASE ResumeVoting \/ ResumeDegraded
  BY <1>1, <1>2 DEF ResumeVoting, ResumeDegraded, Conclude, Settle, Marking, Unmarking, Marks
<1>3. CASE ResumeEmptyHanded
  BY <1>1, <1>3 DEF ResumeEmptyHanded, Marking, Unmarking
<1>4. CASE ResumeCouncil
  <2> PICK cs, done : cs = Drafts /\ done = stages \union {"proposers"}
    OBVIOUS
  <2>1. done \intersect Marks = {}
    BY <1>1 DEF Marks
  <2>2. CASE pc' = "ranking" /\ stages' = done
    BY <1>1, <2>1, <2>2 DEF Marking, Unmarking
  <2>3. CASE \E rk \in Rankings(cs) : Ranked(cs, rk, done)
    BY <1>1, <2>1, <2>3, RankedMarks
  <2> QED
    BY <1>4, <2>2, <2>3 DEF ResumeCouncil
<1> QED
  BY <1>2, <1>3, <1>4 DEF ProposersResume

\* The ranking and the debate.
LEMMA JudgedMarks ==
  ASSUME Inv,
         \/ RankingResumes \/ DebateResumes \/ RerankResumes
         \/ \E p \in Proposers : DebaterEnds(p)
         \/ \E t \in JudgeTasks : JudgeEnds(t)
  PROVE  Marking
<1>1. stages \intersect Marks = {} /\ pc # "chairman"
  BY PipelineUnmarked
     DEF RankingResumes, DebateResumes, RerankResumes, DebaterEnds, JudgeEnds, InPipeline
<1>2. CASE RankingResumes
  <2> PICK cs, done : cs = cands /\ done = stages
    OBVIOUS
  <2> PICK rk \in Rankings(cs) : Ranked(cs, rk, done)
    BY <1>2 DEF RankingResumes
  <2>1. UNCHANGED <<cost, ctx>>
    BY <1>2 DEF RankingResumes
  <2> QED
    BY <1>1, <2>1, RankedMarks
<1>3. CASE RerankResumes
  <2> PICK cs, done : cs = cands /\ done = stages \union {"debate"}
    OBVIOUS
  <2>1. done \intersect Marks = {} /\ UNCHANGED <<cost, ctx>>
    BY <1>1, <1>3 DEF Marks, RerankResumes
  <2>2. PICK rk \in Rankings(cs) :
          \/ pc' = "debate" /\ UNCHANGED stages
          \/ BeforeChairman(cs, rk, done)
    BY <1>3 DEF RerankResumes, BeforeChairman
  <2>3. CASE pc' = "debate" /\ UNCHANGED stages
    BY <1>1, <2>1, <2>3 DEF Marking, Unmarking
  <2>4. CASE BeforeChairman(cs, rk, done)
    BY <1>1, <2>1, <2>4, BeforeChairmanMarks
  <2> QED
    BY <2>2, <2>3, <2>4
<1>4. CASE DebateResumes
  BY <1>1, <1>4 DEF DebateResumes, Marking, Unmarking
<1>5. CASE \E p \in Proposers : DebaterEnds(p)
  BY <1>1, <1>5 DEF DebaterEnds, Marking, Unmarking
<1>6. CASE \E t \in JudgeTasks : JudgeEnds(t)
  BY <1>1, <1>6 DEF JudgeEnds, Marking, Unmarking
<1> QED
  BY <1>2, <1>3, <1>4, <1>5, <1>6

\* The Chairman, the clock and the hooks.
LEMMA LateMarks ==
  ASSUME Inv, ChairmanAnswers \/ ChairmanInvalid \/ Crash \/ Timeout \/ Hooks
  PROVE  Marking
<1>1. ASSUME pc \in InPipeline PROVE stages \intersect Marks = {}
  BY <1>1, PipelineUnmarked
<1>2. CASE ChairmanAnswers
  <2>1. pc \in {"chairman", "repair"} /\ stages' = stages \union {"chairman"} /\ UNCHANGED ctx
    BY <1>2 DEF ChairmanAnswers
  <2>2. pc' \notin {"chairman", "repair"}
    BY <1>2 DEF ChairmanAnswers, Conclude, Settle
  <2>3. cost' <= cost + 1
    BY <1>2, OneCallMore DEF ChairmanAnswers
  <2> QED
    BY <1>1, <2>1, <2>2, <2>3 DEF Marking, Synthesizing, Marks, InPipeline
<1>3. CASE ChairmanInvalid
  <2>1. cost' <= cost + 1
    BY <1>3, OneCallMore DEF ChairmanInvalid
  <2> QED
    BY <1>1, <1>3, <2>1 DEF ChairmanInvalid, Raise, Marking, Unmarking, Repairing, InPipeline
<1>4. CASE Crash
  BY <1>1, <1>4 DEF Crash, Raise, Marking, Unmarking, InPipeline
<1>5. CASE Timeout
  BY <1>1, <1>5 DEF Timeout, Conclude, Settle, Marking, Unmarking, Marks
<1>6. CASE Hooks
  BY <1>6 DEF Hooks, GuardrailReturns, GuardrailRaises, Persisted, Settle, Raise,
     Marking, Unmarking, Marks
<1> QED
  BY <1>2, <1>3, <1>4, <1>5, <1>6

\* What the budget allows at the Chairman's two awaits, and what the marks say of it.
Within ==
  /\ pc = "chairman" /\ ctx.budget # NoLimit => cost < ctx.budget
  /\ pc = "repair" /\ ctx.budget # NoLimit => cost <= ctx.budget
  /\ "budget_capped" \in stages => ctx.budget # NoLimit /\ cost >= ctx.budget
  /\ "chairman" \in stages /\ ctx.budget # NoLimit => cost <= ctx.budget + 1

LEMMA WithinStep ==
  ASSUME Inv, Within, Next
  PROVE  Within'
<1>1. Marking /\ CostKept /\ Affordable
  BY Moves, EarlyMarks, ProposersResumeMarks, JudgedMarks, LateMarks
     DEF Next, Answered, Replied, Resumed
<1>2. /\ cost \in Nat /\ cost' \in Nat /\ (ctx.budget # NoLimit => ctx.budget \in Nat)
      /\ UNCHANGED ctx
  BY <1>1, InvTypes, ContextsAssumption, CostAssumption DEF RestTyped, CostKept, Amounts, Marking
<1>3. pc' = "chairman" /\ ctx.budget # NoLimit /\ pc # "chairman" => cost' < ctx.budget
  BY <1>1, <1>2 DEF Affordable, OverBudget
<1>4. CASE Unmarking
  BY <1>2, <1>3, <1>4 DEF Unmarking, Within, Marks
<1>5. CASE Capping
  BY <1>2, <1>5 DEF Capping, Within, Marks, OverBudget
<1>6. CASE Repairing
  BY <1>2, <1>6, PipelineUnmarked DEF Repairing, Within, Marks, InPipeline
<1>7. CASE Synthesizing
  BY <1>2, <1>7 DEF Synthesizing, Within, Marks
<1> QED
  BY <1>1, <1>4, <1>5, <1>6, <1>7 DEF Marking

\* The answer is kept from the Chairman only when the budget is used up, and one the Chairman
\* wrote costs its repair more than the budget at most, however much the debate cost.
THEOREM OrchestratorSynthesisWithinBudget == Spec => []SynthesisWithinBudget
<1>1. Init => Within
  BY DEF Init, Within
<1>2. Inv /\ Within /\ [Next]_vars => Within'
  <2>1. ASSUME Within, UNCHANGED vars PROVE Within'
    BY <2>1 DEF vars, state, Within
  <2> QED
    BY <2>1, WithinStep
<1>3. Inv /\ Within => SynthesisWithinBudget
  <2> SUFFICES ASSUME Inv, Within, Ended PROVE SynthesisWithinBudget
    BY DEF SynthesisWithinBudget
  <2>1. result.stages \subseteq stages /\ result.cost = cost
    BY InvTypes DEF Inv, Told, ReplySet
  <2> QED
    BY <2>1 DEF Within, SynthesisWithinBudget
<1> QED
  BY <1>1, <1>2, <1>3, Invariance, PTL DEF Spec

\* No round of debate begins after one that changed nothing, nor after the last one allowed.
THEOREM OrchestratorDebateStops == Spec => DebateStops
<1>1. Inv /\ [Next]_vars => [rounds' # rounds => ~conv /\ rounds' <= Rounds]_vars
  BY Moves DEF RoundsKept
<1> QED
  BY <1>1, Invariance, PTL DEF Spec, DebateStops

-----------------------------------------------------------------------------
(* run implements RunContract.                                               *)

Running == pc \notin {"done", "raised"}

LEMMA NextRuns ==
  ASSUME Next
  PROVE  Running
<1>1. ASSUME Answered PROVE Running
  BY <1>1 DEF Answered, Replied, Classified, SoloAnswers, SoloFails, DegradeEnds, ChairmanAnswers,
     ChairmanInvalid, Crash, ProposerEnds, DebaterEnds, JudgeEnds, Running
<1>2. ASSUME Resumed PROVE Running
  BY <1>2 DEF Resumed, Begin, ProposersResume, RankingResumes, DebateResumes, RerankResumes,
     Running
<1>3. ASSUME Hooks \/ Timeout PROVE Running
  BY <1>3 DEF Hooks, GuardrailReturns, GuardrailRaises, Persisted, Timeout, InPipeline, Running
<1> QED
  BY <1>1, <1>2, <1>3 DEF Next

Asked == IF "triage" \in stages THEN progress.requested ELSE "undecided"

LEMMA AskedRoutes ==
  ASSUME TriageKept \/ TriageNow
  PROVE  Asked' = Asked \/ (Asked = "undecided" /\ Asked' \in Decisions)
  BY DEF TriageKept, TriageNow, Asked

\* What the caller is told when the run is done.
LEMMA DoneAnswers ==
  ASSUME Inv', pc' = "done", NEW r,
         r = [decision |-> result'.decision, degraded |-> result'.degraded,
              partial |-> result'.partial, cost |-> result'.cost]
  PROVE  /\ r \in [decision : Decisions, degraded : BOOLEAN, partial : BOOLEAN, cost : {cost'}]
         /\ r.decision = Asked' \/ r.degraded \/ r.partial
<1>1. /\ result' \in [final : Texts', decision : Decisions, requested : Decisions,
                      degraded : BOOLEAN, partial : BOOLEAN, cost : Amounts,
                      stages : SUBSET stages', unfaithful : BOOLEAN]
      /\ Told'
  BY DEF Inv, TypeOK
<1>2. result'.cost = cost' /\ Frank(result', progress'.requested, stages')
  BY <1>1 DEF Told, Ended
<1>3. r \in [decision : Decisions, degraded : BOOLEAN, partial : BOOLEAN, cost : {cost'}]
  BY <1>1, <1>2
<1>4. r.decision = Asked' \/ r.degraded \/ r.partial
  BY <1>2 DEF Frank, Asked
<1> QED
  BY <1>3, <1>4

LEMMA ContractInit == Init => Contract!Init
  BY DEF Init, Contract!Init, Contract!NoReply

LEMMA ContractStep ==
  ASSUME Inv, Next
  PROVE  Contract!Next
<1>1. Inv' /\ Running /\ CostKept
  BY NextInv, NextRuns, Moves
<1>2. Contract!Route
  BY Moves, AskedRoutes DEF Contract!Route, Asked
<1>3. Contract!Spend
  BY <1>1 DEF Contract!Spend, CostKept
<1>4. CASE pc' = "done"
  <2> PICK r : r = [decision |-> result'.decision, degraded |-> result'.degraded,
                    partial |-> result'.partial, cost |-> result'.cost]
    OBVIOUS
  <2>1. /\ r \in [decision : Decisions, degraded : BOOLEAN, partial : BOOLEAN, cost : {cost'}]
        /\ r.decision = Asked' \/ r.degraded \/ r.partial
    BY <1>1, <1>4, DoneAnswers
  <2>2. Contract!Answer
    BY <1>1, <1>2, <1>3, <1>4, <2>1 DEF Contract!Answer, Contract!Honest, Running, Asked
  <2> QED
    BY <2>2 DEF Contract!Next
<1>5. CASE pc' = "raised"
  <2>1. Contract!Raise
    BY <1>1, <1>2, <1>3, <1>5 DEF Contract!Raise, Running
  <2> QED
    BY <2>1 DEF Contract!Next
<1>6. CASE pc' \notin {"done", "raised"}
  <2>1. Contract!Work
    BY <1>1, <1>2, <1>3, <1>6 DEF Contract!Work, Running
  <2> QED
    BY <2>1 DEF Contract!Next
<1> QED
  BY <1>4, <1>5, <1>6

LEMMA ContractNext == Inv /\ [Next]_vars => [Contract!Next]_Contract!vars
<1>1. ASSUME UNCHANGED vars PROVE UNCHANGED Contract!vars
  BY <1>1 DEF vars, state, Contract!vars
<1> QED
  BY <1>1, ContractStep

\* run implements RunContract: it ends once, money is only spent while it runs, the result
\* reports all of it, and a result that is not what triage asked for says so.
THEOREM OrchestratorImplementsContract == Spec => ImplementsContract
  BY ContractInit, ContractNext, Invariance, PTL DEF Spec, ImplementsContract, Contract!Spec

-----------------------------------------------------------------------------
(* What a council charges without a debate: nothing of Ahead, the calls that  *)
(* may still be made from here, is charged before it is made.                *)

Classifier == IF Ruled THEN 0 ELSE 1
Asks       == Cardinality(JudgeTasks)

\* A classifier call, the proposers, the judges, the Chairman and one repair.
AtMost == Classifier + N + Asks + 2

Ahead ==
  CASE pc = "start"      -> AtMost
    [] pc = "triage"     -> 1 + N + Asks + 2
    [] pc = "single"     -> 1
    [] pc = "proposers"  -> Cardinality(waiting) + Asks + 2
    [] pc = "degrade"    -> 1
    [] pc = "ranking"    -> Cardinality(judging) + 2
    [] pc = "chairman"   -> 2
    [] pc = "repair"     -> 1
    [] OTHER             -> 0

\* Nobody is waited for outside the stage that asked it.
Gathered ==
  /\ pc \notin {"proposers", "debate"} => waiting = {}
  /\ pc \notin {"ranking", "rerank"} => judging = {}

Undebated == next = NoCands
Accounted == Gathered /\ (Undebated => cost + Ahead <= AtMost)

BudgetInv == Inv /\ Accounted

\* What a step charges is no longer ahead of it.
Pays == Ahead' \in Nat /\ \E k \in Nat : cost' <= cost + k /\ Ahead' + k <= Ahead

Kept == Gathered' /\ UNCHANGED ctx /\ (Undebated' => Undebated /\ Pays)

LEMMA Counts ==
  ASSUME Inv
  PROVE  /\ N \in Nat \ {0} /\ Asks \in Nat /\ Classifier \in {0, 1}
         /\ IsFiniteSet(waiting) /\ Cardinality(waiting) \in Nat
         /\ IsFiniteSet(judging) /\ Cardinality(judging) \in Nat
         /\ cost \in Nat /\ Cardinality({}) = 0
<1> DEFINE last == IF Orderings > 2 THEN Orderings ELSE 2
           orderings == 1 .. last
<1>1. IsFiniteSet(orderings)
  <2>1. last \in Int
    BY InvTypes, ConfigFacts
  <2> HIDE DEF last
  <2> QED
    BY <2>1, FS_Interval
<1>2. IsFiniteSet(JudgeTasks)
  <2> HIDE DEF orderings
  <2>1. IsFiniteSet(Judges \X orderings)
    BY <1>1, CouncilAssumption, FS_Product
  <2> QED
    BY <2>1 DEF JudgeTasks, orderings
<1>3. IsFiniteSet(waiting) /\ IsFiniteSet(judging)
  BY <1>2, InvTypes, ConfigFacts, FS_Subset DEF RestTyped
<1>4. /\ Asks \in Nat /\ Cardinality(waiting) \in Nat /\ Cardinality(judging) \in Nat
      /\ Cardinality({}) = 0
  BY <1>2, <1>3, FS_CardinalityType, FS_EmptySet DEF Asks
<1>5. cost \in Nat /\ Classifier \in {0, 1}
  BY InvTypes, CostAssumption DEF RestTyped, Amounts, Classifier
<1> QED
  BY <1>3, <1>4, <1>5, InvTypes, ConfigFacts

LEMMA AheadIs ==
  ASSUME Inv
  PROVE  Ahead \in Nat
  BY Counts DEF Ahead, AtMost

LEMMA AsksFixed == UNCHANGED config => Asks' = Asks
  BY ConfigFixed DEF Asks

LEMMA Balance ==
  ASSUME NEW spent \in Nat, NEW ahead \in Nat, NEW most \in Nat, spent + ahead <= most,
         NEW k \in Nat, NEW spentNext \in Nat, spentNext <= spent + k,
         NEW aheadNext \in Nat, aheadNext + k <= ahead
  PROVE  spentNext + aheadNext <= most
  OBVIOUS

\* A step that keeps what is ahead in step with what it charges keeps the account.
LEMMA KeptAccounted ==
  ASSUME BudgetInv, UNCHANGED config, Inv', Kept
  PROVE  Accounted'
<1>1. AtMost' = AtMost
  BY DEF Kept, AtMost, Classifier, Ruled, N, Asks, JudgeTasks, Orderings
<1>2. ASSUME Undebated' PROVE cost' + Ahead' <= AtMost'
  <2>1. cost + Ahead <= AtMost /\ Ahead \in Nat /\ cost \in Nat /\ AtMost \in Nat
    BY <1>2, AheadIs, Counts DEF BudgetInv, Accounted, Kept, AtMost
  <2>2. PICK k \in Nat : cost' <= cost + k /\ Ahead' + k <= Ahead
    BY <1>2 DEF Kept, Pays
  <2>3. Ahead' \in Nat /\ cost' \in Nat
    BY <1>2, CostAssumption DEF Kept, Pays, Inv, TypeOK, Amounts
  <2> QED
    BY <1>1, <2>1, <2>2, <2>3, Balance
<1> QED
  BY <1>2 DEF Accounted, Kept

\* A step that charges k and ends the pipeline.
LEMMA EndKept ==
  ASSUME BudgetInv, pc' \in {"guardrail", "persist", "done", "raised"},
         waiting' = {}, judging' = {}, UNCHANGED <<ctx, next>>,
         NEW k \in Nat, Undebated => k <= Ahead, cost' = Charge(k) \/ (cost' = cost)
  PROVE  Kept
<1>1. Ahead' = 0 /\ Gathered'
  BY DEF Ahead, Gathered
<1>2. cost' <= cost + k
  BY ChargeType, InvTypes, Counts DEF BudgetInv, RestTyped
<1> QED
  BY <1>1, <1>2 DEF Kept, Pays, Undebated

LEMMA DispatchKept ==
  ASSUME BudgetInv, pc \in {"start", "triage"}, NEW decision, Dispatch(decision), NEW k \in Nat,
         k <= (IF pc = "triage" THEN 1 ELSE 0), cost' <= cost + k, UNCHANGED config
  PROVE  Kept
<1>1. /\ N \in Nat \ {0} /\ Asks \in Nat /\ Classifier \in {0, 1}
      /\ waiting = {} /\ judging = {} /\ Cardinality(Proposers) = N
  BY Counts, InvTypes, ConfigFacts DEF BudgetInv, Accounted, Gathered
<1>2. Ahead \in Nat /\ Ahead >= k + N + Asks + 2
  BY <1>1 DEF Ahead, AtMost
<1>3. UNCHANGED <<ctx, judging, next>>
  BY DEF Dispatch
<1>4. CASE pc' = "single" /\ UNCHANGED waiting
  <2>1. Ahead' = 1 /\ Gathered'
    BY <1>1, <1>3, <1>4 DEF Ahead, Gathered
  <2> QED
    BY <1>1, <1>2, <1>3, <2>1 DEF Kept, Pays, Undebated
<1>5. CASE pc' = "proposers" /\ waiting' = Proposers
  <2>1. Ahead' = N + Asks + 2
    BY <1>1, <1>5, AsksFixed DEF Ahead
  <2>2. Gathered'
    BY <1>1, <1>3, <1>5 DEF Gathered
  <2> QED
    BY <1>1, <1>2, <1>3, <2>1, <2>2 DEF Kept, Pays, Undebated
<1> QED
  BY <1>4, <1>5 DEF Dispatch

LEMMA ConcludePc ==
  ASSUME NEW r, Conclude(r)
  PROVE  pc' \in {"guardrail", "persist", "done"}
  BY DEF Conclude, Settle

\* The actions that await one call at most.
LEMMA CallsKept ==
  ASSUME BudgetInv, UNCHANGED config,
         \/ Begin \/ Classified \/ SoloAnswers \/ SoloFails \/ DegradeEnds
         \/ ChairmanAnswers \/ ChairmanInvalid \/ Crash
  PROVE  Kept
<1>1. /\ Inv /\ RestTyped /\ Gathered /\ 1 \in Nat /\ 0 \in Nat
      /\ cost \in Nat /\ N \in Nat /\ Asks \in Nat /\ Classifier \in {0, 1}
  BY InvTypes, Counts DEF BudgetInv, Accounted
<1>2. CASE Begin
  <2>1. CASE Ruled /\ Dispatch(Gate(RuledDecision)) /\ UNCHANGED cost
    BY <1>1, <1>2, <2>1, DispatchKept DEF Begin
  <2>2. CASE /\ ~Ruled /\ pc' = "triage"
             /\ UNCHANGED <<ctx, gatherVars, councilVars, progress, cost, stages, result>>
    <3>1. Ahead = 1 + N + Asks + 2
      BY <1>2, <2>2 DEF Begin, Ahead, AtMost, Classifier
    <3>2. Ahead' = 1 + N + Asks + 2
      BY <2>2, ConfigFixed, AsksFixed DEF Ahead, N
    <3>3. Gathered' /\ UNCHANGED <<ctx, next, cost>>
      BY <1>1, <1>2, <2>2 DEF Begin, Gathered, gatherVars
    <3> QED
      BY <1>1, <3>1, <3>2, <3>3 DEF Kept, Pays, Undebated
  <2> QED
    BY <1>2, <2>1, <2>2 DEF Begin
<1>3. CASE Classified
  <2>1. PICK class \in Classes, k \in {0, 1} :
          Dispatch(Gate(ClassRouting[class])) /\ cost' = Charge(k)
    BY <1>3 DEF Classified
  <2>2. k \in Nat /\ cost' <= cost + k
    BY <1>1, <2>1, ChargeType DEF RestTyped
  <2>3. pc = "triage"
    BY <1>3 DEF Classified
  <2> QED
    BY <2>1, <2>2, <2>3, DispatchKept
<1>4. CASE SoloAnswers \/ SoloFails \/ DegradeEnds \/ ChairmanAnswers \/ Crash
  <2>1. /\ pc \in {"triage", "single", "degrade", "chairman", "repair"}
        /\ waiting = {} /\ judging = {} /\ UNCHANGED <<ctx, next>>
        /\ waiting' = {} /\ judging' = {}
        /\ pc' \in {"guardrail", "persist", "done", "raised"}
    BY <1>1, <1>4, ConcludePc DEF SoloAnswers, SoloFails, DegradeEnds, ChairmanAnswers, Crash, Raise,
       Gathered, gatherVars
  <2>2. \E k \in {0, 1} : cost' = Charge(k) \/ cost' = cost
    BY <1>4 DEF SoloAnswers, SoloFails, DegradeEnds, ChairmanAnswers, Crash
  <2>3. 1 <= Ahead /\ Ahead \in Nat
    BY <1>1, <2>1 DEF Ahead
  <2> QED
    BY <1>1, <2>1, <2>2, <2>3, EndKept
<1>5. CASE ChairmanInvalid
  <2>1. PICK k \in {0, 1} : cost' = Charge(k)
    BY <1>5 DEF ChairmanInvalid
  <2>2. cost' <= cost + k
    BY <1>1, <2>1, ChargeType DEF RestTyped
  <2>3. CASE /\ pc = "chairman" /\ pc' = "repair"
             /\ UNCHANGED <<ctx, gatherVars, councilVars, progress, stages, result>>
    <3>1. Ahead = 2 /\ Ahead' = 1
      BY <2>3 DEF Ahead
    <3>2. Gathered' /\ UNCHANGED <<ctx, next>>
      BY <1>1, <2>3 DEF Gathered, gatherVars
    <3> QED
      BY <1>1, <2>2, <3>1, <3>2 DEF Kept, Pays, Undebated
  <2>4. CASE pc = "repair" /\ Raise
    <3>1. Ahead = 1
      BY <2>4 DEF Ahead
    <3> QED
      BY <2>1, <2>4, <3>1, EndKept DEF Raise
  <2> QED
    BY <1>5, <2>3, <2>4 DEF ChairmanInvalid
<1> QED
  BY <1>2, <1>3, <1>4, <1>5

\* One of the gathered calls ends.
LEMMA ChildKept ==
  ASSUME BudgetInv, UNCHANGED config,
         \/ \E p \in Proposers : ProposerEnds(p) \/ DebaterEnds(p)
         \/ \E t \in JudgeTasks : JudgeEnds(t)
  PROVE  Kept
<1>1. /\ Inv /\ RestTyped /\ Gathered /\ Pipe /\ cost \in Nat /\ Asks \in Nat
      /\ IsFiniteSet(waiting) /\ Cardinality(waiting) \in Nat
      /\ IsFiniteSet(judging) /\ Cardinality(judging) \in Nat
  BY InvTypes, Counts DEF BudgetInv, Accounted, Inv
<1>2. ASSUME NEW p \in Proposers, ProposerEnds(p) PROVE Kept
  <2>1. /\ pc = "proposers" /\ pc' = "proposers" /\ p \in waiting /\ waiting' = waiting \ {p}
        /\ UNCHANGED <<ctx, judging, next>> /\ \E k \in {0, 1} : cost' = Charge(k)
    BY <1>2 DEF ProposerEnds
  <2>2. Cardinality(waiting') = Cardinality(waiting) - 1 /\ Cardinality(waiting') \in Nat
    BY <1>1, <2>1, FS_RemoveElement, FS_CardinalityType
  <2>3. Ahead = Cardinality(waiting) + Asks + 2 /\ Ahead' = Cardinality(waiting') + Asks + 2
    BY <2>1, AsksFixed DEF Ahead
  <2>4. \E k \in {0, 1} : cost' <= cost + k
    BY <1>1, <2>1, ChargeType DEF RestTyped
  <2>5. Gathered'
    BY <1>1, <2>1 DEF Gathered
  <2> QED
    BY <1>1, <2>1, <2>2, <2>3, <2>4, <2>5 DEF Kept, Pays, Undebated
<1>3. ASSUME NEW p \in Proposers, DebaterEnds(p) PROVE Kept
  <2>1. /\ pc = "debate" /\ pc' = "debate" /\ UNCHANGED <<ctx, judging, cands>>
    BY <1>3 DEF DebaterEnds, councilVars
  <2>2. DOMAIN next' = DOMAIN next
    BY <1>3 DEF DebaterEnds
  <2>3. DOMAIN next # {}
    BY <1>1, <2>1 DEF Pipe
  <2>4. ~Undebated'
    BY <2>2, <2>3 DEF Undebated, NoCands
  <2>5. Gathered'
    BY <1>1, <2>1 DEF Gathered
  <2> QED
    BY <2>1, <2>4, <2>5 DEF Kept
<1>4. ASSUME NEW t \in JudgeTasks, JudgeEnds(t) PROVE Kept
  <2>1. /\ pc \in {"ranking", "rerank"} /\ pc' = pc /\ t \in judging /\ judging' = judging \ {t}
        /\ UNCHANGED <<ctx, waiting, next>> /\ \E k \in {0, 1} : cost' = Charge(k)
    BY <1>4 DEF JudgeEnds
  <2>2. Cardinality(judging') = Cardinality(judging) - 1 /\ Cardinality(judging') \in Nat
    BY <1>1, <2>1, FS_RemoveElement, FS_CardinalityType
  <2>3. \E k \in {0, 1} : cost' <= cost + k
    BY <1>1, <2>1, ChargeType DEF RestTyped
  <2>4. Gathered'
    BY <1>1, <2>1 DEF Gathered
  <2>5. CASE pc = "ranking"
    <3>1. Ahead = Cardinality(judging) + 2 /\ Ahead' = Cardinality(judging') + 2
      BY <2>1, <2>5 DEF Ahead
    <3> QED
      BY <1>1, <2>1, <2>2, <2>3, <2>4, <3>1 DEF Kept, Pays, Undebated
  <2>6. CASE pc = "rerank"
    <3>1. ~Undebated'
      BY <1>1, <2>1, <2>6 DEF Pipe, Undebated, NoCands
    <3> QED
      BY <2>1, <2>4, <3>1 DEF Kept
  <2> QED
    BY <2>1, <2>5, <2>6
<1> QED
  BY <1>2, <1>3, <1>4

\* Before the Chairman two calls are ahead at most, and a debate is not counted.
LEMMA ChairmanAhead ==
  ASSUME NEW cs, NEW rk, NEW done, BeforeChairman(cs, rk, done)
  PROVE  /\ pc' \in {"chairman", "guardrail", "persist", "done"}
         /\ Ahead' \in {0, 2}
<1>1. pc' \in {"chairman", "guardrail", "persist", "done"}
  BY ConcludePc DEF BeforeChairman
<1> QED
  BY <1>1 DEF Ahead

LEMMA RankedKept ==
  ASSUME BudgetInv, UNCHANGED <<ctx, judging, cost>>, pc \in {"proposers", "ranking"},
         waiting = {}, judging = {}, NEW cs, DOMAIN cs # {}, NEW rk, NEW done, Ranked(cs, rk, done)
  PROVE  Kept
<1>1. Asks \in Nat /\ cost \in Nat /\ Cardinality({}) = 0
  BY Counts DEF BudgetInv
<1>2. \A n \in {0, 2} : n + 0 <= Ahead
  BY <1>1 DEF Ahead
<1>3. CASE pc' = "debate" /\ next' = cs
  <2>1. ~Undebated' /\ Gathered'
    BY <1>3 DEF Undebated, NoCands, Gathered
  <2> QED
    BY <2>1 DEF Kept
<1>4. CASE BeforeChairman(cs, rk, done \union {"ranking"}) /\ UNCHANGED <<waiting, next>>
  <2>1. Gathered' /\ Ahead' \in {0, 2}
    BY <1>4, ChairmanAhead DEF Gathered
  <2>2. cost' <= cost + 0
    BY <1>1
  <2>3. Ahead' + 0 <= Ahead
    BY <1>2, <2>1
  <2>4. Pays
    BY <2>1, <2>2, <2>3 DEF Pays
  <2> QED
    BY <1>4, <2>1, <2>4 DEF Kept, Undebated
<1> QED
  BY <1>3, <1>4 DEF Ranked

LEMMA ProposersResumeKept ==
  ASSUME BudgetInv, UNCHANGED config, ProposersResume
  PROVE  Kept
<1>1. /\ Inv /\ RestTyped /\ TypeOK /\ Gathered /\ cost \in Nat /\ Asks \in Nat
      /\ Cardinality({}) = 0
  BY InvTypes, Counts DEF BudgetInv, Accounted
<1>2. /\ pc = "proposers" /\ waiting = {} /\ judging = {} /\ UNCHANGED <<ctx, cost>>
  BY <1>1 DEF ProposersResume, Gathered
<1>3. Ahead = Asks + 2
  BY <1>1, <1>2 DEF Ahead
<1>4. CASE ResumeVoting \/ ResumeDegraded
  <2>1. pc' \in {"guardrail", "persist", "done"} /\ UNCHANGED gatherVars
    BY <1>4, ConcludePc DEF ResumeVoting, ResumeDegraded
  <2>2. waiting' = {} /\ judging' = {} /\ UNCHANGED next /\ 0 \in Nat /\ 0 <= Ahead
    BY <1>1, <1>2, <1>3, <2>1 DEF gatherVars
  <2> QED
    BY <1>2, <2>1, <2>2, EndKept
<1>5. CASE Met /\ ResumeCouncil
  <2>1. CASE pc' = "ranking" /\ judging' = JudgeTasks /\ UNCHANGED <<waiting, next>>
    <3>1. Ahead' = Asks + 2
      BY <2>1, ConfigFixed DEF Ahead, Asks
    <3>2. Gathered'
      BY <1>2, <2>1 DEF Gathered
    <3> QED
      BY <1>1, <1>2, <1>3, <2>1, <3>1, <3>2 DEF Kept, Pays, Undebated
  <2>2. CASE (\E rk \in Rankings(Drafts) : Ranked(Drafts, rk, stages \union {"proposers"}))
             /\ UNCHANGED judging
    <3>1. DOMAIN Drafts # {}
      BY <1>1, <1>5, DraftsIs, MetSurvives
    <3> QED
      BY <1>2, <2>2, <3>1, RankedKept
  <2> QED
    BY <1>5, <2>1, <2>2 DEF ResumeCouncil
<1>6. CASE ResumeEmptyHanded
  <2>1. pc' = "degrade" /\ UNCHANGED gatherVars
    BY <1>6 DEF ResumeEmptyHanded
  <2>2. Ahead' = 1 /\ Gathered' /\ UNCHANGED next
    BY <1>2, <2>1 DEF Ahead, Gathered, gatherVars
  <2> QED
    BY <1>1, <1>2, <1>3, <2>2 DEF Kept, Pays, Undebated
<1> QED
  BY <1>4, <1>5, <1>6 DEF ProposersResume

LEMMA JudgedKept ==
  ASSUME BudgetInv, UNCHANGED config, RankingResumes \/ DebateResumes \/ RerankResumes
  PROVE  Kept
<1>1. Inv /\ Gathered /\ Pipe
  BY DEF BudgetInv, Accounted, Inv
<1>2. CASE RankingResumes
  <2>1. /\ pc = "ranking" /\ judging = {} /\ waiting = {} /\ UNCHANGED <<ctx, judging, cost>>
        /\ DOMAIN cands # {}
    BY <1>1, <1>2 DEF RankingResumes, Gathered, Pipe
  <2> PICK cs : cs = cands
    OBVIOUS
  <2>2. \E rk : Ranked(cs, rk, stages)
    BY <1>2 DEF RankingResumes
  <2> QED
    BY <2>1, <2>2, RankedKept
<1>3. CASE DebateResumes \/ RerankResumes
  <2>1. pc \in {"debate", "rerank"} /\ UNCHANGED <<ctx, next>>
    BY <1>3 DEF DebateResumes, RerankResumes
  <2>2. ~Undebated'
    BY <1>1, <2>1 DEF Pipe, Undebated, NoCands
  <2>3. Gathered'
    <3>1. CASE DebateResumes
      BY <3>1 DEF DebateResumes, Gathered
    <3>2. CASE RerankResumes
      <4>1. judging' = {} /\ waiting = {}
        BY <1>1, <3>2 DEF RerankResumes, Gathered
      <4>2. pc' = "debate" \/ UNCHANGED waiting
        BY <3>2 DEF RerankResumes
      <4> QED
        BY <4>1, <4>2 DEF Gathered
    <3> QED
      BY <1>3, <3>1, <3>2
  <2> QED
    BY <2>1, <2>2, <2>3 DEF Kept
<1> QED
  BY <1>2, <1>3

\* The clock may strike with all the calls in flight charged, and none is made afterwards.
LEMMA LateKept ==
  ASSUME BudgetInv, UNCHANGED config, Hooks \/ Timeout
  PROVE  Kept
<1>1. /\ Inv /\ Gathered /\ Pipe /\ Asks \in Nat /\ Cardinality({}) = 0 /\ Ahead \in Nat
      /\ Cardinality(waiting) \in Nat /\ Cardinality(judging) \in Nat
  BY Counts, AheadIs DEF BudgetInv, Accounted, Inv
<1>2. CASE Hooks
  <2>1. /\ pc \in {"guardrail", "persist"} /\ UNCHANGED <<ctx, next, cost>>
        /\ waiting' \in {waiting, {}} /\ judging' \in {judging, {}}
        /\ pc' \in {"guardrail", "persist", "done", "raised"}
    BY <1>2 DEF Hooks, GuardrailReturns, GuardrailRaises, Persisted, Raise, Settle, gatherVars
  <2>2. waiting' = {} /\ judging' = {} /\ 0 \in Nat /\ 0 <= Ahead
    BY <1>1, <2>1 DEF Gathered
  <2> QED
    BY <2>1, <2>2, EndKept
<1>3. CASE Timeout
  <2>1. /\ pc \in InPipeline /\ waiting' = {} /\ judging' = {} /\ UNCHANGED <<ctx, next>>
        /\ pc' \in {"guardrail", "persist", "done"}
    BY <1>3, ConcludePc DEF Timeout
  <2>2. PICK k \in 0 .. InFlight : cost' = Charge(k)
    BY <1>3 DEF Timeout
  <2>3. ASSUME Undebated PROVE InFlight <= Ahead
    <3>1. pc \notin {"debate", "rerank"}
      BY <1>1, <2>3 DEF Pipe, Undebated, NoCands
    <3>2. CASE pc \in {"proposers", "ranking"}
      BY <1>1, <3>2 DEF InFlight, Ahead, Gathered
    <3>3. CASE pc \in {"single", "degrade", "chairman", "repair"}
      BY <1>1, <3>3 DEF InFlight, Ahead
    <3>4. CASE pc = "triage"
      <4>1. N \in Nat
        BY <1>1, Counts
      <4> QED
        BY <1>1, <3>4, <4>1 DEF InFlight, Ahead
    <3> QED
      BY <2>1, <3>1, <3>2, <3>3, <3>4 DEF InPipeline
  <2>4. InFlight \in Nat
    BY <1>1 DEF InFlight
  <2>5. k \in Nat /\ (Undebated => k <= Ahead)
    BY <1>1, <2>3, <2>4
  <2> QED
    BY <2>1, <2>2, <2>5, EndKept
<1> QED
  BY <1>2, <1>3

LEMMA BudgetInduction == BudgetInv /\ [Next]_vars => BudgetInv'
<1> SUFFICES ASSUME BudgetInv, [Next]_vars PROVE BudgetInv'
  OBVIOUS
<1>1. Inv'
  BY NextInv DEF BudgetInv
<1>2. CASE UNCHANGED vars
  <2>1. UNCHANGED <<Gathered, Undebated, Ahead, AtMost, cost>>
    BY <1>2 DEF vars, state, gatherVars, Gathered, Undebated, Ahead, AtMost, Classifier, Ruled,
       Asks, JudgeTasks, Orderings, N
  <2> QED
    BY <1>1, <2>1 DEF BudgetInv, Accounted
<1>3. CASE Next
  <2>1. Kept /\ UNCHANGED config
    BY <1>3, CallsKept, ChildKept, ProposersResumeKept, JudgedKept, LateKept
       DEF Next, Answered, Replied, Resumed
  <2> QED
    BY <1>1, <2>1, KeptAccounted DEF BudgetInv
<1> QED
  BY <1>2, <1>3

\* Without a debate the gate's estimate, a classifier call and one repair are all a council
\* can be charged, with any number of proposers and judges, whichever of them answer twice,
\* fail or are cancelled.
THEOREM OrchestratorWithinEstimate == Spec => []CouncilWithinEstimate
<1>1. Init => BudgetInv
  <2> SUFFICES ASSUME Init PROVE BudgetInv
    OBVIOUS
  <2>1. Inv
    BY InitInv
  <2>2. Gathered /\ cost = 0 /\ Ahead = AtMost /\ AtMost \in Nat
    BY <2>1, Counts DEF Init, Gathered, Ahead, AtMost
  <2> QED
    BY <2>1, <2>2 DEF BudgetInv, Accounted
<1>2. BudgetInv => CouncilWithinEstimate
  <2> SUFFICES ASSUME BudgetInv, next = NoCands, Cardinality(Judges) <= N, Orderings > 1
               PROVE  cost <= Estimate + 1 + Classifier
    BY DEF CouncilWithinEstimate, Classifier
  <2>1. /\ Ahead \in Nat /\ cost \in Nat /\ Asks \in Nat /\ N \in Nat /\ Classifier \in {0, 1}
        /\ Orderings \in Int /\ cost <= AtMost
    <3>1. Ahead \in Nat /\ cost \in Nat /\ cost + Ahead <= AtMost
      BY AheadIs, Counts DEF BudgetInv, Accounted, Undebated
    <3>2. /\ Asks \in Nat /\ N \in Nat /\ Classifier \in {0, 1} /\ Orderings \in Int
      BY Counts, InvTypes, ConfigFacts DEF BudgetInv
    <3> QED
      BY <3>1, <3>2 DEF AtMost
  <2>2. Asks = Cardinality(Judges) * Orderings
    <3>1. JudgeTasks = Judges \X (1 .. Orderings)
      BY <2>1 DEF JudgeTasks
    <3>2. IsFiniteSet(1 .. Orderings) /\ Cardinality(1 .. Orderings) = Orderings
      BY <2>1, FS_Interval
    <3> QED
      BY <3>1, <3>2, CouncilAssumption, FS_Product DEF Asks
  <2>3. Cardinality(Judges) \in Nat
    BY CouncilAssumption, FS_CardinalityType
  <2>4. Asks <= N * Orderings
    BY <2>1, <2>2, <2>3
  <2> QED
    BY <2>1, <2>4 DEF AtMost, Estimate
<1> QED
  BY <1>1, <1>2, BudgetInduction, PTL DEF Spec

=============================================================================
