------------------------------- MODULE Ranking -------------------------------
(***************************************************************************)
(* The arithmetic of stage 2, council/ranking.py: from the letters each    *)
(* judge answers to its mean ranks, their Borda consensus and their        *)
(* disagreement.  Pure operators: the calls themselves are Orchestrator's. *)
(*                                                                         *)
(* Candidates are numbered in the order of their names, which is how the   *)
(* code's last tie-break sorts them.  Positions count from 0.  The code's  *)
(* fractions are kept exact: a mean rank is in units of 1/Scale.           *)
(***************************************************************************)
EXTENDS Integers, FiniteSets, SequencesExt

CONSTANTS
  Ids,      \* the candidates
  Letters,  \* _LETTERS, as many as there are candidates
  Judges,
  Passes,   \* the orderings each judge is asked for
  Failed,   \* a judge's call failed, or its reply could not be read; also, no candidate
  Scale,    \* a common multiple of the numbers of orderings a judge may have answered
  Tau       \* a common multiple of the numbers of pairs two judges may both order

ASSUME RankingAssumption ==
  /\ Ids \subseteq Nat /\ IsFiniteSet(Ids) /\ Failed \notin Ids
  /\ Cardinality(Letters) = Cardinality(Ids)
  /\ IsFiniteSet(Judges) /\ IsFiniteSet(Passes)
  /\ Scale \in Nat \ {0}
  /\ \A n \in 1 .. Cardinality(Passes) : Scale % n = 0

Worst == Cardinality(Ids) - 1

-----------------------------------------------------------------------------
(* One reply.                                                                *)

\* What label_candidates may hand out.
Mappings == {m \in [Letters -> Ids] : \A l, k \in Letters : l # k => m[l] # m[k]}

\* Seeded fault: a candidate named twice is kept twice.
Heed_Repeats(seen, id) == IF id = Failed THEN seen ELSE Append(seen, id)

\* What one more letter, or one of all_ids, adds.
Heed(seen, id) == IF id = Failed \/ Contains(seen, id) THEN seen ELSE Append(seen, id)

\* letters_to_ids: letters nobody bears are dropped, candidates not named come last.
LettersToIds(letters, mapping, all) ==
  LET ids == [i \in DOMAIN letters |->
                IF letters[i] \in DOMAIN mapping THEN mapping[letters[i]] ELSE Failed]
  IN FoldLeft(Heed, <<>>, ids \o all)

\* positions
Position(ordering, id) == (CHOOSE i \in DOMAIN ordering : ordering[i] = id) - 1

-----------------------------------------------------------------------------
(* Consensus.  A ballot box said[j][p] holds the ordering judge j gave in    *)
(* pass p, or Failed.                                                        *)

Answered(said, j) == {p \in Passes : said[j][p] # Failed}
Heard(said) == {j \in Judges : Answered(said, j) # {}}

\* Seeded fault: the divisor counts the orderings that failed.
MeanRank_CountsFailed(said, j, id) ==
  SumFunctionOnSet([p \in Answered(said, j) |-> Position(said[j][p], id)], Answered(said, j))
    * (Scale \div Cardinality(Passes))

\* average_positions, over the orderings that arrived
MeanRank(said, j, id) ==
  SumFunctionOnSet([p \in Answered(said, j) |-> Position(said[j][p], id)], Answered(said, j))
    * (Scale \div Cardinality(Answered(said, j)))

\* Seeded fault: a rank is taken for a score.
Borda_Ranks(said, id) == SumFunctionOnSet([j \in Heard(said) |-> MeanRank(said, j, id)], Heard(said))

\* borda: n - 1 points less the mean rank, from every judge heard
Borda(said, id) ==
  SumFunctionOnSet([j \in Heard(said) |-> Worst * Scale - MeanRank(said, j, id)], Heard(said))

\* The key of sorted: the mean rank in it decides nothing the score does not.
Before(said, a, b) == Borda(said, a) > Borda(said, b) \/ (Borda(said, a) = Borda(said, b) /\ a < b)

\* sorted: the keys of two candidates differ, so it has one answer.
Sorted(said) ==
  {s \in SetToSeqs(Ids) : \A i, k \in DOMAIN s : i < k => Before(said, s[i], s[k])}

\* rank: the consensus, or the given order if no judge was heard
Consensus(said, all) == IF Heard(said) = {} THEN all ELSE CHOOSE s \in Sorted(said) : TRUE

-----------------------------------------------------------------------------
(* Disagreement.                                                             *)

Pairs == {pr \in Ids \X Ids : pr[1] < pr[2]}
ASSUME TauAssumption ==
  /\ Tau \in Nat \ {0}
  /\ \A n \in 1 .. Cardinality(Pairs) : Tau % n = 0

\* Whether judges i and j order the pair the same way; 0 if either does not order it.
Sign(n) == IF n > 0 THEN 1 ELSE IF n < 0 THEN -1 ELSE 0
Agreement(said, i, j, pr) ==
  Sign(MeanRank(said, i, pr[1]) - MeanRank(said, i, pr[2]))
    * Sign(MeanRank(said, j, pr[1]) - MeanRank(said, j, pr[2]))

\* Taus are in units of 1/Tau.
\* Seeded fault: pairs that a judge ties count in the divisor.
KendallTau_TiesCount(said, i, j) ==
  (Tau * SumFunctionOnSet([pr \in Pairs |-> Agreement(said, i, j, pr)], Pairs)) \div Cardinality(Pairs)

\* kendall_tau: ties are skipped, and without an ordered pair the judges agree
KendallTau(said, i, j) ==
  LET ordered == {pr \in Pairs : Agreement(said, i, j, pr) # 0}
  IN IF ordered = {} THEN Tau
     ELSE (Tau * SumFunctionOnSet([pr \in ordered |-> Agreement(said, i, j, pr)], ordered))
            \div Cardinality(ordered)

\* disagreement, as parts of 2 * Tau for each pair of judges
JudgePairs(said) == {S \in SUBSET Heard(said) : Cardinality(S) = 2}
TauOf(said, S) == LET i == CHOOSE j \in S : TRUE
                      k == CHOOSE j \in S \ {i} : TRUE IN KendallTau(said, i, k)
Whole(said) == 2 * Tau * Cardinality(JudgePairs(said))
Disagreement(said) ==
  IF Cardinality(Ids) < 2 THEN 0
  ELSE SumFunctionOnSet([S \in JudgePairs(said) |-> Tau - TauOf(said, S)], JudgePairs(said))
=============================================================================
