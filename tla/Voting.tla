------------------------------- MODULE Voting -------------------------------
(***************************************************************************)
(* Stage 2b, council/voting.py: the majority vote over the answers         *)
(* extracted from the proposers' texts, ties broken by the proposers'      *)
(* configured quality order.  No await, so no state: pure operators.       *)
(* A ballot maps each proposer that answered to what extract_answer found  *)
(* in its text.  Proposers are numbered in quality order, 1 the best.      *)
(***************************************************************************)
EXTENDS Naturals, FiniteSets

CONSTANTS
  Answers,   \* what can be extracted, after _normalize
  NoAnswer   \* extract_answer found nothing

ASSUME NoAnswerAssumption == NoAnswer \notin Answers

Best(proposers) == CHOOSE p \in proposers : \A q \in proposers : p <= q

\* supporters[a]
Support(ballot, a) == {p \in DOMAIN ballot : ballot[p] = a}

\* counts' keys: the answers somebody gave
Given(ballot) == {ballot[p] : p \in DOMAIN ballot} \ {NoAnswer}

\* tied: the answers with the highest count
Tied(ballot) ==
  {a \in Given(ballot) : \A b \in Given(ballot) :
     Cardinality(Support(ballot, a)) >= Cardinality(Support(ballot, b))}

\* Seeded fault: the tie goes to the answer of the worst proposer.
BestRank_Worst(ballot, a) ==
  9 - (CHOOSE p \in Support(ballot, a) : \A q \in Support(ballot, a) : p >= q)

\* best_rank(a): every proposer is in the quality order, so the rank always exists, and
\* no two answers share it: the comparison of the answers themselves never decides.
BestRank(ballot, a) == Best(Support(ballot, a))

\* winner, None without any answer
Winner(ballot) ==
  IF Given(ballot) = {} THEN NoAnswer
  ELSE CHOOSE a \in Tied(ballot) : \A b \in Tied(ballot) : BestRank(ballot, a) <= BestRank(ballot, b)

\* _vote_answer (council/orchestrator.py): whose text is the final answer.
Spokesman(ballot) ==
  IF Winner(ballot) = NoAnswer THEN Best(DOMAIN ballot) ELSE Best(Support(ballot, Winner(ballot)))
=============================================================================
