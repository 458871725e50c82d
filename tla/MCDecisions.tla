---------------------------- MODULE MCDecisions ----------------------------
(* What the service computes from answers, over small but complete inputs:   *)
(* every ballot of a small council, every ballot box of its judges, every    *)
(* reply of one judge, letter by letter, and every eval of a small dataset.  *)
EXTENDS Voting, Ranking, Evals, TLC

CONSTANTS
  Proposers,   \* they vote
  Z,           \* a letter nobody bears
  MaxLetters,  \* bound: letters in a reply
  standard, high_stakes

ASSUME ProposersAssumption == Proposers \subseteq Nat /\ IsFiniteSet(Proposers) /\ Proposers # {}

ASSUME RepliesAssumption == MaxLetters \in Nat

\* The candidates in configured order.
All == <<2, 1, 3>>

VARIABLES
  topic,    \* what this behaviour is about: "vote", "ranking", "reply" or "eval"
  ballot,   \* what each proposer's text answers
  said,     \* a ballot box: what every judge said in every pass
  shown,    \* the mapping the judge of the reply was shown
  letters   \* the letters of that reply

cases == <<topic, ballot, said, shown, letters>>

Orderings == SetToSeqs(Ids)
Blanks    == [p \in Proposers |-> NoAnswer]
Nothing   == [j \in Judges |-> [p \in Passes |-> Failed]]

\* A behaviour that is about something else has an eval that is over before it began.
NoEval == pc = "aborted" /\ dataset = <<>> /\ held = 0 /\ report = <<>> /\ marks = <<>>

CasesInit ==
  /\ letters = <<>>
  /\ \/ /\ topic = "vote"
        /\ ballot \in UNION {[S -> Answers \union {NoAnswer}] : S \in (SUBSET Proposers) \ {{}}}
        /\ said = Nothing /\ shown = Failed /\ NoEval
     \/ /\ topic = "ranking"
        /\ said \in [Judges -> [Passes -> Orderings \union {Failed}]]
        /\ ballot = Blanks /\ shown = Failed /\ NoEval
     \/ /\ topic = "reply"
        /\ shown \in Mappings
        /\ ballot = Blanks /\ said = Nothing /\ NoEval
     \/ /\ topic = "eval"
        /\ Init
        /\ ballot = Blanks /\ said = Nothing /\ shown = Failed

\* A reply goes on with one more letter.
Say(l) ==
  /\ topic = "reply" /\ Len(letters) < MaxLetters
  /\ letters' = Append(letters, l)
  /\ UNCHANGED <<topic, ballot, said, shown, vars>>

Evaluate == topic = "eval" /\ Next /\ UNCHANGED cases

CasesNext ==
  \/ \E l \in Letters \union {Z} : Say(l)
  \/ Evaluate

CasesSpec == CasesInit /\ [][CasesNext]_<<cases, vars>>

-----------------------------------------------------------------------------
(* Votes.                                                                    *)

\* voting.py and _vote_answer: the text delivered is that of the best proposer among those
\* whose answer no other answer outvotes, so a majority wins however its voters are ranked and
\* quality alone breaks a tie; and it argues for the answer that won.
BestOfTheMostVoted ==
  LET Votes(p) == Cardinality(Support(ballot, ballot[p]))
      most     == {p \in DOMAIN ballot :
                     /\ ballot[p] # NoAnswer
                     /\ \A q \in DOMAIN ballot : ballot[q] # NoAnswer => Votes(q) <= Votes(p)}
  IN /\ Spokesman(ballot) = Best(IF most = {} THEN DOMAIN ballot ELSE most)
     /\ ballot[Spokesman(ballot)] = Winner(ballot)

-----------------------------------------------------------------------------
(* Rankings and replies.                                                     *)

\* Where a candidate is first named in the reply.
Named(id) == {i \in DOMAIN letters : letters[i] \in Letters /\ shown[letters[i]] = id}
Mention(id, all) ==
  IF Named(id) = {} THEN MaxLetters + Position(all, id) + 1
  ELSE CHOOSE i \in Named(id) : \A k \in Named(id) : i <= k

\* letters_to_ids makes of any reply, with letters missing, repeated or made up, an ordering
\* of all the candidates: those named by first mention, then the others as configured.
LettersHeeded ==
  topic = "reply" =>
    \A all \in Orderings :
      LET heeded == LettersToIds(letters, shown, all)
      IN /\ heeded \in Orderings
         /\ \A a, b \in Ids :
              Position(heeded, a) < Position(heeded, b) <=> Mention(a, all) < Mention(b, all)

Place(id) == Position(Consensus(said, All), id)

\* The consensus respects unanimity: a candidate that every judge heard prefers to another,
\* over its orderings, comes before it.
Pareto ==
  \A a, b \in Ids :
    Heard(said) # {} /\ (\A j \in Heard(said) : MeanRank(said, j, a) < MeanRank(said, j, b))
      => Place(a) < Place(b)

\* A lost ordering is no vote of its own: the judge counts as if it had repeated the one
\* that arrived.
LostOrderingIsNeutral ==
  \A j \in Judges, p \in Passes :
    said[j][p] = Failed =>
      \A q \in Answered(said, j) :
        Answered(said, j) = {q} /\ Passes = {p, q} =>
          LET twin == [said EXCEPT ![j][p] = said[j][q]]
          IN Consensus(twin, All) = Consensus(said, All) /\ Disagreement(twin) = Disagreement(said)

\* ranking.py, "0 = unanimous, 1 = fully reversed", "ties are skipped": judges that order
\* every pair alike do not disagree at all, and two judges disagree completely exactly when
\* they order some pair in opposite ways and none alike.
Alike(i, j)   == \A pr \in Pairs : Agreement(said, i, j, pr) = 1
Opposed(i, j) ==
  /\ \E pr \in Pairs : Agreement(said, i, j, pr) = -1
  /\ \A pr \in Pairs : Agreement(said, i, j, pr) # 1
DisagreementScale ==
  /\ Disagreement(said) \in 0 .. Whole(said)
  /\ (\A i, j \in Heard(said) : i # j => Alike(i, j)) => Disagreement(said) = 0
  /\ Cardinality(Heard(said)) = 2 =>
       (Disagreement(said) = Whole(said) <=> \E i, j \in Heard(said) : i # j /\ Opposed(i, j))
=============================================================================
