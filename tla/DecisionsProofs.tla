--------------------------- MODULE DecisionsProofs ---------------------------
(***************************************************************************)
(* Theorems of Voting, Ranking and Evals, for any ballots, any judges and  *)
(* orderings and any dataset, as MCDecisions enumerates them: whose text a *)
(* vote delivers, what a consensus respects and a disagreement measures,   *)
(* what is made of a judge's reply, and what an eval's report says.        *)
(***************************************************************************)
EXTENDS MCDecisions, SetLemmas, SequenceTheorems

-----------------------------------------------------------------------------
(* Votes.                                                                    *)

LEMMA BestIs ==
  ASSUME NEW T, T \subseteq Nat, T # {}
  PROVE  /\ Best(T) \in T /\ \A q \in T : Best(T) <= q
         /\ \A p \in T : (\A q \in T : p <= q) => Best(T) = p
<1>1. \E p \in T : \A q \in T : p <= q
  BY LeastExists
<1>2. Best(T) \in T /\ \A q \in T : Best(T) <= q
  BY <1>1 DEF Best
<1>3. \A p, q \in Nat : p <= q /\ q <= p => p = q
  OBVIOUS
<1> QED
  BY <1>2, <1>3

Ballots == UNION {[S -> Answers \union {NoAnswer}] : S \in (SUBSET Proposers) \ {{}}}

LEMMA BallotIs ==
  ASSUME NEW box \in Ballots
  PROVE  /\ DOMAIN box \subseteq Nat /\ DOMAIN box # {} /\ IsFiniteSet(DOMAIN box)
         /\ \A p \in DOMAIN box : box[p] \in Answers \union {NoAnswer}
<1>1. PICK S \in (SUBSET Proposers) \ {{}} : box \in [S -> Answers \union {NoAnswer}]
  BY DEF Ballots
<1>2. IsFiniteSet(S)
  BY FS_Subset, ProposersAssumption
<1> QED
  BY <1>1, <1>2, ProposersAssumption

\* An answer somebody gave has supporters, and as many as there are ballots at most.
LEMMA SupportIs ==
  ASSUME NEW box \in Ballots, NEW a \in Given(box)
  PROVE  /\ a \in Answers /\ a # NoAnswer
         /\ Support(box, a) \subseteq Nat /\ Support(box, a) # {}
         /\ Cardinality(Support(box, a)) \in Nat /\ Cardinality(DOMAIN box) \in Nat
         /\ Cardinality(Support(box, a)) <= Cardinality(DOMAIN box)
<1>1. Support(box, a) \in SUBSET DOMAIN box
  BY DEF Support
<1>2. IsFiniteSet(Support(box, a)) /\ Cardinality(Support(box, a)) <= Cardinality(DOMAIN box)
  BY <1>1, BallotIs, FS_Subset
<1> QED
  BY <1>1, <1>2, BallotIs, FS_CardinalityType DEF Support, Given

\* Some answer has the most votes, and the winner is such an answer.
LEMMA WinnerIs ==
  ASSUME NEW box \in Ballots, Given(box) # {}
  PROVE  /\ Winner(box) \in Tied(box)
         /\ \A a \in Tied(box) : BestRank(box, Winner(box)) <= BestRank(box, a)
<1> DEFINE votes == [a \in Given(box) |-> Cardinality(Support(box, a))]
           rank  == [a \in Tied(box) |-> BestRank(box, a)]
<1>1. votes \in [Given(box) -> Nat] /\ \A a \in Given(box) : votes[a] <= Cardinality(DOMAIN box)
  BY SupportIs
<1>2. Cardinality(DOMAIN box) \in Nat
  BY BallotIs, FS_CardinalityType
<1>3. PICK a \in Given(box) : \A b \in Given(box) : votes[b] <= votes[a]
  <2> HIDE DEF votes
  <2> QED
    BY <1>1, <1>2, GreatestValue
<1>4. \A b \in Given(box) : Cardinality(Support(box, a)) >= Cardinality(Support(box, b))
  BY <1>1, <1>3
<1>5. a \in Tied(box) /\ Tied(box) \subseteq Given(box)
  BY <1>4 DEF Tied
<1>6. \A b \in Tied(box) : BestRank(box, b) \in Nat
  BY <1>5, SupportIs, BestIs DEF BestRank
<1>7. rank \in [Tied(box) -> Nat]
  BY <1>6
<1>8. PICK w \in Tied(box) : \A b \in Tied(box) : rank[w] <= rank[b]
  <2> HIDE DEF rank
  <2> QED
    BY <1>5, <1>7, LeastValue
<1>9. \A b \in Tied(box) : BestRank(box, w) <= BestRank(box, b)
  BY <1>8
<1> QED
  BY <1>9 DEF Winner

LEMMA SpokesmanIs == (ballot \in Ballots) => BestOfTheMostVoted
<1> SUFFICES ASSUME ballot \in Ballots PROVE BestOfTheMostVoted
  OBVIOUS
<1> DEFINE Votes(p) == Cardinality(Support(ballot, ballot[p]))
           most == {p \in DOMAIN ballot :
                      /\ ballot[p] # NoAnswer
                      /\ \A q \in DOMAIN ballot : ballot[q] # NoAnswer => Votes(q) <= Votes(p)}
<1>1. /\ DOMAIN ballot \subseteq Nat /\ DOMAIN ballot # {}
      /\ \A p \in DOMAIN ballot : ballot[p] \in Given(ballot) <=> ballot[p] # NoAnswer
      /\ \A a \in Given(ballot) : \E p \in DOMAIN ballot : a = ballot[p]
  BY BallotIs DEF Given
<1>2. most = {p \in DOMAIN ballot : ballot[p] \in Tied(ballot)}
  <2>1. \A a \in Given(ballot) : Cardinality(Support(ballot, a)) \in Nat
    BY SupportIs
  <2>2. \A m, n \in Nat : m <= n <=> n >= m
    OBVIOUS
  <2> QED
    BY <1>1, <2>1, <2>2 DEF Tied
<1>3. CASE Given(ballot) = {}
  <2>1. Winner(ballot) = NoAnswer /\ most = {} /\ Spokesman(ballot) = Best(DOMAIN ballot)
    BY <1>1, <1>3 DEF Winner, Spokesman
  <2>2. Spokesman(ballot) \in DOMAIN ballot
    BY <1>1, <2>1, BestIs
  <2> QED
    BY <1>1, <1>3, <2>1, <2>2 DEF BestOfTheMostVoted
<1>4. CASE Given(ballot) # {}
  <2> PICK w : w = Winner(ballot)
    OBVIOUS
  <2>1. w \in Tied(ballot) /\ Tied(ballot) \subseteq Given(ballot)
    BY <1>4, WinnerIs DEF Tied
  <2>2. w # NoAnswer /\ Support(ballot, w) \subseteq Nat /\ Support(ballot, w) # {}
    BY <2>1, SupportIs
  <2> PICK s : s = Best(Support(ballot, w))
    OBVIOUS
  <2>3. Spokesman(ballot) = s /\ s \in Support(ballot, w) /\ s = BestRank(ballot, w)
    BY <2>2, BestIs DEF Spokesman, BestRank
  <2>4. s \in DOMAIN ballot /\ ballot[s] = w /\ s \in most
    BY <1>2, <2>1, <2>3 DEF Support
  <2>5. ASSUME NEW q \in most PROVE s <= q
    <3>1. q \in DOMAIN ballot /\ ballot[q] \in Tied(ballot)
      BY <1>2
    <3> PICK r : r = BestRank(ballot, ballot[q])
      OBVIOUS
    <3>2. s <= r
      BY <1>4, <2>3, <3>1, WinnerIs
    <3>3. r \in Nat /\ r <= q
      BY <2>1, <3>1, SupportIs, BestIs DEF BestRank, Support
    <3>4. s \in Nat /\ q \in Nat
      BY <1>1, <2>4, <3>1
    <3> QED
      BY <3>2, <3>3, <3>4
  <2>6. Best(most) = s /\ most # {}
    <3>1. most \subseteq Nat
      BY <1>1
    <3> HIDE DEF most
    <3> QED
      BY <2>4, <2>5, <3>1, BestIs
  <2> QED
    BY <2>3, <2>4, <2>6 DEF BestOfTheMostVoted
<1> QED
  BY <1>3, <1>4

\* voting.py: whatever was answered, the text delivered is that of the best proposer whose
\* answer no other outvotes.
THEOREM DecisionsBestOfTheMostVoted == CasesSpec => []BestOfTheMostVoted
<1>1. CasesInit => ballot \in Ballots
  <2>1. Blanks \in [Proposers -> Answers \union {NoAnswer}] /\ Proposers \in (SUBSET Proposers) \ {{}}
    BY ProposersAssumption DEF Blanks
  <2> QED
    BY <2>1 DEF CasesInit, Ballots
<1>2. ballot \in Ballots /\ [CasesNext]_<<cases, vars>> => (ballot \in Ballots)'
  BY DEF CasesNext, Say, Evaluate, cases, Ballots
<1> QED
  BY <1>1, <1>2, SpokesmanIs, PTL DEF CasesSpec

-----------------------------------------------------------------------------
(* Evals.                                                                    *)

Finished == {"reported", "passed", "failed"}
Marks == [council : Scores, single : Scores]

\* What the scoring of an item does to the report of its class needs the report to be right so
\* far, and what the gate decides outlives the step that decides it.
EvalInv ==
  /\ pc \in {"council", "single", "aborted"} \union Finished
  /\ dataset \in Seq(Classes) /\ marks \in Seq(Marks) /\ held \in Scores
  /\ Len(marks) <= Len(dataset)
  /\ pc \in {"council", "single"} => Len(marks) < Len(dataset)
  /\ ReportOfItems
  /\ pc = "passed" => \A class \in HighValue \intersect DOMAIN report : ~Regressed(class)

LEMMA SumAdd ==
  ASSUME NEW f, NEW g, NEW T, IsFiniteSet(T), NEW x \in T, \A y \in T : g[y] \in Int,
         \A y \in T \ {x} : g[y] = f[y]
  PROVE  SumFunctionOnSet(g, T) = g[x] + SumFunctionOnSet(f, T \ {x})
<1>1. SumFunctionOnSet(g, T) = g[x] + SumFunctionOnSet(g, T \ {x})
  BY SumWithout
<1>2. IsFiniteSet(T \ {x})
  BY FS_Subset
<1>3. SumFunctionOnSet(g, T \ {x}) = SumFunctionOnSet(f, T \ {x})
  BY <1>2, SumSame
<1> QED
  BY <1>1, <1>3

LEMMA ItemsAre ==
  ASSUME EvalInv, NEW class
  PROVE  /\ IsFiniteSet(ItemsOf(class)) /\ Len(marks) \in Nat
         /\ ItemsOf(class) \subseteq 1 .. Len(marks)
         /\ \A i \in 1 .. Len(marks) :
              marks[i] \in Marks /\ Councils[i] = marks[i].council /\ Singles[i] = marks[i].single
<1>1. Len(marks) \in Nat /\ DOMAIN marks = 1 .. Len(marks) /\ \A i \in 1 .. Len(marks) : marks[i] \in Marks
  BY LenProperties, ElementOfSeq DEF EvalInv
<1>2. IsFiniteSet(1 .. Len(marks))
  BY <1>1, FS_Interval
<1>3. ItemsOf(class) \in SUBSET (1 .. Len(marks))
  BY DEF ItemsOf
<1> QED
  BY <1>1, <1>2, <1>3, FS_Subset DEF Councils, Singles

\* The bucket of a class, made when it is first asked for, tells of its items so far.
LEMMA BucketIs ==
  ASSUME EvalInv, NEW class
  PROVE  Bucket(class) = [n |-> Cardinality(ItemsOf(class)),
                          council |-> SumFunctionOnSet(Councils, ItemsOf(class)),
                          single |-> SumFunctionOnSet(Singles, ItemsOf(class))]
<1>1. CASE class \in DOMAIN report
  BY <1>1 DEF EvalInv, ReportOfItems, Bucket
<1>2. CASE class \notin DOMAIN report
  <2>1. ItemsOf(class) = {}
    BY <1>2 DEF EvalInv, ReportOfItems, ItemsOf
  <2>2. Cardinality(ItemsOf(class)) = 0
    BY <2>1, FS_EmptySet
  <2>3. SumFunctionOnSet(Councils, ItemsOf(class)) = 0 /\ SumFunctionOnSet(Singles, ItemsOf(class)) = 0
    BY <2>1, SumEmpty
  <2> QED
    BY <1>2, <2>2, <2>3 DEF Bucket
<1> QED
  BY <1>1, <1>2

LEMMA EvalInit == Init => EvalInv
<1> SUFFICES ASSUME Init PROVE EvalInv
  OBVIOUS
<1>1. PICK n \in 0 .. MaxItems : dataset \in [1 .. n -> Classes]
  BY DEF Init
<1>2. dataset \in Seq(Classes) /\ Len(dataset) = n /\ n \in Nat
  BY <1>1, EvalsAssumption
<1>3. pc = (IF n = 0 THEN "reported" ELSE "council") /\ marks = <<>> /\ held = 0
  BY <1>2, EmptySeq DEF Init
<1>4. marks \in Seq(Marks) /\ Len(marks) = 0 /\ held \in Scores /\ DOMAIN report = {}
  BY <1>3, EvalsAssumption DEF Scores, Init
<1>5. ReportOfItems
  BY <1>2, <1>3, <1>4 DEF ReportOfItems
<1> QED
  BY <1>2, <1>3, <1>4, <1>5 DEF EvalInv, Finished

LEMMA ScoreStep ==
  ASSUME EvalInv, NEW score \in Scores, SingleAnswers(score)
  PROVE  EvalInv'
<1> PICK n : n = Len(marks) + 1
  OBVIOUS
<1> PICK class : class = dataset[n]
  OBVIOUS
<1>1. /\ pc = "single" /\ pc' = IF n < Len(dataset) THEN "council" ELSE "reported"
      /\ report' = [c \in DOMAIN report \union {class} |->
                      IF c = class THEN Added(Bucket(c), held, score) ELSE report[c]]
      /\ marks' = Append(marks, [council |-> held, single |-> score])
      /\ UNCHANGED <<dataset, held>>
  BY DEF SingleAnswers
<1>2. /\ Len(marks) \in Nat /\ n \in Nat \ {0} /\ Len(dataset) \in Nat
      /\ Len(marks) < Len(dataset) /\ n <= Len(dataset)
  BY <1>1, LenProperties DEF EvalInv
<1>3. held \in Scores /\ held \in Int /\ score \in Int /\ [council |-> held, single |-> score] \in Marks
  BY EvalsAssumption DEF EvalInv, Scores, Marks
<1>4. /\ marks' \in Seq(Marks) /\ Len(marks') = n /\ DOMAIN marks' = 1 .. n
      /\ \A i \in 1 .. Len(marks) : marks'[i] = marks[i]
      /\ marks'[n] = [council |-> held, single |-> score]
  BY <1>1, <1>2, <1>3, AppendProperties DEF EvalInv
<1>5. 1 .. n = 1 .. Len(marks) \union {n} /\ n \notin 1 .. Len(marks)
  BY <1>2
<1>6. \A d : ItemsOf(d)' = IF d = class THEN ItemsOf(d) \union {n} ELSE ItemsOf(d)
  BY <1>1, <1>4, <1>5 DEF ItemsOf
<1>7. DOMAIN report' = {dataset'[i] : i \in 1 .. Len(marks')}
  BY <1>1, <1>4, <1>5 DEF EvalInv, ReportOfItems
<1>8. ASSUME NEW d \in DOMAIN report'
      PROVE  report'[d] = [n |-> Cardinality(ItemsOf(d)'),
                           council |-> SumFunctionOnSet(Councils', ItemsOf(d)'),
                           single |-> SumFunctionOnSet(Singles', ItemsOf(d)')]
  <2> PICK f : f = Councils
    OBVIOUS
  <2> PICK g : g = Singles
    OBVIOUS
  <2> PICK f1 : f1 = Councils'
    OBVIOUS
  <2> PICK g1 : g1 = Singles'
    OBVIOUS
  <2> PICK S : S = ItemsOf(d)
    OBVIOUS
  <2>1. /\ IsFiniteSet(S) /\ S \subseteq 1 .. Len(marks) /\ n \notin S
        /\ \A i \in S : f1[i] = f[i] /\ f[i] \in Int /\ g1[i] = g[i] /\ g[i] \in Int
        /\ f1[n] = held /\ g1[n] = score
    <3>1. IsFiniteSet(S) /\ S \subseteq 1 .. Len(marks)
      BY ItemsAre
    <3>2. \A i \in 1 .. Len(marks) : marks[i] \in Marks /\ f[i] = marks[i].council /\ g[i] = marks[i].single
      BY ItemsAre
    <3>3. \A m \in Marks : m.council \in Int /\ m.single \in Int
      BY EvalsAssumption DEF Marks, Scores
    <3>4. \A i \in 1 .. n : f1[i] = marks'[i].council /\ g1[i] = marks'[i].single
      BY <1>4 DEF Councils, Singles
    <3> QED
      <4>1. /\ n \in 1 .. n /\ \A i \in S : i \in 1 .. Len(marks) /\ i \in 1 .. n
            /\ n \notin S
        BY <1>5, <3>1
      <4>2. f1[n] = held /\ g1[n] = score
        BY ONLY <1>4, <3>4, <4>1
      <4>3. \A i \in S : f1[i] = marks[i].council /\ g1[i] = marks[i].single
        BY ONLY <1>4, <3>4, <4>1
      <4> QED
        BY ONLY <3>1, <3>2, <3>3, <4>1, <4>2, <4>3
  <2>2. Bucket(d) = [n |-> Cardinality(S), council |-> SumFunctionOnSet(f, S),
                     single |-> SumFunctionOnSet(g, S)]
    BY BucketIs
  <2>3. CASE d = class
    <3> PICK T : T = S \union {n}
      OBVIOUS
    <3>1. report'[d] = Added(Bucket(d), held, score) /\ ItemsOf(d)' = T
      BY <1>1, <1>6, <2>3
    <3>2. /\ IsFiniteSet(T) /\ n \in T /\ T \ {n} = S /\ Cardinality(T) = Cardinality(S) + 1
          /\ \A i \in T : f1[i] \in Int /\ g1[i] \in Int
      BY <1>3, <2>1, FS_AddElement
    <3>3. SumFunctionOnSet(f1, T) = held + SumFunctionOnSet(f, S)
      <4>1. \A i \in T \ {n} : f1[i] = f[i]
        BY ONLY <2>1, <3>2
      <4>2. IsFiniteSet(T)
        BY <3>2
      <4>3. n \in T
        BY <3>2
      <4>4. \A i \in T : f1[i] \in Int
        BY <3>2
      <4>5. SumFunctionOnSet(f1, T) = f1[n] + SumFunctionOnSet(f, T \ {n})
        BY ONLY <4>1, <4>2, <4>3, <4>4, SumAdd
      <4> QED
        BY ONLY <2>1, <3>2, <4>5
    <3>4. SumFunctionOnSet(g1, T) = score + SumFunctionOnSet(g, S)
      <4>1. \A i \in T \ {n} : g1[i] = g[i]
        BY ONLY <2>1, <3>2
      <4>2. IsFiniteSet(T)
        BY <3>2
      <4>3. n \in T
        BY <3>2
      <4>4. \A i \in T : g1[i] \in Int
        BY <3>2
      <4>5. SumFunctionOnSet(g1, T) = g1[n] + SumFunctionOnSet(g, T \ {n})
        BY ONLY <4>1, <4>2, <4>3, <4>4, SumAdd
      <4> QED
        BY ONLY <2>1, <3>2, <4>5
    <3>5. SumFunctionOnSet(f, S) \in Int /\ SumFunctionOnSet(g, S) \in Int
      BY <2>1, SumTyped
    <3>6. report'[d] = [n |-> Cardinality(T), council |-> SumFunctionOnSet(f, S) + held,
                        single |-> SumFunctionOnSet(g, S) + score]
      BY <2>2, <3>1, <3>2 DEF Added
    <3> QED
      BY <1>3, <3>1, <3>3, <3>4, <3>5, <3>6
  <2>4. CASE d # class
    <3>1. report'[d] = report[d] /\ d \in DOMAIN report /\ ItemsOf(d)' = S
      BY <1>1, <1>6, <2>4
    <3>2. report[d] = Bucket(d)
      BY <3>1 DEF Bucket
    <3>3. SumFunctionOnSet(f1, S) = SumFunctionOnSet(f, S) /\ SumFunctionOnSet(g1, S) = SumFunctionOnSet(g, S)
      BY <2>1, SumSame
    <3> QED
      BY <2>2, <3>1, <3>2, <3>3
  <2> QED
    BY <2>3, <2>4
<1>9. ReportOfItems'
  <2>1. pc' \in {"reported", "passed", "failed"} => Len(marks') = Len(dataset')
    BY <1>1, <1>2, <1>4
  <2> QED
    BY <1>7, <1>8, <2>1 DEF ReportOfItems
<1> QED
  BY <1>1, <1>2, <1>3, <1>4, <1>9 DEF EvalInv, Finished

LEMMA EvalStep == EvalInv /\ [Next]_vars => EvalInv'
<1> SUFFICES ASSUME EvalInv, [Next]_vars PROVE EvalInv'
  OBVIOUS
<1>1. ASSUME UNCHANGED <<dataset, report, marks>>, held' \in Scores,
             pc' \in {"council", "single", "aborted"} \union Finished,
             pc' \in {"council", "single"} => pc \in {"council", "single"},
             pc' \in Finished => pc \in Finished,
             pc' = "passed" => \A class \in HighValue \intersect DOMAIN report : ~Regressed(class)
      PROVE  EvalInv'
  <2>1. ReportOfItems'
    BY <1>1 DEF EvalInv, ReportOfItems, ItemsOf, Councils, Singles, Finished
  <2> QED
    BY <1>1, <2>1 DEF EvalInv, Regressed, Uplift
<1>2. ASSUME NEW score \in Scores, CouncilAnswers(score) PROVE EvalInv'
  BY <1>1, <1>2 DEF CouncilAnswers, EvalInv, Finished
<1>3. CASE RunRaises
  BY <1>1, <1>3 DEF RunRaises, EvalInv, Finished
<1>4. CASE Gate
  BY <1>1, <1>4 DEF Gate, EvalInv, Finished
<1>5. CASE UNCHANGED vars
  BY <1>1, <1>5 DEF vars, EvalInv
<1> QED
  BY <1>2, <1>3, <1>4, <1>5, ScoreStep DEF Next, RunEnds

LEMMA PositiveProduct ==
  ASSUME NEW a \in Int, NEW b \in Int, a > 0, b > 0
  PROVE  a * b > 0
  BY Z3

LEMMA RuleIs == EvalInv => RuleAndGateAgree
<1> SUFFICES ASSUME EvalInv, pc = "passed", MinUplift > 0,
                    NEW class \in HighValue, class \in Overrides
             PROVE  FALSE
  BY DEF RuleAndGateAgree
<1>1. class \in DOMAIN report /\ Uplift(class) <= 0
  BY DEF Overrides
<1>2. ~(Uplift(class) < MinUplift * report[class].n)
  BY <1>1 DEF EvalInv, Regressed
<1>3. /\ report[class].n = Cardinality(ItemsOf(class)) /\ ItemsOf(class) # {}
      /\ report[class].council = SumFunctionOnSet(Councils, ItemsOf(class))
      /\ report[class].single = SumFunctionOnSet(Singles, ItemsOf(class))
  <2>1. report[class] = Bucket(class)
    BY <1>1 DEF Bucket
  <2>2. ItemsOf(class) # {}
    BY <1>1 DEF EvalInv, ReportOfItems, ItemsOf
  <2> QED
    BY <2>1, <2>2, BucketIs
<1>4. report[class].n \in Int /\ report[class].n > 0
  BY <1>3, ItemsAre, FS_CardinalityType, FS_EmptySet
<1>5. MinUplift * report[class].n > 0
  BY <1>4, PositiveProduct, EvalsAssumption
<1>6. Uplift(class) \in Int
  <2>1. \A i \in ItemsOf(class) : Councils[i] \in Int /\ Singles[i] \in Int
    <3>1. \A m \in Marks : m.council \in Int /\ m.single \in Int
      BY EvalsAssumption DEF Marks, Scores
    <3> QED
      BY <3>1, ItemsAre
  <2>2. report[class].council \in Int /\ report[class].single \in Int
    BY <1>3, <2>1, ItemsAre, SumTyped
  <2> QED
    BY <2>2 DEF Uplift
<1>7. MinUplift * report[class].n \in Int
  BY <1>4, EvalsAssumption
<1> QED
  BY <1>1, <1>2, <1>5, <1>6, <1>7

\* The eval, alone or as MCDecisions runs it.
LEMMA EvalInvariance == CasesSpec => []EvalInv
<1>1. CasesInit => EvalInv
  <2>1. NoEval => EvalInv
    <3> SUFFICES ASSUME NoEval PROVE EvalInv
      OBVIOUS
    <3>1. /\ dataset \in Seq(Classes) /\ marks \in Seq(Marks) /\ held \in Scores
          /\ Len(marks) = 0 /\ Len(dataset) = 0 /\ DOMAIN report = {} /\ pc = "aborted"
      BY EvalsAssumption DEF NoEval, Scores
    <3> QED
      BY <3>1 DEF EvalInv, ReportOfItems
  <2> QED
    BY <2>1, EvalInit DEF CasesInit
<1>2. EvalInv /\ [CasesNext]_<<cases, vars>> => EvalInv'
  <2>1. [CasesNext]_<<cases, vars>> => [Next]_vars
    BY DEF CasesNext, Say, Evaluate
  <2> QED
    BY <2>1, EvalStep
<1> QED
  BY <1>1, <1>2, PTL DEF CasesSpec

\* EvalReport: in whatever order a dataset of any length mixes the classes, a bucket tells
\* what the items of its class tell.
THEOREM DecisionsReportOfItems == CasesSpec => []ReportOfItems
<1>1. EvalInv => ReportOfItems
  BY DEF EvalInv
<1> QED
  BY <1>1, EvalInvariance, PTL

\* decision_overrides and assert_no_regression: with a positive min_uplift, no class that the
\* rule would send to the single model passes the gate.
THEOREM DecisionsRuleAndGateAgree == CasesSpec => []RuleAndGateAgree
  BY RuleIs, EvalInvariance, PTL

-----------------------------------------------------------------------------
(* Rankings.                                                                 *)

Boxes == [Judges -> [Passes -> Orderings \union {Failed}]]

\* Every finite set can be sorted by an order.
LEMMA SortExists ==
  ASSUME NEW S, NEW R, Orders(R, S), IsFiniteSet(S)
  PROVE  \E s \in SetToSeqs(S) : \A i, k \in DOMAIN s : i < k => <<s[i], s[k]>> \in R
<1> DEFINE IsSort(s) == \A i, k \in DOMAIN s : i < k => <<s[i], s[k]>> \in R
           Bad == {T \in SUBSET S : ~ \E s \in SetToSeqs(T) : IsSort(s)}
<1> SUFFICES ASSUME Bad # {} PROVE FALSE
  OBVIOUS
<1>1. \A T \in SUBSET S : IsFiniteSet(T) /\ Cardinality(T) \in Nat
  BY FS_Subset, FS_CardinalityType
<1>2. PICK T \in Bad : \A U \in Bad : Cardinality(T) <= Cardinality(U)
  BY <1>1, SmallestExists
<1>3. T # {}
  <2> SUFFICES ASSUME T = {} PROVE FALSE
    OBVIOUS
  <2> DEFINE s == [i \in 1 .. 0 |-> i]
  <2>1. s \in SetToSeqs(T)
    BY FS_EmptySet DEF SetToSeqs
  <2>2. IsSort(s)
    OBVIOUS
  <2> QED
    BY <1>2, <2>1, <2>2
<1>4. PICK m \in T : \A x \in T : x = m \/ <<x, m>> \in R
  BY <1>1, <1>2, <1>3, LastExists
<1> PICK U : U = T \ {m}
  OBVIOUS
<1> PICK n : n = Cardinality(T)
  OBVIOUS
<1>5. n \in Nat \ {0} /\ Cardinality(U) = n - 1 /\ U \in SUBSET S
  BY <1>1, <1>2, <1>4, FS_RemoveElement, FS_CardinalityType
<1>6. U \notin Bad
  <2> HIDE DEF Bad
  <2> QED
    BY <1>2, <1>5
<1>7. PICK u \in SetToSeqs(U) : IsSort(u)
  BY <1>5, <1>6
<1>8. u \in [1 .. (n - 1) -> U] /\ \A i, k \in 1 .. (n - 1) : i # k => u[i] # u[k]
  BY <1>5 DEF SetToSeqs
<1> DEFINE t == [i \in 1 .. n |-> IF i < n THEN u[i] ELSE m]
<1>9. \A i \in 1 .. n : i < n => i \in 1 .. (n - 1)
  BY <1>5
<1>10. t \in SetToSeqs(T)
  <2>1. t \in [1 .. n -> T]
    BY <1>4, <1>8, <1>9
  <2>2. ASSUME NEW i \in 1 .. n, NEW k \in 1 .. n, i # k PROVE t[i] # t[k]
    BY <1>5, <1>8, <1>9, <2>2
  <2> QED
    BY <2>1, <2>2 DEF SetToSeqs
<1>11. ASSUME NEW i \in 1 .. n, NEW k \in 1 .. n, i < k PROVE <<t[i], t[k]>> \in R
  <2>1. i \in 1 .. (n - 1) /\ t[i] = u[i] /\ u[i] \in U
    BY <1>5, <1>8, <1>9, <1>11
  <2>2. CASE k < n
    BY <1>7, <1>8, <1>9, <1>11, <2>1, <2>2
  <2>3. CASE ~(k < n)
    BY <1>4, <2>1, <2>3
  <2> QED
    BY <2>2, <2>3
<1>12. IsSort(t)
  BY <1>11
<1> QED
  BY <1>2, <1>10, <1>12

\* In an ordering every candidate has a place of its own.
LEMMA OrderingIs ==
  ASSUME NEW o \in Orderings, NEW id \in Ids
  PROVE  /\ DOMAIN o = 1 .. Cardinality(Ids) /\ Cardinality(Ids) \in Nat
         /\ Position(o, id) + 1 \in DOMAIN o /\ Position(o, id) \in Nat
         /\ o[Position(o, id) + 1] = id
<1>1. IsFiniteSet(Ids) /\ Cardinality(Ids) \in Nat
  BY RankingAssumption, FS_CardinalityType
<1> PICK n \in Nat : n = Cardinality(Ids)
  BY <1>1
<1>2. o \in [1 .. n -> Ids] /\ \A i, k \in 1 .. n : i # k => o[i] # o[k]
  BY DEF Orderings, SetToSeqs
<1>3. o \in Injection(1 .. n, Ids)
  BY <1>2 DEF Injection, IsInjective
<1>4. Cardinality(1 .. n) = n
  BY FS_Interval
<1>5. o \in Surjection(1 .. n, Ids)
  BY <1>1, <1>3, <1>4, FS_Injection
<1>6. \E i \in DOMAIN o : o[i] = id
  BY <1>2, <1>5 DEF Surjection
<1> PICK i : i = CHOOSE k \in DOMAIN o : o[k] = id
  OBVIOUS
<1>7. i \in DOMAIN o /\ o[i] = id
  BY <1>6
<1>8. Position(o, id) = i - 1 /\ i \in Int /\ i >= 1
  BY <1>2, <1>7 DEF Position
<1> QED
  BY <1>1, <1>2, <1>7, <1>8

LEMMA AnsweredIs ==
  ASSUME NEW box \in Boxes, NEW j \in Judges
  PROVE  /\ IsFiniteSet(Answered(box, j)) /\ Cardinality(Answered(box, j)) \in Nat
         /\ \A p \in Answered(box, j) : p \in Passes /\ box[j][p] \in Orderings
         /\ j \in Heard(box) => Cardinality(Answered(box, j)) > 0
<1>1. Answered(box, j) \in SUBSET Passes
  BY DEF Answered
<1>2. IsFiniteSet(Answered(box, j))
  BY <1>1, RankingAssumption, FS_Subset
<1> QED
  BY <1>1, <1>2, FS_CardinalityType, FS_EmptySet DEF Answered, Heard, Boxes

LEMMA NatProduct ==
  ASSUME NEW a \in Nat, NEW b \in Nat
  PROVE  a * b \in Nat
  BY Z3

LEMMA MeanIs ==
  ASSUME NEW box \in Boxes, NEW j \in Heard(box), NEW id \in Ids
  PROVE  MeanRank(box, j, id) \in Nat
<1> PICK A : A = Answered(box, j)
  OBVIOUS
<1> PICK f : f = [p \in A |-> Position(box[j][p], id)]
  OBVIOUS
<1>1. j \in Judges /\ IsFiniteSet(A) /\ Cardinality(A) \in Nat /\ Cardinality(A) > 0
  BY AnsweredIs DEF Heard
<1>2. \A p \in A : f[p] \in Nat
  BY <1>1, AnsweredIs, OrderingIs
<1>3. SumFunctionOnSet(f, A) \in Nat
  BY <1>1, <1>2, SumTyped
<1> PICK n \in Nat \ {0} : n = Cardinality(A)
  BY <1>1
<1>4. Scale \div n \in Nat
  BY RankingAssumption
<1> PICK a \in Nat : a = SumFunctionOnSet(f, A)
  BY <1>3
<1> PICK b \in Nat : b = Scale \div n
  BY <1>4
<1>5. MeanRank(box, j, id) = a * b
  BY DEF MeanRank
<1> QED
  BY <1>5, NatProduct

LEMMA BordaIs ==
  ASSUME NEW box \in Boxes, NEW id \in Ids
  PROVE  /\ IsFiniteSet(Heard(box)) /\ Borda(box, id) \in Int
         /\ Worst * Scale \in Int
         /\ \A j \in Heard(box) : Worst * Scale - MeanRank(box, j, id) \in Int
<1>1. Heard(box) \in SUBSET Judges
  BY DEF Heard
<1>2. IsFiniteSet(Heard(box))
  BY <1>1, RankingAssumption, FS_Subset
<1>3. Worst * Scale \in Int
  <2>1. Worst \in Int /\ Scale \in Int
    BY RankingAssumption, FS_CardinalityType DEF Worst
  <2> PICK a \in Int : a = Worst
    BY <2>1
  <2> QED
    BY <2>1, Z3
<1> PICK top \in Int : top = Worst * Scale
  BY <1>3
<1>4. \A j \in Heard(box) : top - MeanRank(box, j, id) \in Int
  BY MeanIs
<1> PICK f : f = [j \in Heard(box) |-> top - MeanRank(box, j, id)]
  OBVIOUS
<1>5. SumFunctionOnSet(f, Heard(box)) \in Int
  BY <1>2, <1>4, SumTyped
<1> QED
  BY <1>2, <1>3, <1>4, <1>5 DEF Borda

\* What the candidates of a ballot box come in.
LEMMA ConsensusIs ==
  ASSUME NEW box \in Boxes, Heard(box) # {}
  PROVE  Consensus(box, All) \in Sorted(box)
<1> DEFINE R == {pr \in Ids \X Ids : Before(box, pr[1], pr[2])}
<1>1. \A a, b \in Ids : <<a, b>> \in R <=> Before(box, a, b)
  OBVIOUS
<1>2. Ids \subseteq Nat /\ \A a \in Ids : Borda(box, a) \in Int
  BY BordaIs, RankingAssumption
<1>3. Orders(R, Ids)
  <2> HIDE DEF R
  <2>1. ASSUME NEW a \in Ids, NEW b \in Ids PROVE a = b \/ <<a, b>> \in R \/ <<b, a>> \in R
    BY <1>1, <1>2 DEF Before
  <2>2. ASSUME NEW a \in Ids, NEW b \in Ids, NEW c \in Ids, <<a, b>> \in R, <<b, c>> \in R
        PROVE  <<a, c>> \in R
    BY <1>1, <1>2, <2>2 DEF Before
  <2> QED
    BY <2>1, <2>2 DEF Orders
<1>4. PICK s \in SetToSeqs(Ids) : \A i, k \in DOMAIN s : i < k => <<s[i], s[k]>> \in R
  <2> HIDE DEF R
  <2> QED
    BY <1>3, SortExists, RankingAssumption
<1>5. s \in Sorted(box)
  BY <1>4 DEF Sorted
<1> QED
  BY <1>5 DEF Consensus

LEMMA ParetoIs == said \in Boxes => Pareto
<1> SUFFICES ASSUME said \in Boxes, NEW a \in Ids, NEW b \in Ids, Heard(said) # {},
                    \A j \in Heard(said) : MeanRank(said, j, a) < MeanRank(said, j, b)
             PROVE  Place(a) < Place(b)
  BY DEF Pareto
<1> PICK H : H = Heard(said)
  OBVIOUS
<1> PICK top \in Int : top = Worst * Scale
  BY BordaIs
<1> PICK f : f = [j \in H |-> top - MeanRank(said, j, a)]
  OBVIOUS
<1> PICK g : g = [j \in H |-> top - MeanRank(said, j, b)]
  OBVIOUS
<1>1. \A j \in H : MeanRank(said, j, a) \in Int /\ MeanRank(said, j, b) \in Int
  BY MeanIs
<1>2. \A j \in H : g[j] \in Int /\ f[j] \in Int /\ g[j] < f[j]
  BY <1>1
<1>3. IsFiniteSet(H) /\ Borda(said, a) \in Int /\ Borda(said, b) \in Int
  BY BordaIs
<1>4. SumFunctionOnSet(g, H) < SumFunctionOnSet(f, H)
  BY <1>2, <1>3, SumLess
<1>5. Borda(said, b) < Borda(said, a)
  BY <1>4 DEF Borda
<1>6. ~Before(said, b, a) /\ a # b
  BY <1>3, <1>5 DEF Before
<1> PICK s : s = Consensus(said, All)
  OBVIOUS
<1>7. s \in Orderings /\ \A i, k \in DOMAIN s : i < k => Before(said, s[i], s[k])
  BY ConsensusIs DEF Sorted, Orderings
<1> PICK i : i = Position(s, a) + 1
  OBVIOUS
<1> PICK k : k = Position(s, b) + 1
  OBVIOUS
<1>8. i \in DOMAIN s /\ k \in DOMAIN s /\ s[i] = a /\ s[k] = b /\ i \in Int /\ k \in Int
  BY <1>7, OrderingIs
<1>9. ~(k < i) /\ i # k
  BY <1>6, <1>7, <1>8
<1>10. Position(s, a) \in Int /\ Position(s, b) \in Int
  BY <1>7, OrderingIs
<1> QED
  BY <1>8, <1>9, <1>10 DEF Place

LEMMA HeardIs ==
  ASSUME NEW box \in Boxes
  PROVE  /\ IsFiniteSet(Heard(box)) /\ IsFiniteSet(JudgePairs(box))
         /\ \A S \in JudgePairs(box) : S \subseteq Heard(box) /\ IsFiniteSet(S) /\ Cardinality(S) = 2
<1>1. Heard(box) \in SUBSET Judges
  BY DEF Heard
<1>2. IsFiniteSet(Heard(box))
  BY <1>1, RankingAssumption, FS_Subset
<1>3. IsFiniteSet(SUBSET Heard(box)) /\ JudgePairs(box) \in SUBSET (SUBSET Heard(box))
  BY <1>2, FS_SUBSET DEF JudgePairs
<1>4. IsFiniteSet(JudgePairs(box))
  BY <1>3, FS_Subset
<1> QED
  BY <1>2, <1>4, FS_Subset DEF JudgePairs

\* disagreement compares two judges at a time.
LEMMA PairIs ==
  ASSUME NEW box \in Boxes, NEW S \in JudgePairs(box)
  PROVE  \E i, k \in Heard(box) : S = {i, k} /\ i # k /\ \A b : TauOf(b, S) = KendallTau(b, i, k)
<1> PICK i : i = CHOOSE j \in S : TRUE
  OBVIOUS
<1> PICK k : k = CHOOSE j \in S \ {i} : TRUE
  OBVIOUS
<1>1. S \subseteq Heard(box) /\ IsFiniteSet(S) /\ Cardinality(S) = 2
  BY HeardIs
<1>2. i \in S
  <2>1. S # {}
    BY <1>1, FS_EmptySet
  <2> QED
    BY <2>1
<1>3. IsFiniteSet(S \ {i}) /\ Cardinality(S \ {i}) = 1
  <2>1. IsFiniteSet(S) /\ Cardinality(S) = 2 /\ i \in S
    BY <1>1, <1>2
  <2>2. Cardinality(S \ {i}) = Cardinality(S) - 1 /\ IsFiniteSet(S \ {i})
    BY ONLY <2>1, FS_RemoveElement
  <2> QED
    BY <2>1, <2>2
<1>4. PICK x : S \ {i} = {x}
  BY <1>3, FS_Singleton
<1>5. k \in S \ {i}
  BY <1>4
<1>6. S = {i, k}
  BY <1>2, <1>4, <1>5
<1>7. \A b : TauOf(b, S) = KendallTau(b, i, k)
  BY DEF TauOf
<1> QED
  BY <1>1, <1>2, <1>5, <1>6, <1>7

\* Two ballot boxes that the same judges were heard in, with the same mean ranks, are one.
LEMMA SameMeans ==
  ASSUME NEW box \in Boxes, NEW twin \in Boxes, Heard(twin) = Heard(box),
         \A j \in Heard(box) : \A id \in Ids : MeanRank(twin, j, id) = MeanRank(box, j, id)
  PROVE  Consensus(twin, All) = Consensus(box, All) /\ Disagreement(twin) = Disagreement(box)
<1> PICK H : H = Heard(box)
  OBVIOUS
<1>1. ASSUME NEW id \in Ids PROVE Borda(twin, id) = Borda(box, id)
  <2> PICK f : f = [j \in H |-> Worst * Scale - MeanRank(box, j, id)]
    OBVIOUS
  <2>1. [j \in H |-> Worst * Scale - MeanRank(twin, j, id)] = f
    OBVIOUS
  <2>2. Borda(box, id) = SumFunctionOnSet(f, H) /\ Borda(twin, id) = SumFunctionOnSet(f, H)
    BY <2>1 DEF Borda
  <2> QED
    BY <2>2
<1>2. \A a, b \in Ids : Before(twin, a, b) <=> Before(box, a, b)
  BY <1>1 DEF Before
<1>3. Sorted(twin) = Sorted(box)
  BY <1>2 DEF Sorted, SetToSeqs
<1>4. Consensus(twin, All) = Consensus(box, All)
  BY <1>3 DEF Consensus
<1>5. \A i, k \in H : \A pr \in Pairs : Agreement(twin, i, k, pr) = Agreement(box, i, k, pr)
  BY DEF Agreement, Pairs
<1>6. ASSUME NEW i \in H, NEW k \in H PROVE KendallTau(twin, i, k) = KendallTau(box, i, k)
  <2> PICK ordered : ordered = {pr \in Pairs : Agreement(box, i, k, pr) # 0}
    OBVIOUS
  <2>1. {pr \in Pairs : Agreement(twin, i, k, pr) # 0} = ordered
    BY <1>5
  <2> PICK f : f = [pr \in ordered |-> Agreement(box, i, k, pr)]
    OBVIOUS
  <2>2. [pr \in ordered |-> Agreement(twin, i, k, pr)] = f
    BY <1>5
  <2> QED
    BY <2>1, <2>2 DEF KendallTau
<1>7. JudgePairs(twin) = JudgePairs(box)
  BY DEF JudgePairs
<1>8. ASSUME NEW S \in JudgePairs(box) PROVE TauOf(twin, S) = TauOf(box, S)
  <2>1. PICK i \in H, k \in H : \A b \in {box, twin} : TauOf(b, S) = KendallTau(b, i, k)
    BY PairIs
  <2> QED
    BY <1>6, <2>1
<1> PICK f : f = [S \in JudgePairs(box) |-> Tau - TauOf(box, S)]
  OBVIOUS
<1>9. [S \in JudgePairs(twin) |-> Tau - TauOf(twin, S)] = f
  BY <1>7, <1>8
<1>10. Disagreement(twin) = Disagreement(box)
  BY <1>7, <1>9 DEF Disagreement
<1> QED
  BY <1>4, <1>10

\* A judge whose other ordering was lost counts as one that gave the same ordering twice.
LEMMA LostIs == said \in Boxes => LostOrderingIsNeutral
<1> SUFFICES ASSUME said \in Boxes, NEW j \in Judges, NEW p \in Passes, said[j][p] = Failed,
                    NEW q \in Answered(said, j), Answered(said, j) = {q}, Passes = {p, q},
                    NEW twin, twin = [said EXCEPT ![j][p] = said[j][q]]
             PROVE  Consensus(twin, All) = Consensus(said, All) /\ Disagreement(twin) = Disagreement(said)
  BY DEF LostOrderingIsNeutral
<1>1. p # q /\ said[j][q] # Failed /\ said[j][q] \in Orderings /\ q \in Passes
  BY AnsweredIs DEF Answered
<1>2. /\ twin \in Boxes
      /\ \A i \in Judges : i # j => twin[i] = said[i]
      /\ twin[j][p] = said[j][q] /\ twin[j][q] = said[j][q]
  BY <1>1 DEF Boxes
<1>3. /\ Answered(twin, j) = {p, q}
      /\ \A i \in Judges : i # j => Answered(twin, i) = Answered(said, i)
  BY <1>1, <1>2 DEF Answered
<1>4. Heard(twin) = Heard(said) /\ j \in Heard(said)
  BY <1>3 DEF Heard
<1>5. ASSUME NEW id \in Ids PROVE MeanRank(twin, j, id) = MeanRank(said, j, id)
  <2> PICK x \in Nat : x = Position(said[j][q], id)
    BY <1>1, OrderingIs
  <2> PICK f : f = [r \in {p, q} |-> Position(twin[j][r], id)]
    OBVIOUS
  <2> PICK g : g = [r \in {q} |-> Position(said[j][r], id)]
    OBVIOUS
  <2>1. f[p] = x /\ f[q] = x /\ g[q] = x
    BY <1>2
  <2>2. Cardinality({p, q}) = 2 /\ SumFunctionOnSet(f, {p, q}) = x + x
    <3>1. f[p] \in Int /\ f[q] \in Int
      BY <2>1
    <3>2. Cardinality({p, q}) = 2 /\ SumFunctionOnSet(f, {p, q}) = f[p] + f[q]
      BY ONLY <1>1, <3>1, SumOfTwo
    <3> QED
      BY <2>1, <3>2
  <2>3. Cardinality({q}) = 1 /\ SumFunctionOnSet(g, {q}) = x
    <3>1. g[q] \in Int
      BY <2>1
    <3> QED
      BY <2>1, <3>1, SumOfOne
  <2>4. Scale = 2 * (Scale \div 2) /\ Scale \div 2 \in Nat /\ Scale \div 1 = Scale
    <3>1. 2 \in 1 .. Cardinality(Passes)
      BY <2>2
    <3>2. Scale % 2 = 0 /\ Scale \in Nat
      BY <3>1, RankingAssumption
    <3> QED
      BY <3>2
  <2>5. MeanRank(twin, j, id) = (x + x) * (Scale \div 2)
    BY <1>3, <2>2 DEF MeanRank
  <2>6. MeanRank(said, j, id) = x * Scale
    BY <2>3, <2>4 DEF MeanRank
  <2> PICK h \in Nat : h = Scale \div 2
    BY <2>4
  <2>7. (x + x) * h = x * (2 * h)
    BY Z3
  <2> QED
    BY <2>4, <2>5, <2>6, <2>7
<1>6. ASSUME NEW i \in Judges, i # j, NEW id \in Ids PROVE MeanRank(twin, i, id) = MeanRank(said, i, id)
  <2> PICK o : o = said[i]
    OBVIOUS
  <2> PICK A : A = Answered(said, i)
    OBVIOUS
  <2> PICK f : f = [r \in A |-> Position(o[r], id)]
    OBVIOUS
  <2>1. twin[i] = o /\ Answered(twin, i) = A
    BY <1>2, <1>3, <1>6
  <2>2. [r \in A |-> Position(twin[i][r], id)] = f
    BY <2>1
  <2>3. MeanRank(twin, i, id) = SumFunctionOnSet(f, A) * (Scale \div Cardinality(A))
    BY <2>1, <2>2 DEF MeanRank
  <2>4. MeanRank(said, i, id) = SumFunctionOnSet(f, A) * (Scale \div Cardinality(A))
    BY DEF MeanRank
  <2> QED
    BY <2>3, <2>4
<1>7. \A i \in Heard(said) : \A id \in Ids : MeanRank(twin, i, id) = MeanRank(said, i, id)
  BY <1>5, <1>6 DEF Heard
<1> QED
  BY <1>2, <1>4, <1>7, SameMeans

\* How far two judges agree on a pair.
LEMMA AgreementIs ==
  ASSUME NEW box \in Boxes, NEW i \in Heard(box), NEW k \in Heard(box), NEW pr \in Pairs
  PROVE  /\ Agreement(box, i, k, pr) \in {-1, 0, 1}
         /\ Agreement(box, k, i, pr) = Agreement(box, i, k, pr)
<1>1. pr[1] \in Ids /\ pr[2] \in Ids
  BY DEF Pairs
<1> PICK m : m = MeanRank(box, i, pr[1]) - MeanRank(box, i, pr[2])
  OBVIOUS
<1> PICK n : n = MeanRank(box, k, pr[1]) - MeanRank(box, k, pr[2])
  OBVIOUS
<1>2. m \in Int /\ n \in Int
  BY <1>1, MeanIs
<1>3. Sign(m) \in {-1, 0, 1} /\ Sign(n) \in {-1, 0, 1}
  BY <1>2 DEF Sign
<1>4. Agreement(box, i, k, pr) = Sign(m) * Sign(n) /\ Agreement(box, k, i, pr) = Sign(n) * Sign(m)
  BY DEF Agreement
<1>5. \A a, b \in {-1, 0, 1} : a * b \in {-1, 0, 1} /\ a * b = b * a
  OBVIOUS
<1> QED
  BY <1>3, <1>4, <1>5

\* A sum of terms from -1 to 1 is one from -n to n, and reaches either end only with all of them.
LEMMA SignSum ==
  ASSUME NEW f, NEW S, IsFiniteSet(S), \A x \in S : f[x] \in {-1, 0, 1},
         NEW n, n = Cardinality(S), NEW s, s = SumFunctionOnSet(f, S)
  PROVE  /\ n \in Nat /\ s \in Int /\ -n <= s /\ s <= n
         /\ s = n <=> \A x \in S : f[x] = 1
         /\ s = -n <=> \A x \in S : f[x] = -1
<1> PICK below : below = [x \in S |-> 1 - f[x]]
  OBVIOUS
<1> PICK minus : minus = [x \in S |-> 0 - f[x]]
  OBVIOUS
<1> PICK above : above = [x \in S |-> 1 - minus[x]]
  OBVIOUS
<1>1. \A x \in S : f[x] \in Int /\ minus[x] \in Int /\ minus[x] = 0 - f[x] /\ below[x] = 1 - f[x]
                   /\ above[x] = 1 - minus[x]
  OBVIOUS
<1>2. SumFunctionOnSet(below, S) = 1 * n - s /\ n \in Nat /\ s \in Int
  <2>1. IsFiniteSet(S) /\ 1 \in Int /\ \A x \in S : f[x] \in Int /\ below[x] = 1 - f[x]
    BY <1>1
  <2>2. /\ SumFunctionOnSet(below, S) = 1 * Cardinality(S) - SumFunctionOnSet(f, S)
        /\ SumFunctionOnSet(f, S) \in Int /\ Cardinality(S) \in Nat
    BY ONLY <2>1, SumMissing
  <2> QED
    BY <2>2
<1>3. SumFunctionOnSet(minus, S) = 0 * n - s
  BY <1>1, SumMissing
<1>4. SumFunctionOnSet(above, S) = 1 * n - SumFunctionOnSet(minus, S)
  <2>1. IsFiniteSet(S) /\ 1 \in Int /\ \A x \in S : minus[x] \in Int /\ above[x] = 1 - minus[x]
    BY <1>1
  <2>2. SumFunctionOnSet(above, S) = 1 * Cardinality(S) - SumFunctionOnSet(minus, S)
    BY ONLY <2>1, SumMissing
  <2> QED
    BY <2>2
<1>5. \A x \in S : /\ below[x] \in Nat /\ above[x] \in Nat
                   /\ below[x] = 0 <=> f[x] = 1
                   /\ above[x] = 0 <=> f[x] = -1
  <2> SUFFICES ASSUME NEW x \in S
               PROVE  /\ below[x] \in Nat /\ above[x] \in Nat
                      /\ below[x] = 0 <=> f[x] = 1
                      /\ above[x] = 0 <=> f[x] = -1
    OBVIOUS
  <2>1. f[x] \in {-1, 0, 1}
    OBVIOUS
  <2>2. below[x] = 1 - f[x] /\ above[x] = 1 - (0 - f[x])
    BY <1>1
  <2> QED
    BY ONLY <2>1, <2>2
<1>6. /\ SumFunctionOnSet(below, S) \in Nat /\ SumFunctionOnSet(above, S) \in Nat
      /\ SumFunctionOnSet(below, S) = 0 <=> \A x \in S : below[x] = 0
      /\ SumFunctionOnSet(above, S) = 0 <=> \A x \in S : above[x] = 0
  <2>1. (\A x \in S : below[x] \in Nat) /\ (\A x \in S : below[x] \in Int)
    BY <1>5
  <2>2. (\A x \in S : above[x] \in Nat) /\ (\A x \in S : above[x] \in Int)
    BY <1>5
  <2> QED
    BY <2>1, <2>2, SumTyped, SumZero
<1>7. SumFunctionOnSet(below, S) = n - s /\ SumFunctionOnSet(above, S) = n + s
  BY <1>2, <1>3, <1>4
<1> QED
  BY <1>2, <1>5, <1>6, <1>7

LEMMA ExactDivision ==
  ASSUME NEW n \in Nat \ {0}, NEW t \in Int
  PROVE  (n * t) \div n = t
  BY Z3

LEMMA ScaledBy ==
  ASSUME NEW k \in Nat \ {0}, NEW s \in Int, NEW n \in Int
  PROVE  k * s \in Int /\ k * n \in Int /\ (s <= n => k * s <= k * n) /\ (k * s = k * n <=> s = n)
  BY Z3

LEMMA PairsFinite == IsFiniteSet(Pairs) /\ Cardinality(Pairs) \in Nat
<1>1. IsFiniteSet(Ids \X Ids)
  BY RankingAssumption, FS_Product
<1>2. Pairs \in SUBSET (Ids \X Ids)
  BY DEF Pairs
<1> QED
  BY <1>1, <1>2, FS_Subset, FS_CardinalityType

\* kendall_tau is 1 when two judges order every pair alike, and -1 exactly when they order some
\* pair in opposite ways and none alike.
LEMMA KendallIs ==
  ASSUME NEW box \in Boxes, NEW i \in Heard(box), NEW k \in Heard(box)
  PROVE  /\ KendallTau(box, i, k) \in -Tau .. Tau
         /\ (\A pr \in Pairs : Agreement(box, i, k, pr) = 1) => KendallTau(box, i, k) = Tau
         /\ KendallTau(box, i, k) = -Tau <=>
              /\ \E pr \in Pairs : Agreement(box, i, k, pr) = -1
              /\ \A pr \in Pairs : Agreement(box, i, k, pr) # 1
<1> PICK ordered : ordered = {pr \in Pairs : Agreement(box, i, k, pr) # 0}
  OBVIOUS
<1> PICK f : f = [pr \in ordered |-> Agreement(box, i, k, pr)]
  OBVIOUS
<1>1. \A pr \in Pairs : Agreement(box, i, k, pr) \in {-1, 0, 1}
  BY AgreementIs
<1>2. \A pr \in ordered : pr \in Pairs /\ f[pr] = Agreement(box, i, k, pr) /\ f[pr] \in {-1, 1}
  BY <1>1
<1>3. CASE ordered = {}
  <2>1. KendallTau(box, i, k) = Tau
    BY <1>3 DEF KendallTau
  <2>2. Tau \in Int /\ Tau > 0
    BY TauAssumption
  <2>3. ~ \E pr \in Pairs : Agreement(box, i, k, pr) = -1
    BY <1>3
  <2> QED
    BY <2>1, <2>2, <2>3
<1>4. CASE ordered # {}
  <2> PICK n : n = Cardinality(ordered)
    OBVIOUS
  <2> PICK s : s = SumFunctionOnSet(f, ordered)
    OBVIOUS
  <2>1. IsFiniteSet(ordered) /\ n \in 1 .. Cardinality(Pairs)
    <3>1. ordered \in SUBSET Pairs
      OBVIOUS
    <3>2. IsFiniteSet(ordered) /\ n <= Cardinality(Pairs)
      BY <3>1, PairsFinite, FS_Subset
    <3>3. n \in Nat /\ n # 0
      BY <1>4, <3>2, FS_CardinalityType, FS_EmptySet
    <3> QED
      BY <3>2, <3>3, PairsFinite
  <2>2. /\ s \in Int /\ -n <= s /\ s <= n
        /\ s = n <=> \A pr \in ordered : f[pr] = 1
        /\ s = -n <=> \A pr \in ordered : f[pr] = -1
    <3>1. \A pr \in ordered : f[pr] \in {-1, 0, 1}
      BY <1>2
    <3> QED
      BY ONLY <2>1, <3>1, SignSum, n = Cardinality(ordered), s = SumFunctionOnSet(f, ordered)
  <2>3. n \in Nat \ {0} /\ Tau % n = 0 /\ Tau \in Nat \ {0}
    BY <2>1, TauAssumption, PairsFinite
  <2> PICK m : m = Tau \div n
    OBVIOUS
  <2>4. m \in Nat \ {0} /\ Tau = n * m
    BY <2>3
  <2>5. KendallTau(box, i, k) = m * s
    <3>1. KendallTau(box, i, k) = (Tau * s) \div n
      BY <1>4 DEF KendallTau
    <3>2. (n * m) * s = n * (m * s) /\ m * s \in Int
      BY <2>2, <2>3, <2>4, Z3
    <3> QED
      BY <2>3, <2>4, <3>1, <3>2, ExactDivision
  <2>6. Tau = m * n /\ -Tau = m * (-n)
    BY <2>3, <2>4, Z3
  <2>7. /\ m * s \in Int /\ m * (-n) <= m * s /\ m * s <= m * n
        /\ m * s = m * n <=> s = n
        /\ m * s = m * (-n) <=> s = -n
    BY <2>2, <2>3, <2>4, ScaledBy
  <2>8. KendallTau(box, i, k) \in -Tau .. Tau
    BY <2>3, <2>5, <2>6, <2>7
  <2>9. (\A pr \in Pairs : Agreement(box, i, k, pr) = 1) => KendallTau(box, i, k) = Tau
    BY <1>2, <2>2, <2>5, <2>6, <2>7
  <2>10. KendallTau(box, i, k) = -Tau <=> \A pr \in ordered : f[pr] = -1
    BY <2>2, <2>5, <2>6, <2>7
  <2>11. (\A pr \in ordered : f[pr] = -1) <=>
              /\ \E pr \in Pairs : Agreement(box, i, k, pr) = -1
              /\ \A pr \in Pairs : Agreement(box, i, k, pr) # 1
    BY <1>1, <1>2, <1>4
  <2> QED
    BY <2>8, <2>9, <2>10, <2>11
<1> QED
  BY <1>3, <1>4

LEMMA OpposedIs ==
  ASSUME said \in Boxes, NEW i \in Heard(said), NEW k \in Heard(said)
  PROVE  /\ KendallTau(said, i, k) \in -Tau .. Tau
         /\ Alike(i, k) => KendallTau(said, i, k) = Tau
         /\ KendallTau(said, i, k) = -Tau <=> Opposed(i, k)
         /\ Opposed(k, i) <=> Opposed(i, k)
  BY KendallIs, AgreementIs DEF Alike, Opposed

LEMMA FewNoPairs == Pairs # {} => Cardinality(Ids) >= 2
<1> SUFFICES ASSUME NEW pr \in Pairs PROVE Cardinality(Ids) >= 2
  OBVIOUS
<1> PICK a : a = pr[1]
  OBVIOUS
<1> PICK b : b = pr[2]
  OBVIOUS
<1>1. a \in Ids /\ b \in Ids /\ a # b
  BY RankingAssumption DEF Pairs
<1>2. IsFiniteSet({b}) /\ Cardinality({b}) = 1 /\ {b} \union {a} = {a, b} /\ a \notin {b}
  BY <1>1, FS_Singleton
<1>3. Cardinality({a, b}) = 2
  BY <1>2, FS_AddElement
<1>4. {a, b} \in SUBSET Ids /\ IsFiniteSet(Ids)
  BY <1>1, RankingAssumption
<1>5. Cardinality({a, b}) <= Cardinality(Ids)
  BY ONLY <1>4, FS_Subset
<1>6. Cardinality(Ids) \in Nat
  BY <1>4, FS_CardinalityType
<1> QED
  BY <1>3, <1>5, <1>6

\* Of two judges heard there is one pair.
LEMMA TwoJudges ==
  ASSUME NEW box \in Boxes, Cardinality(Heard(box)) = 2
  PROVE  JudgePairs(box) = {Heard(box)}
<1>1. Heard(box) \in JudgePairs(box)
  BY DEF JudgePairs
<1>2. ASSUME NEW S \in JudgePairs(box) PROVE S = Heard(box)
  <2>1. S \in SUBSET Heard(box) /\ Cardinality(S) = Cardinality(Heard(box)) /\ IsFiniteSet(Heard(box))
    BY HeardIs
  <2> QED
    BY ONLY <2>1, FS_Subset
<1> QED
  BY <1>1, <1>2

LEMMA ScaleIs == said \in Boxes => DisagreementScale
<1> SUFFICES ASSUME said \in Boxes PROVE DisagreementScale
  OBVIOUS
<1> PICK JP : JP = JudgePairs(said)
  OBVIOUS
<1> PICK f : f = [S \in JP |-> Tau - TauOf(said, S)]
  OBVIOUS
<1> PICK g : g = [S \in JP |-> 2 * Tau - f[S]]
  OBVIOUS
<1> PICK n \in Nat : n = Cardinality(JP)
  BY HeardIs, FS_CardinalityType
<1> PICK d : d = SumFunctionOnSet(f, JP)
  OBVIOUS
<1>1. IsFiniteSet(JP) /\ Tau \in Nat \ {0} /\ 2 * Tau \in Int
  BY HeardIs, TauAssumption
<1>2. \A S \in JP : TauOf(said, S) \in -Tau .. Tau
  BY PairIs, OpposedIs
<1>3. /\ \A S \in JP : f[S] \in Nat /\ f[S] \in Int /\ f[S] = Tau - TauOf(said, S)
      /\ \A S \in JP : g[S] \in Nat /\ g[S] \in Int /\ g[S] = 2 * Tau - f[S]
  BY <1>1, <1>2
<1>4. d \in Nat
  BY <1>1, <1>3, SumTyped
<1>5. SumFunctionOnSet(g, JP) \in Nat
  BY <1>1, <1>3, SumTyped
<1>6. SumFunctionOnSet(g, JP) = (2 * Tau) * n - d
  <2>1. IsFiniteSet(JP) /\ 2 * Tau \in Int /\ \A S \in JP : f[S] \in Int /\ g[S] = 2 * Tau - f[S]
    BY <1>1, <1>3
  <2>2. SumFunctionOnSet(g, JP) = (2 * Tau) * Cardinality(JP) - SumFunctionOnSet(f, JP)
    BY ONLY <2>1, SumMissing
  <2> QED
    BY <2>2
<1> PICK whole : whole = Whole(said)
  OBVIOUS
<1>7. whole = (2 * Tau) * n /\ whole \in Nat
  <2>1. whole = (2 * Tau) * n
    BY DEF Whole
  <2> PICK t \in Nat : t = 2 * Tau
    BY <1>1
  <2> QED
    BY <2>1, NatProduct
<1>8. d <= whole
  BY <1>4, <1>5, <1>6, <1>7
<1>9. Disagreement(said) = IF Cardinality(Ids) < 2 THEN 0 ELSE d
  BY DEF Disagreement
<1>10. Disagreement(said) \in 0 .. whole
  BY <1>4, <1>7, <1>8, <1>9
<1>11. ASSUME \A i, k \in Heard(said) : i # k => Alike(i, k) PROVE Disagreement(said) = 0
  <2>1. \A S \in JP : TauOf(said, S) = Tau
    BY <1>11, PairIs, OpposedIs
  <2>2. \A S \in JP : f[S] = 0
    BY <1>1, <1>3, <2>1
  <2>3. d = 0
    BY <1>1, <1>3, <2>2, SumZero
  <2> QED
    BY <1>9, <2>3
<1>12. ASSUME Cardinality(Heard(said)) = 2
       PROVE  Disagreement(said) = whole <=> \E i, k \in Heard(said) : i # k /\ Opposed(i, k)
  <2> PICK H : H = Heard(said)
    OBVIOUS
  <2>1. JP = {H} /\ H \in JP
    BY <1>12, TwoJudges
  <2>2. n = 1 /\ d = Tau - TauOf(said, H)
    <3>1. f[H] \in Int /\ f[H] = Tau - TauOf(said, H)
      BY <1>3, <2>1
    <3>2. Cardinality({H}) = 1 /\ SumFunctionOnSet(f, {H}) = f[H]
      BY ONLY <3>1, SumOfOne
    <3> QED
      BY <2>1, <3>1, <3>2
  <2>3. PICK i \in H, k \in H : H = {i, k} /\ i # k /\ TauOf(said, H) = KendallTau(said, i, k)
    <3>1. H \in JudgePairs(said)
      BY <2>1
    <3>2. PICK i \in Heard(said), k \in Heard(said) :
            H = {i, k} /\ i # k /\ \A b : TauOf(b, H) = KendallTau(b, i, k)
      BY ONLY <3>1, said \in Boxes, PairIs
    <3> QED
      BY <3>2
  <2>4. (\E a, b \in H : a # b /\ Opposed(a, b)) <=> Opposed(i, k)
    BY <2>3, OpposedIs
  <2>5. whole = 2 * Tau
    BY <1>1, <1>7, <2>2
  <2>6. d = whole <=> Opposed(i, k)
    BY <1>1, <1>2, <2>1, <2>2, <2>3, <2>5, OpposedIs
  <2>7. Cardinality(Ids) < 2 => whole # 0 /\ ~Opposed(i, k)
    <3>1. Opposed(i, k) => Pairs # {}
      BY DEF Opposed
    <3>2. Cardinality(Ids) \in Nat
      BY RankingAssumption, FS_CardinalityType
    <3> QED
      BY <1>1, <2>5, <3>1, <3>2, FewNoPairs
  <2> QED
    BY <1>9, <2>4, <2>6, <2>7
<1> QED
  BY <1>10, <1>11, <1>12 DEF DisagreementScale

LEMMA BoxInvariance == CasesSpec => [](said \in Boxes)
<1>1. CasesInit => said \in Boxes
  BY DEF CasesInit, Boxes, Nothing
<1>2. said \in Boxes /\ [CasesNext]_<<cases, vars>> => (said \in Boxes)'
  BY DEF CasesNext, Say, Evaluate, cases, Boxes, Orderings
<1> QED
  BY <1>1, <1>2, PTL DEF CasesSpec

\* borda_consensus: whatever the judges answer and whichever orderings are lost, a candidate
\* that every judge heard ranks better than another comes before it.
THEOREM DecisionsPareto == CasesSpec => []Pareto
  BY BoxInvariance, ParetoIs, PTL

\* average_positions: with two orderings a judge, losing one is as if the other had come twice.
THEOREM DecisionsLostOrderingIsNeutral == CasesSpec => []LostOrderingIsNeutral
  BY BoxInvariance, LostIs, PTL

\* disagreement: it stays on its scale, judges that order every pair alike have none, and two
\* judges have all of it exactly when they order no pair alike and some in opposite ways.
THEOREM DecisionsDisagreementScale == CasesSpec => []DisagreementScale
  BY BoxInvariance, ScaleIs, PTL

-----------------------------------------------------------------------------
(* Replies.  letters_to_ids is a fold along a reply, so what it gives is one *)
(* of a sequence of orderings so far, each made of the one before.           *)

\* g is a function that FoldLeft chooses for the sequence s of n, right for the sets of at
\* most m places.
Folds(g, s, n, m) ==
  \A S \in SUBSET (1 .. n) :
    Cardinality(S) <= m => g[S] = IF S = {} THEN <<>> ELSE Heed(g[S \ {Max(S)}], s[Max(S)])

Fold(g, s, n) ==
  g = [S \in SUBSET (1 .. n) |-> IF S = {} THEN <<>> ELSE Heed(g[S \ {Max(S)}], s[Max(S)])]

LEMMA PlacesAre ==
  ASSUME NEW n \in Nat, NEW S \in SUBSET (1 .. n)
  PROVE  /\ IsFiniteSet(S) /\ Cardinality(S) \in Nat /\ Cardinality(S) <= n
         /\ S # {} => /\ Max(S) \in S /\ S \ {Max(S)} \in SUBSET (1 .. n)
                      /\ Cardinality(S) > 0 /\ Cardinality(S \ {Max(S)}) = Cardinality(S) - 1
<1>1. IsFiniteSet(1 .. n) /\ Cardinality(1 .. n) = n
  BY FS_Interval
<1>2. IsFiniteSet(S) /\ Cardinality(S) \in Nat /\ Cardinality(S) <= n
  BY <1>1, FS_Subset, FS_CardinalityType
<1>3. ASSUME S # {} PROVE Max(S) \in S
  <2>1. S \subseteq Nat /\ \A x \in S : x <= n
    OBVIOUS
  <2>2. PICK p \in S : \A q \in S : q <= p
    BY <1>3, <2>1, GreatestExists
  <2>3. \A q \in S : p >= q
    BY <2>1, <2>2
  <2> QED
    BY <2>3 DEF Max
<1>4. ASSUME S # {} PROVE Cardinality(S) > 0 /\ Cardinality(S \ {Max(S)}) = Cardinality(S) - 1
  <2> PICK p : p = Max(S)
    OBVIOUS
  <2>1. Cardinality(S) # 0
    BY <1>2, <1>4, FS_EmptySet
  <2>2. Cardinality(S \ {p}) = Cardinality(S) - 1
    BY <1>2, <1>3, <1>4, FS_RemoveElement
  <2> QED
    BY <1>2, <2>1, <2>2
<1> QED
  BY <1>2, <1>3, <1>4

LEMMA FoldsUpTo ==
  ASSUME NEW s, NEW n \in Nat, NEW m \in Nat
  PROVE  \E g : Folds(g, s, n, m)
<1> DEFINE Bad == {k \in Nat : ~ \E g : Folds(g, s, n, k)}
<1> SUFFICES ASSUME Bad # {} PROVE FALSE
  OBVIOUS
<1>1. PICK k \in Bad : \A i \in Bad : k <= i
  BY LeastExists
<1> k \in Nat
  BY <1>1
<1>2. CASE k = 0
  <2> DEFINE g == [S \in SUBSET (1 .. n) |-> <<>>]
  <2>1. ASSUME NEW S \in SUBSET (1 .. n), Cardinality(S) <= 0 PROVE S = {}
    <3>1. Cardinality(S) \in Nat /\ (S # {} => Cardinality(S) > 0)
      BY PlacesAre
    <3> QED
      BY <2>1, <3>1
  <2>2. Folds(g, s, n, 0)
    BY <2>1 DEF Folds
  <2> QED
    BY <1>2, <2>2
<1>3. CASE k > 0
  <2>1. PICK old : Folds(old, s, n, k - 1)
    BY <1>1, <1>3
  <2> DEFINE g == [S \in SUBSET (1 .. n) |-> IF Cardinality(S) < k THEN old[S]
                                             ELSE Heed(old[S \ {Max(S)}], s[Max(S)])]
  <2>2. \A S \in SUBSET (1 .. n) : Cardinality(S) < k => g[S] = old[S]
    OBVIOUS
  <2>3. \A S \in SUBSET (1 .. n) : ~(Cardinality(S) < k) => g[S] = Heed(old[S \ {Max(S)}], s[Max(S)])
    OBVIOUS
  <2> HIDE DEF g, Bad
  <2>4. ASSUME NEW S \in SUBSET (1 .. n), Cardinality(S) <= k
        PROVE  g[S] = IF S = {} THEN <<>> ELSE Heed(g[S \ {Max(S)}], s[Max(S)])
    <3>1. CASE S = {}
      <4>1. Cardinality(S) = 0 /\ k - 1 >= 0
        BY <1>1, <1>3, <3>1, FS_EmptySet
      <4>2. old[S] = <<>>
        BY <2>1, <3>1, <4>1 DEF Folds
      <4> QED
        BY <1>3, <2>2, <3>1, <4>1, <4>2
    <3>2. CASE S # {}
      <4>1. /\ Max(S) \in S /\ S \ {Max(S)} \in SUBSET (1 .. n)
            /\ Cardinality(S) \in Nat /\ Cardinality(S \ {Max(S)}) = Cardinality(S) - 1
        BY <3>2, PlacesAre
      <4> PICK T : T = S \ {Max(S)}
        OBVIOUS
      <4>2. g[T] = old[T]
        <5>1. Cardinality(T) < k
          BY <1>1, <2>4, <4>1
        <5> QED
          BY <2>2, <4>1, <5>1
      <4>3. g[S] = Heed(old[T], s[Max(S)])
        <5>1. CASE Cardinality(S) < k
          <6>1. g[S] = old[S] /\ Cardinality(S) <= k - 1
            BY <1>1, <2>2, <4>1, <5>1
          <6> QED
            BY <2>1, <3>2, <6>1 DEF Folds
        <5>2. CASE ~(Cardinality(S) < k)
          BY <2>3, <5>2
        <5> QED
          BY <5>1, <5>2
      <4> QED
        BY <3>2, <4>2, <4>3
    <3> QED
      BY <3>1, <3>2
  <2>5. Folds(g, s, n, k)
    BY <2>4 DEF Folds
  <2> QED
    BY <1>1, <2>5 DEF Bad
<1> QED
  BY <1>1, <1>2, <1>3

LEMMA FoldExists ==
  ASSUME NEW s, NEW n \in Nat
  PROVE  \E g : Fold(g, s, n)
<1>1. PICK g : Folds(g, s, n, n)
  BY FoldsUpTo
<1> DEFINE k == [S \in SUBSET (1 .. n) |-> g[S]]
           body == [S \in SUBSET (1 .. n) |-> IF S = {} THEN <<>>
                                              ELSE Heed(k[S \ {Max(S)}], s[Max(S)])]
<1>2. \A S \in SUBSET (1 .. n) : k[S] = g[S]
  OBVIOUS
<1>3. ASSUME NEW S \in SUBSET (1 .. n)
      PROVE  k[S] = IF S = {} THEN <<>> ELSE Heed(k[S \ {Max(S)}], s[Max(S)])
  <2> HIDE DEF k
  <2>1. Cardinality(S) <= n /\ S \ {Max(S)} \in SUBSET (1 .. n)
    BY PlacesAre
  <2>2. k[S] = g[S] /\ k[S \ {Max(S)}] = g[S \ {Max(S)}]
    BY <1>2, <2>1
  <2>3. g[S] = IF S = {} THEN <<>> ELSE Heed(g[S \ {Max(S)}], s[Max(S)])
    BY <1>1, <2>1 DEF Folds
  <2> QED
    BY <2>2, <2>3
<1>4. k = body
  BY <1>3
<1> QED
  BY <1>4 DEF Fold

\* The orderings so far, u[i] after the first i of s.
LEMMA FoldIs ==
  ASSUME NEW s, NEW n \in Nat, DOMAIN s = 1 .. n
  PROVE  \E u : /\ u[0] = <<>> /\ FoldLeft(Heed, <<>>, s) = u[n]
                /\ \A i \in 1 .. n : u[i] = Heed(u[i - 1], s[i])
<1> DEFINE g == CHOOSE k : Fold(k, s, n)
<1>1. Fold(g, s, n)
  BY FoldExists
<1>2. FoldLeft(Heed, <<>>, s) = g[1 .. n]
  BY DEF FoldLeft, MapThenFoldSet, Fold
<1> HIDE DEF g
<1> DEFINE u == [i \in 0 .. n |-> g[1 .. i]]
<1>3. u[0] = <<>>
  <2>1. 1 .. 0 = {} /\ {} \in SUBSET (1 .. n)
    OBVIOUS
  <2>2. g[{}] = <<>>
    BY <1>1, <2>1 DEF Fold
  <2> QED
    BY <2>1, <2>2
<1>4. ASSUME NEW i \in 1 .. n PROVE u[i] = Heed(u[i - 1], s[i])
  <2> HIDE DEF u
  <2>1. 1 .. i \in SUBSET (1 .. n) /\ 1 .. i # {} /\ i \in 0 .. n /\ i - 1 \in 0 .. n
    <3>1. i \in Nat /\ 1 <= i /\ i <= n
      OBVIOUS
    <3>2. \A x \in 1 .. i : x \in 1 .. n
      BY <3>1
    <3>3. 1 .. i \in SUBSET (1 .. n)
      BY ONLY <3>2
    <3>4. i \in 1 .. i /\ i \in 0 .. n /\ i - 1 \in 0 .. n
      BY ONLY <3>1, n \in Nat
    <3> QED
      BY <3>3, <3>4
  <2>2. Max(1 .. i) = i
    <3>1. i \in 1 .. i /\ \A y \in 1 .. i : i >= y
      OBVIOUS
    <3>2. \A x \in 1 .. i : (\A y \in 1 .. i : x >= y) => x = i
      OBVIOUS
    <3> QED
      BY <3>1, <3>2 DEF Max
  <2>3. (1 .. i) \ {i} = 1 .. (i - 1)
    <3>1. \A x \in Int : x \in 1 .. i /\ x # i <=> x \in 1 .. (i - 1)
      BY <1>4
    <3>2. 1 .. i \subseteq Int /\ 1 .. (i - 1) \subseteq Int
      BY <1>4
    <3> QED
      BY ONLY <3>1, <3>2
  <2>4. g[1 .. i] = Heed(g[1 .. (i - 1)], s[i])
    BY <1>1, <2>1, <2>2, <2>3 DEF Fold
  <2>5. \A x \in 0 .. n : u[x] = g[1 .. x]
    BY DEF u
  <2> QED
    BY <2>1, <2>4, <2>5
<1>5. u[n] = g[1 .. n]
  OBVIOUS
<1> QED
  BY <1>2, <1>3, <1>4, <1>5

\* What seen is after the first m of s: each candidate among them, once, by first mention.
Heeded(seen, s, m) ==
  /\ seen \in Seq(Ids)
  /\ \A i, k \in 1 .. Len(seen) : i # k => seen[i] # seen[k]
  /\ \A i \in 1 .. Len(seen) : \E k \in 1 .. m : s[k] = seen[i]
  /\ \A k \in 1 .. m : s[k] \in Ids => \E i \in 1 .. Len(seen) : seen[i] = s[k]
  /\ \A i, j \in 1 .. Len(seen) :
       i < j => \E k \in 1 .. m : s[k] = seen[i] /\ \A l \in 1 .. m : s[l] = seen[j] => k < l

LEMMA HeedKeeps ==
  ASSUME NEW s, NEW m \in Nat, NEW seen, Heeded(seen, s, m), s[m + 1] \in Ids \union {Failed}
  PROVE  Heeded(Heed(seen, s[m + 1]), s, m + 1)
<1> PICK n : n = m + 1
  OBVIOUS
<1> PICK x : x = s[n]
  OBVIOUS
<1>1. n \in Nat /\ 1 .. n = 1 .. m \union {n} /\ \A k \in 1 .. m : k < n
  OBVIOUS
<1>2. Len(seen) \in Nat /\ \A i \in 1 .. Len(seen) : seen[i] \in Ids
  BY LenProperties, ElementOfSeq DEF Heeded
<1>3. CASE x \notin Ids \/ Contains(seen, x)
  <2>1. Heed(seen, x) = seen
    BY <1>3 DEF Heed
  <2>2. x \in Ids => \E i \in 1 .. Len(seen) : seen[i] = x
    BY <1>3 DEF Contains
  <2>3. \A i \in 1 .. Len(seen) : \E k \in 1 .. n : s[k] = seen[i]
    BY <1>1 DEF Heeded
  <2>4. \A k \in 1 .. n : s[k] \in Ids => \E i \in 1 .. Len(seen) : seen[i] = s[k]
    BY <1>1, <2>2 DEF Heeded
  <2>5. ASSUME NEW i \in 1 .. Len(seen), NEW j \in 1 .. Len(seen), i < j
        PROVE  \E k \in 1 .. n : s[k] = seen[i] /\ \A l \in 1 .. n : s[l] = seen[j] => k < l
    <3>1. PICK k \in 1 .. m : s[k] = seen[i] /\ \A l \in 1 .. m : s[l] = seen[j] => k < l
      BY <2>5 DEF Heeded
    <3> QED
      BY <1>1, <3>1
  <2> QED
    BY <2>1, <2>3, <2>4, <2>5 DEF Heeded
<1>4. CASE x \in Ids /\ ~Contains(seen, x)
  <2> PICK p : p = Len(seen)
    OBVIOUS
  <2> PICK more : more = Append(seen, x)
    OBVIOUS
  <2>1. Heed(seen, x) = more
    BY <1>4, RankingAssumption DEF Heed
  <2>2. /\ more \in Seq(Ids) /\ Len(more) = p + 1 /\ more[p + 1] = x
        /\ \A i \in 1 .. p : more[i] = seen[i]
    BY <1>4, AppendProperties DEF Heeded
  <2>3. /\ p \in Nat /\ 1 .. Len(more) = 1 .. p \union {p + 1}
        /\ \A i \in 1 .. p : i < p + 1 /\ i # p + 1
    BY <1>2, <2>2
  <2>4. \A i \in 1 .. p : seen[i] # x
    BY <1>4 DEF Contains
  <2>5. \A i, k \in 1 .. Len(more) : i # k => more[i] # more[k]
    BY <2>2, <2>3, <2>4 DEF Heeded
  <2>6. \A i \in 1 .. Len(more) : \E k \in 1 .. n : s[k] = more[i]
    BY <1>1, <2>2, <2>3 DEF Heeded
  <2>7. ASSUME NEW k \in 1 .. n, s[k] \in Ids PROVE \E i \in 1 .. Len(more) : more[i] = s[k]
    <3>1. CASE k \in 1 .. m
      <4>1. PICK i \in 1 .. p : seen[i] = s[k]
        BY <2>7, <3>1 DEF Heeded
      <4> QED
        BY <2>2, <2>3, <4>1
    <3>2. CASE k = n
      BY <2>2, <2>3, <3>2
    <3> QED
      BY <1>1, <3>1, <3>2
  <2>8. ASSUME NEW i \in 1 .. Len(more), NEW j \in 1 .. Len(more), i < j
        PROVE  \E k \in 1 .. n : s[k] = more[i] /\ \A l \in 1 .. n : s[l] = more[j] => k < l
    <3>1. i \in 1 .. p /\ more[i] = seen[i]
      BY <2>2, <2>3, <2>8
    <3>2. CASE j \in 1 .. p
      <4>1. PICK k \in 1 .. m : s[k] = seen[i] /\ \A l \in 1 .. m : s[l] = seen[j] => k < l
        BY <2>8, <3>1, <3>2 DEF Heeded
      <4>2. more[j] = seen[j]
        BY <2>2, <3>2
      <4> QED
        BY <1>1, <3>1, <4>1, <4>2
    <3>3. CASE j = p + 1
      <4>1. PICK k \in 1 .. m : s[k] = seen[i]
        BY <3>1 DEF Heeded
      <4>2. \A l \in 1 .. m : s[l] # x
        BY <1>4, <2>4 DEF Heeded
      <4>3. \A l \in 1 .. n : s[l] = x => k < l
        BY <1>1, <4>2
      <4> QED
        BY <1>1, <2>2, <3>1, <3>3, <4>1, <4>3
    <3> QED
      BY <2>3, <3>2, <3>3
  <2>9. Heeded(more, s, n)
    BY ONLY <2>2, <2>5, <2>6, <2>7, <2>8 DEF Heeded
  <2> QED
    BY <2>1, <2>9
<1> QED
  BY <1>3, <1>4

LEMMA HeededIs ==
  ASSUME NEW s, NEW n \in Nat, DOMAIN s = 1 .. n, \A i \in 1 .. n : s[i] \in Ids \union {Failed}
  PROVE  Heeded(FoldLeft(Heed, <<>>, s), s, n)
<1>1. PICK u : /\ u[0] = <<>> /\ FoldLeft(Heed, <<>>, s) = u[n]
               /\ \A i \in 1 .. n : u[i] = Heed(u[i - 1], s[i])
  BY FoldIs
<1> DEFINE Bad == {m \in 0 .. n : ~Heeded(u[m], s, m)}
<1>2. Bad = {}
  <2> SUFFICES ASSUME Bad # {} PROVE FALSE
    OBVIOUS
  <2>1. PICK m \in Bad : \A k \in Bad : m <= k
    <3>1. Bad \subseteq Nat
      OBVIOUS
    <3> HIDE DEF Bad
    <3> QED
      BY <3>1, LeastExists
  <2>2. m \in 0 .. n /\ ~Heeded(u[m], s, m)
    OBVIOUS
  <2>3. CASE m = 0
    <3>1. <<>> \in Seq(Ids) /\ Len(<<>>) = 0
      OBVIOUS
    <3>2. Heeded(<<>>, s, 0)
      BY <3>1 DEF Heeded
    <3> QED
      BY <1>1, <2>2, <2>3, <3>2
  <2>4. CASE m > 0
    <3> PICK k : k = m - 1
      OBVIOUS
    <3>1. k \in Nat /\ k \in 0 .. n /\ m = k + 1 /\ m \in 1 .. n /\ ~(m <= k)
      BY <2>2, <2>4
    <3>2. Heeded(u[k], s, k)
      BY <2>1, <3>1
    <3>3. Heeded(Heed(u[k], s[k + 1]), s, k + 1)
      BY <3>1, <3>2, HeedKeeps
    <3> QED
      BY <1>1, <2>2, <3>1, <3>3
  <2> QED
    BY <2>2, <2>3, <2>4
<1> QED
  BY <1>1, <1>2

\* A list that heeds all candidates is an ordering of them.
LEMMA HeededAll ==
  ASSUME NEW s, NEW m \in Nat, NEW seen, Heeded(seen, s, m), \A x \in Ids : \E k \in 1 .. m : s[k] = x
  PROVE  /\ seen \in Orderings /\ Len(seen) = Cardinality(Ids)
<1> PICK p : p = Len(seen)
  OBVIOUS
<1>1. p \in Nat /\ DOMAIN seen = 1 .. p /\ seen \in [1 .. p -> Ids]
  BY LenProperties DEF Heeded
<1>2. \A i, k \in 1 .. p : i # k => seen[i] # seen[k]
  BY DEF Heeded
<1>3. \A x \in Ids : \E i \in 1 .. p : seen[i] = x
  <2>1. \A k \in 1 .. m : s[k] \in Ids => \E i \in 1 .. p : seen[i] = s[k]
    BY DEF Heeded
  <2> QED
    BY <2>1
<1>4. seen \in Bijection(1 .. p, Ids)
  BY <1>1, <1>2, <1>3 DEF Bijection, Injection, Surjection, IsInjective
<1>5. Cardinality(Ids) = p
  BY <1>1, <1>4, FS_CountingElements DEF ExistsBijection
<1> QED
  BY <1>1, <1>2, <1>5 DEF Orderings, SetToSeqs

Reply == shown \in [Letters -> Ids] /\ letters \in Seq(Letters \union {Z}) /\ Len(letters) <= MaxLetters

\* Where list s, of n, has the candidates: at the letters that name them, and after the p
\* letters at their places in all.
Listed(s, n, p, all) ==
  /\ n \in Nat /\ p \in Nat /\ p <= MaxLetters /\ p <= n
  /\ \A i \in 1 .. n : s[i] \in Ids \union {Failed}
  /\ \A x \in Ids : Named(x) = {i \in 1 .. p : s[i] = x}
  /\ \A x \in Ids : /\ Position(all, x) \in Nat /\ p + Position(all, x) + 1 \in 1 .. n
                    /\ \A i \in (p + 1) .. n : s[i] = x <=> i = p + Position(all, x) + 1

LEMMA ReplyListed ==
  ASSUME Reply, NEW all \in Orderings
  PROVE  \E s, n, p : /\ DOMAIN s = 1 .. n /\ Listed(s, n, p, all)
                      /\ LettersToIds(letters, shown, all) = FoldLeft(Heed, <<>>, s)
<1> PICK p, c : p = Len(letters) /\ c = Cardinality(Ids)
  OBVIOUS
<1> PICK ids : ids = [i \in DOMAIN letters |->
                        IF letters[i] \in DOMAIN shown THEN shown[letters[i]] ELSE Failed]
  OBVIOUS
<1> PICK s : s = ids \o all
  OBVIOUS
<1>1. /\ p \in Nat /\ p <= MaxLetters /\ DOMAIN letters = 1 .. p /\ DOMAIN shown = Letters
      /\ \A l \in Letters : shown[l] \in Ids
  BY DEF Reply
<1>2. c \in Nat
  BY RankingAssumption, FS_CardinalityType
<1>3. ids \in Seq(Ids \union {Failed}) /\ Len(ids) = p
  BY <1>1
<1>4. all \in Seq(Ids \union {Failed}) /\ Len(all) = c
  BY <1>2 DEF Orderings, SetToSeqs
<1>5. /\ s \in Seq(Ids \union {Failed}) /\ Len(s) = p + c
      /\ \A i \in 1 .. p + c : s[i] = IF i <= p THEN ids[i] ELSE all[i - p]
  BY <1>3, <1>4, ConcatProperties
<1> PICK n : n = p + c
  OBVIOUS
<1>6. n \in Nat /\ p <= n
  BY <1>1, <1>2
<1>7. DOMAIN s = 1 .. n /\ \A i \in 1 .. n : s[i] \in Ids \union {Failed}
  BY <1>5, <1>6, LenProperties, ElementOfSeq
<1>8. ASSUME NEW x \in Ids PROVE Named(x) = {i \in 1 .. p : s[i] = x}
  <2>1. ASSUME NEW i \in 1 .. p
        PROVE  s[i] = x <=> letters[i] \in Letters /\ shown[letters[i]] = x
    <3>1. i \in 1 .. p + c /\ i <= p
      BY <1>1, <1>2
    <3>2. s[i] = ids[i]
      BY <1>5, <3>1
    <3> QED
      BY <1>1, <3>2, RankingAssumption
  <2> QED
    BY <1>1, <2>1 DEF Named
<1>9. ASSUME NEW x \in Ids
      PROVE  /\ Position(all, x) \in Nat /\ p + Position(all, x) + 1 \in 1 .. n
             /\ \A i \in (p + 1) .. n : s[i] = x <=> i = p + Position(all, x) + 1
  <2> PICK k : k = Position(all, x)
    OBVIOUS
  <2>1. k \in Nat /\ k + 1 \in 1 .. c /\ all[k + 1] = x
    BY <1>4, OrderingIs
  <2>2. \A i, j \in 1 .. c : all[i] = all[j] => i = j
    BY DEF Orderings, SetToSeqs
  <2>3. ASSUME NEW i \in (p + 1) .. n PROVE s[i] = x <=> i = p + k + 1
    <3>1. i - p \in 1 .. c /\ i \in 1 .. p + c /\ ~(i <= p)
      BY ONLY <1>1, <1>2, i \in (p + 1) .. n, n = p + c
    <3>2. s[i] = all[i - p]
      BY <1>5, <3>1
    <3>3. s[i] = x <=> i - p = k + 1
      BY <2>1, <2>2, <3>1, <3>2
    <3> QED
      BY ONLY <1>1, <2>1, <3>1, <3>3
  <2>4. p + k + 1 \in 1 .. n
    BY ONLY <1>1, <1>2, <2>1, n = p + c
  <2> QED
    BY <2>1, <2>3, <2>4
<1>10. LettersToIds(letters, shown, all) = FoldLeft(Heed, <<>>, s)
  BY DEF LettersToIds
<1>11. Listed(s, n, p, all)
  BY <1>1, <1>6, <1>7, <1>8, <1>9 DEF Listed
<1> QED
  BY <1>7, <1>10, <1>11

LEMMA MentionIs ==
  ASSUME NEW s, NEW n, NEW p, NEW all, Listed(s, n, p, all), NEW x \in Ids
  PROVE  /\ \A i \in 1 .. p : s[i] = x <=> i \in Named(x)
         /\ Named(x) # {} => /\ Mention(x, all) \in Named(x) /\ Mention(x, all) \in 1 .. p
                             /\ \A i \in Named(x) : Mention(x, all) <= i
         /\ Named(x) = {} => Mention(x, all) = MaxLetters + Position(all, x) + 1
         /\ Position(all, x) \in Nat /\ Mention(x, all) \in Nat
<1>1. Named(x) = {i \in 1 .. p : s[i] = x} /\ Position(all, x) \in Nat /\ MaxLetters \in Nat
  BY RepliesAssumption DEF Listed
<1>2. Named(x) \subseteq Nat /\ Named(x) \subseteq 1 .. p
  BY <1>1
<1>3. Named(x) # {} => \E i \in Named(x) : \A j \in Named(x) : i <= j
  BY <1>2, LeastExists
<1> QED
  BY <1>1, <1>2, <1>3 DEF Mention

\* A candidate that list s has before another is mentioned before it.
LEMMA MentionedBefore ==
  ASSUME NEW s, NEW n, NEW p, NEW all, Listed(s, n, p, all), NEW a \in Ids, NEW b \in Ids,
         NEW k \in 1 .. n, s[k] = a, \A l \in 1 .. n : s[l] = b => k < l
  PROVE  Mention(a, all) < Mention(b, all)
<1>1. n \in Nat /\ p \in Nat /\ p <= MaxLetters /\ p <= n /\ MaxLetters \in Nat
  BY RepliesAssumption DEF Listed
<1>2. ASSUME NEW x \in Ids
      PROVE  /\ \A i \in 1 .. p : s[i] = x <=> i \in Named(x)
             /\ Named(x) # {} => /\ Mention(x, all) \in Named(x) /\ Mention(x, all) \in 1 .. p
                                 /\ \A i \in Named(x) : Mention(x, all) <= i
             /\ Named(x) = {} => Mention(x, all) = MaxLetters + Position(all, x) + 1
             /\ Position(all, x) \in Nat /\ Mention(x, all) \in Nat
  BY MentionIs
<1>3. CASE Named(b) # {}
  <2> PICK l : l = Mention(b, all)
    OBVIOUS
  <2>1. l \in Named(b) /\ l \in 1 .. p /\ s[l] = b
    BY <1>2, <1>3
  <2>2. l \in 1 .. n
    BY ONLY <1>1, <2>1
  <2>3. k < l
    BY <2>1, <2>2
  <2>4. k \in 1 .. p
    BY ONLY <1>1, <2>1, <2>3, k \in 1 .. n
  <2>5. Mention(a, all) <= k
    BY <1>2, <2>4
  <2> QED
    BY <1>2, <2>3, <2>5
<1>4. CASE Named(b) = {} /\ Named(a) # {}
  <2> PICK i, j : i = Mention(a, all) /\ j = Position(all, b)
    OBVIOUS
  <2>1. i \in 1 .. p /\ Mention(b, all) = MaxLetters + j + 1 /\ j \in Nat
    BY <1>2, <1>4
  <2>2. i < MaxLetters + j + 1
    BY ONLY <1>1, <2>1
  <2> QED
    BY <2>1, <2>2
<1>5. CASE Named(b) = {} /\ Named(a) = {}
  <2> PICK i, j : i = Position(all, a) /\ j = Position(all, b)
    OBVIOUS
  <2>1. /\ Mention(a, all) = MaxLetters + i + 1 /\ i \in Nat
        /\ Mention(b, all) = MaxLetters + j + 1 /\ j \in Nat
    BY <1>2, <1>5
  <2>2. k \notin 1 .. p
    BY <1>2, <1>5
  <2>3. k \in (p + 1) .. n
    BY ONLY <1>1, <2>2, k \in 1 .. n
  <2>4. k = p + i + 1
    BY <2>3 DEF Listed
  <2>5. p + j + 1 \in 1 .. n /\ (p + j + 1 \in (p + 1) .. n => s[p + j + 1] = b)
    BY DEF Listed
  <2>6. p + j + 1 \in (p + 1) .. n
    BY ONLY <1>1, <2>1, <2>5
  <2>7. k < p + j + 1
    BY <2>5, <2>6
  <2>8. MaxLetters + i + 1 < MaxLetters + j + 1
    BY ONLY <1>1, <2>1, <2>4, <2>7
  <2> QED
    BY <2>1, <2>8
<1> QED
  BY <1>3, <1>4, <1>5

LEMMA ReplyIs ==
  ASSUME Reply, NEW all \in Orderings
  PROVE  LET heeded == LettersToIds(letters, shown, all)
         IN /\ heeded \in Orderings
            /\ \A a, b \in Ids :
                 Position(heeded, a) < Position(heeded, b) <=> Mention(a, all) < Mention(b, all)
<1> PICK heeded : heeded = LettersToIds(letters, shown, all)
  OBVIOUS
<1>1. PICK s, n, p : /\ DOMAIN s = 1 .. n /\ Listed(s, n, p, all)
                     /\ heeded = FoldLeft(Heed, <<>>, s)
  BY ReplyListed
<1>2. n \in Nat /\ \A i \in 1 .. n : s[i] \in Ids \union {Failed}
  BY <1>1 DEF Listed
<1>3. Heeded(heeded, s, n)
  BY <1>1, <1>2, HeededIs
<1>4. \A x \in Ids : \E k \in 1 .. n : s[k] = x
  <2> TAKE x \in Ids
  <2> PICK k : k = p + Position(all, x) + 1
    OBVIOUS
  <2>1. /\ p \in Nat /\ Position(all, x) \in Nat /\ k \in 1 .. n
        /\ (k \in (p + 1) .. n => s[k] = x)
    BY <1>1 DEF Listed
  <2>2. k \in (p + 1) .. n
    BY ONLY <1>2, <2>1, k = p + Position(all, x) + 1
  <2> QED
    BY <2>1, <2>2
<1>5. heeded \in Orderings /\ Len(heeded) = Cardinality(Ids)
  BY <1>2, <1>3, <1>4, HeededAll
<1>6. ASSUME NEW a \in Ids, NEW b \in Ids, Position(heeded, a) < Position(heeded, b)
      PROVE  Mention(a, all) < Mention(b, all)
  <2> PICK i, j : i = Position(heeded, a) + 1 /\ j = Position(heeded, b) + 1
    OBVIOUS
  <2>1. /\ i \in 1 .. Len(heeded) /\ heeded[i] = a /\ j \in 1 .. Len(heeded) /\ heeded[j] = b
        /\ Position(heeded, a) \in Nat /\ Position(heeded, b) \in Nat
    BY <1>5, OrderingIs
  <2>2. i < j
    BY <1>6, <2>1
  <2>3. PICK k \in 1 .. n : s[k] = heeded[i] /\ \A l \in 1 .. n : s[l] = heeded[j] => k < l
    BY ONLY <1>3, <2>1, <2>2 DEF Heeded
  <2>4. s[k] = a /\ \A l \in 1 .. n : s[l] = b => k < l
    BY ONLY <2>1, <2>3
  <2>5. Listed(s, n, p, all)
    BY <1>1
  <2> QED
    BY ONLY <2>4, <2>5, MentionedBefore, a \in Ids, b \in Ids, k \in 1 .. n
<1>7. ASSUME NEW a \in Ids, NEW b \in Ids, Mention(a, all) < Mention(b, all)
      PROVE  Position(heeded, a) < Position(heeded, b)
  <2> PICK i, j, u, v : /\ i = Position(heeded, a) /\ j = Position(heeded, b)
                        /\ u = Mention(a, all) /\ v = Mention(b, all)
    OBVIOUS
  <2>1. i \in Nat /\ j \in Nat /\ heeded[i + 1] = a /\ heeded[j + 1] = b
    BY <1>5, OrderingIs
  <2>2. u \in Nat /\ v \in Nat
    BY <1>1, MentionIs
  <2>3. CASE j < i
    <3>1. v < u
      BY <1>6, <2>3
    <3> QED
      BY <1>7, <2>2, <3>1
  <2>4. CASE i = j
    <3>1. u = v
      BY <2>1, <2>4
    <3> QED
      BY <1>7, <2>2, <3>1
  <2>5. i < j \/ i = j \/ j < i
    BY <2>1
  <2> QED
    BY <2>3, <2>4, <2>5
<1> QED
  BY <1>5, <1>6, <1>7

\* letters_to_ids: whatever letters a judge answers, missing, repeated or made up, and in
\* whatever order the candidates are configured, it gives an ordering of all of them, those
\* named by first mention and then the others as configured.
THEOREM DecisionsLettersHeeded == CasesSpec => []LettersHeeded
<1> DEFINE ReplyInv == topic = "reply" => Reply
<1>1. CasesInit => ReplyInv
  <2>1. Mappings \subseteq [Letters -> Ids] /\ <<>> \in Seq(Letters \union {Z}) /\ Len(<<>>) = 0
    BY DEF Mappings
  <2>2. 0 <= MaxLetters
    BY RepliesAssumption
  <2> QED
    BY <2>1, <2>2 DEF CasesInit, Reply
<1>2. ReplyInv /\ [CasesNext]_<<cases, vars>> => ReplyInv'
  <2>1. ASSUME ReplyInv, NEW l \in Letters \union {Z}, Say(l) PROVE ReplyInv'
    <3>1. /\ topic = "reply" /\ Len(letters) < MaxLetters
          /\ letters' = Append(letters, l) /\ shown' = shown
      BY <2>1 DEF Say
    <3>2. Reply
      BY <2>1, <3>1
    <3>3. letters' \in Seq(Letters \union {Z}) /\ Len(letters') = Len(letters) + 1
      BY <3>1, <3>2, AppendProperties DEF Reply
    <3>4. Len(letters') <= MaxLetters
      BY <3>1, <3>2, <3>3, LenProperties, RepliesAssumption DEF Reply
    <3> QED
      BY <3>1, <3>2, <3>3, <3>4 DEF Reply
  <2>2. ASSUME ReplyInv, Evaluate \/ UNCHANGED <<cases, vars>> PROVE ReplyInv'
    BY <2>2 DEF Evaluate, cases, Reply
  <2> QED
    BY <2>1, <2>2 DEF CasesNext
<1>3. ReplyInv => LettersHeeded
  BY ReplyIs DEF LettersHeeded
<1> QED
  BY <1>1, <1>2, <1>3, PTL DEF CasesSpec
=============================================================================
