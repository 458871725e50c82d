------------------------------- MODULE Evals -------------------------------
(***************************************************************************)
(* The offline eval (evals/harness.py, run by evals/run.py): every item of *)
(* the dataset is run as a council and as a single model, both answers are *)
(* scored into the bucket of the item's class, and the report decides      *)
(* which classes are routed to the single model and whether the CI gate    *)
(* passes.                                                                 *)
(*                                                                         *)
(* An item is its class.  What a run answers is its score; that a run ends *)
(* is RunEnds of Orchestrator, that it may raise QuorumNeverRaises.  Scores *)
(* are whole numbers, and averages are compared by their numerators: both  *)
(* averages of a bucket have its n as their denominator.                   *)
(***************************************************************************)
EXTENDS Integers, Sequences, FiniteSets, Functions

CONSTANTS
  Classes,     \* query classes
  MaxItems,    \* bound: items of the dataset
  Top,         \* the best score
  HighValue,   \* classes given to assert_no_regression
  MinUplift    \* min_uplift

ASSUME EvalsAssumption ==
  /\ MaxItems \in Nat
  /\ Top \in Nat
  /\ HighValue \subseteq Classes
  /\ MinUplift \in Int

Scores == 0 .. Top

VARIABLES
  pc,        \* "council" or "single": the run awaited; "reported", "passed", "failed", "aborted"
  dataset,   \* load_dataset
  held,      \* the score of the council's answer to the item at hand
  report,    \* EvalReport.classes
  marks      \* the scores given so far, item by item (history)

vars == <<pc, dataset, held, report, marks>>

-----------------------------------------------------------------------------

\* Seeded fault: a bucket is made for every item.
Bucket_Fresh(class) == [n |-> 0, council |-> 0, single |-> 0]

\* EvalReport.bucket
Bucket(class) ==
  IF class \in DOMAIN report THEN report[class] ELSE [n |-> 0, council |-> 0, single |-> 0]

Added(bucket, council, single) ==
  [n |-> bucket.n + 1, council |-> bucket.council + council, single |-> bucket.single + single]

\* n times the uplift of a class.
Uplift(class) == report[class].council - report[class].single

\* decision_overrides
Overrides == {class \in DOMAIN report : Uplift(class) <= 0}

\* Seeded fault: the gate compares the council's average.
Regressed_Average(class) == report[class].council < MinUplift * report[class].n

Regressed(class) == Uplift(class) < MinUplift * report[class].n

-----------------------------------------------------------------------------

Init ==
  /\ dataset \in UNION {[1 .. n -> Classes] : n \in 0 .. MaxItems}
  /\ pc = IF dataset = <<>> THEN "reported" ELSE "council"
  /\ held = 0
  /\ report = [class \in {} |-> Bucket(class)]
  /\ marks = <<>>

CouncilAnswers(score) ==
  /\ pc = "council"
  /\ pc' = "single"
  /\ held' = score
  /\ UNCHANGED <<dataset, report, marks>>

\* Both answers are scored, and the next item begins.
SingleAnswers(score) ==
  LET class == dataset[Len(marks) + 1] IN
  /\ pc = "single"
  /\ pc' = IF Len(marks) + 1 < Len(dataset) THEN "council" ELSE "reported"
  /\ report' = [c \in DOMAIN report \union {class} |->
                  IF c = class THEN Added(Bucket(c), held, score) ELSE report[c]]
  /\ marks' = Append(marks, [council |-> held, single |-> score])
  /\ UNCHANGED <<dataset, held>>

\* A run that raises leaves run_eval, and what was scored is lost.
RunRaises ==
  /\ pc \in {"council", "single"}
  /\ pc' = "aborted"
  /\ UNCHANGED <<dataset, held, report, marks>>

\* assert_no_regression: a class without a bucket is passed over.
Gate ==
  /\ pc = "reported"
  /\ pc' = IF \E class \in HighValue \intersect DOMAIN report : Regressed(class)
           THEN "failed" ELSE "passed"
  /\ UNCHANGED <<dataset, held, report, marks>>

RunEnds == (\E score \in Scores : CouncilAnswers(score) \/ SingleAnswers(score)) \/ RunRaises

Next == RunEnds \/ Gate

Spec == Init /\ [][Next]_vars

-----------------------------------------------------------------------------
(* Properties.                                                               *)

ItemsOf(class) == {i \in 1 .. Len(marks) : dataset[i] = class}
Councils == [i \in DOMAIN marks |-> marks[i].council]
Singles  == [i \in DOMAIN marks |-> marks[i].single]

\* The report tells of a class what the items of that class alone tell, in whatever order the
\* dataset mixes the classes; a class that is in the dataset is in a finished report.
ReportOfItems ==
  /\ DOMAIN report = {dataset[i] : i \in 1 .. Len(marks)}
  /\ \A class \in DOMAIN report :
       report[class] = [n |-> Cardinality(ItemsOf(class)),
                        council |-> SumFunctionOnSet(Councils, ItemsOf(class)),
                        single |-> SumFunctionOnSet(Singles, ItemsOf(class))]
  /\ pc \in {"reported", "passed", "failed"} => Len(marks) = Len(dataset)

\* With a positive min_uplift rule and gate agree: a high-value class that the rule sends to
\* the single model never passes the gate.
RuleAndGateAgree == pc = "passed" /\ MinUplift > 0 => HighValue \intersect Overrides = {}

-----------------------------------------------------------------------------
(* What the documents say.                                                   *)

\* BUILD_SPEC.md, "Do NOT ship without the eval harness proving council uplift": a gate that
\* passes has measured the uplift of every high-value class it was given.
PassedMeansProven ==
  pc = "passed" => \A class \in HighValue : class \in DOMAIN report /\ ~Regressed(class)
=============================================================================
