---------------------------- MODULE RunContract ----------------------------
(***************************************************************************)
(* What Orchestrator.run promises the API and the frontend, whatever the   *)
(* stages in between: a run ends once, with a result or with an exception; *)
(* money is only spent while it runs; the result reports what was spent;   *)
(* and a result that is not what triage asked for says so.                 *)
(***************************************************************************)
EXTENDS Naturals

CONSTANTS
  Decisions,   \* the routing decisions
  MaxSpent     \* a natural number; spending beyond this is not told apart

VARIABLES
  status,      \* "running", "answered" or "raised"
  asked,       \* the decision of triage, "undecided" before it
  spent,       \* what the gateway has charged to the run
  reply        \* what the caller is told

vars == <<status, asked, spent, reply>>

NoReply == [decision |-> "none", degraded |-> FALSE, partial |-> FALSE, cost |-> 0]

Init ==
  /\ status = "running"
  /\ asked = "undecided"
  /\ spent = 0
  /\ reply = NoReply

Spend == spent' \in spent .. MaxSpent

\* Triage decides at most once, at any step of the run.
Route == asked' = asked \/ (asked = "undecided" /\ asked' \in Decisions)

Honest(r, wanted) == r.decision = wanted \/ r.degraded \/ r.partial

Work ==
  /\ status = "running"
  /\ Route
  /\ Spend
  /\ UNCHANGED <<status, reply>>

Answer ==
  /\ status = "running"
  /\ status' = "answered"
  /\ Route
  /\ Spend
  /\ reply' \in [decision : Decisions, degraded : BOOLEAN, partial : BOOLEAN, cost : {spent'}]
  /\ Honest(reply', asked')

Raise ==
  /\ status = "running"
  /\ status' = "raised"
  /\ Route
  /\ Spend
  /\ UNCHANGED reply

Next == Work \/ Answer \/ Raise

Spec == Init /\ [][Next]_vars
=============================================================================
