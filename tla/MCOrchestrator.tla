--------------------------- MODULE MCOrchestrator ---------------------------
(* Small instances of Orchestrator for TLC.                                  *)
EXTENDS Orchestrator

CONSTANTS j1, j2, a1, a2

\* class_routing of config/default.yaml
MCRouting == [trivial |-> "single_model", standard |-> "single_model",
              high_stakes |-> "council", verifiable_reasoning |-> "council_with_voting"]

\* Three proposers that must all answer, max_rounds at its edge (which still debates once), the
\* wall clock on.
Bounded ==
  [n |-> 3, quorum |-> 3, orderings |-> 2, max_rounds |-> 0, debate |-> TRUE,
   wall_clock |-> TRUE, verify |-> TRUE, guardrail |-> FALSE, store |-> TRUE]

\* Two proposers of which one must answer, two rounds, a hook, no wall clock.
Unbounded ==
  [n |-> 2, quorum |-> 1, orderings |-> 2, max_rounds |-> 2, debate |-> TRUE,
   wall_clock |-> FALSE, verify |-> TRUE, guardrail |-> TRUE, store |-> FALSE]

\* Three proposers of which two must answer.
Majority == [Bounded EXCEPT !.quorum = 2, !.store = FALSE]

Ask(single, council, short, budget, daily) ==
  [force_single |-> single, force_council |-> council, short |-> short,
   budget |-> budget, daily |-> daily]

\* What the policy estimates under configuration c.
Priced(c) == c.n + c.n * c.orderings + 1

\* A council by request, without a budget and with one that it just fits in.
MCCouncil(c) ==
  {Ask(FALSE, TRUE, FALSE, NoLimit, NoLimit), Ask(FALSE, TRUE, FALSE, Priced(c), NoLimit)}

\* A classified query without and with a budget a council just fits in, a council by request
\* that the day has no room for, a forced and a short single answer.
MCAll(c) ==
  {Ask(FALSE, FALSE, FALSE, NoLimit, NoLimit),
   Ask(FALSE, FALSE, FALSE, Priced(c), NoLimit),
   Ask(FALSE, TRUE, FALSE, NoLimit, Priced(c) - 1),
   Ask(TRUE, TRUE, FALSE, NoLimit, NoLimit),
   Ask(FALSE, FALSE, TRUE, 0, NoLimit)}

MCConfigs  == {Bounded, Unbounded}
MCContexts == [c \in MCConfigs |-> IF c = Bounded THEN MCAll(c) ELSE MCCouncil(c)]

MCMajority == {Majority}
MCMajorityContexts == [c \in MCMajority |-> MCAll(c)]

MCHooked == {[Bounded EXCEPT !.guardrail = TRUE]}
MCHookedContexts == [c \in MCHooked |-> MCAll(c)]
=============================================================================
