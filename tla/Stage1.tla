------------------------------- MODULE Stage1 -------------------------------
(***************************************************************************)
(* run_stage1 (council/proposers.py) of several runs at once over the one  *)
(* LLMGateway of the process: what a failing provider, a breaker opened by *)
(* one run and a run cancelled by its wall clock mean for the other runs.  *)
(*                                                                         *)
(* The calls are those of Gateway, without the exact cache: one to every   *)
(* proposer, all asked the same, and the one made when nobody survived.    *)
(* A provider may fail while its model is sick, and is only ever slow when *)
(* it is not.                                                              *)
(***************************************************************************)
EXTENDS Naturals, FiniteSets

CONSTANTS
  Runs,
  Proposers,      \* the models there are
  Panel,          \* those a run asks: council.proposers, or the ones it is given
  First,          \* the first of them
  Again,          \* the call after a stage that nobody survived
  Quorum,         \* council.quorum
  Sick,           \* the models that may be sick to begin with
  Prompt,
  NoModel, Fallback, NoText, FailThreshold, ResetAfter, MaxRetries

ASSUME Stage1Assumption ==
  /\ Panel \in [Runs -> SUBSET Proposers]
  /\ First \in [Runs -> Proposers]
  /\ Again \notin Proposers
  /\ IsFiniteSet(Proposers)
  /\ Quorum \in Nat
  /\ Sick \subseteq Proposers
ASSUME GatewayAssumption ==
  /\ NoModel \notin Proposers
  /\ Fallback \in [Proposers -> Proposers \union {NoModel}]
  /\ {FailThreshold, ResetAfter, MaxRetries} \subseteq Nat

Asked(c) == IF c[2] = Again THEN First[c[1]] ELSE c[2]

\* The calls a run may make.
CallsOf(r) == {r} \X (Panel[r] \union {Again})

VARIABLES
  stage,    \* of a run: "new", "gather", "again", "cancelled", or how it ended: "met", "degraded"
  sick,     \* the models that are sick
  clear,    \* history: when the run began all was well again
  pc, model, prompt, slot, attempt, outcome, text, charged, sent, gaveUp, breaker, cache

gateway == <<pc, model, prompt, slot, attempt, outcome, text, charged, sent, gaveUp, breaker, cache>>
vars    == <<stage, sick, clear, gateway>>

Gateway ==
  INSTANCE Gateway WITH
    Calls     <- UNION {CallsOf(r) : r \in Runs},
    Models    <- Proposers,
    Reachable <- Proposers,
    Prompts   <- {Prompt},
    CacheKey  <- [p \in {Prompt} |-> p],
    CacheOn   <- FALSE

-----------------------------------------------------------------------------

Gather(r) == {<<r, p>> : p \in Panel[r]}

EffectiveQuorum(r) ==
  LET n == Cardinality(Panel[r])
      q == IF Quorum < n THEN Quorum ELSE n
  IN IF q > 1 THEN q ELSE 1

Successes(r) == {c \in Gather(r) : outcome[c] = "ok"}

Init ==
  /\ Gateway!Init
  /\ \A c \in DOMAIN model : model[c] = Asked(c)
  /\ stage = [r \in Runs |-> "new"]
  /\ sick = Sick
  /\ clear = [r \in Runs |-> FALSE]

Cool(b) == b.state = "open" => Gateway!CooledDown(b)

\* A run reaches its first stage: its calls become tasks.
Begin(r) ==
  /\ stage[r] = "new"
  /\ stage' = [stage EXCEPT ![r] = "gather"]
  /\ clear' = [clear EXCEPT ![r] =
       /\ sick = {}
       /\ \A m \in Proposers : Cool(breaker[m])
       /\ \A c \in DOMAIN pc : pc[c] \notin Gateway!Suspended]
  /\ UNCHANGED <<sick, gateway>>

\* The calls of a run that are made in its stage.
Live(c) == stage[c[1]] = (IF c[2] = Again THEN "again" ELSE "gather")

CallStarts(c) == Live(c) /\ Gateway!Start(c) /\ UNCHANGED <<stage, sick, clear>>

\* A provider answers, or, when it is sick, refuses or fails; or a retry is made.
CallGoesOn(c) ==
  /\ Live(c)
  /\ \/ Gateway!Answered(c)
     \/ Gateway!Wake(c)
     \/ /\ pc[c] = "provider" /\ Gateway!Current(c) \in sick
        /\ Gateway!Fatal(c) \/ Gateway!TransientRetry(c) \/ Gateway!TransientGiveUp(c)
  /\ UNCHANGED <<stage, sick, clear>>

\* All proposers have ended: a quorum, a survivor to reuse, or one more call.
Resume(r) ==
  /\ stage[r] = "gather"
  /\ \A c \in Gather(r) : pc[c] = "done"
  /\ stage' = [stage EXCEPT ![r] =
       IF Cardinality(Successes(r)) >= EffectiveQuorum(r) THEN "met"
       ELSE IF Successes(r) # {} THEN "degraded" ELSE "again"]
  /\ UNCHANGED <<sick, clear, gateway>>

ResumeAgain(r) ==
  /\ stage[r] = "again"
  /\ pc[<<r, Again>>] = "done"
  /\ stage' = [stage EXCEPT ![r] = "degraded"]
  /\ UNCHANGED <<sick, clear, gateway>>

\* The wall clock of run r cancels its calls; each ends where it is suspended.
Timeout(r) ==
  /\ stage[r] \in {"gather", "again"}
  /\ stage' = [stage EXCEPT ![r] = "cancelled"]
  /\ UNCHANGED <<sick, clear, gateway>>

CallCancelled(c) ==
  /\ stage[c[1]] = "cancelled"
  /\ Gateway!Cancel(c)
  /\ UNCHANGED <<stage, sick, clear>>

\* The providers are well again.
Recover ==
  /\ sick # {}
  /\ sick' = {}
  /\ UNCHANGED <<stage, clear, gateway>>

Tick == Gateway!Tick /\ UNCHANGED <<stage, sick, clear>>

Resumes(r) == Resume(r) \/ ResumeAgain(r)

Next ==
  \/ \E r \in Runs : Begin(r) \/ Resumes(r) \/ Timeout(r)
  \/ \E c \in DOMAIN pc : CallStarts(c) \/ CallGoesOn(c) \/ CallCancelled(c)
  \/ Recover \/ Tick

Spec == Init /\ [][Next]_vars

-----------------------------------------------------------------------------
(* Properties.                                                               *)

\* BUILD_SPEC.md, "no single provider failure can fail a request that has a quorum": a run
\* whose proposers that are never sick make a quorum gets one, if it is not cancelled, whatever
\* the sick ones do to breakers shared by all runs.
QuorumDespiteSick ==
  \A r \in Runs :
    Cardinality(Panel[r] \ Sick) >= EffectiveQuorum(r) => stage[r] \notin {"again", "degraded"}

\* A run that begins when the providers are well again and every open breaker has cooled down
\* is answered by every one of its proposers itself, whatever earlier runs did to the
\* breakers, cancelled probes included.
RecoveredModelsServe ==
  \A r \in Runs : clear[r] /\ stage[r] \in {"met", "degraded", "again"} =>
    \A p \in Panel[r] : outcome[<<r, p>>] = "ok" /\ text[<<r, p>>].by = p
=============================================================================
