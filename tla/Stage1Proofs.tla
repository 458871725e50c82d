---------------------------- MODULE Stage1Proofs ----------------------------
(***************************************************************************)
(* Theorems of Stage1, for any number of runs over one gateway, any panels *)
(* and fallbacks, any retries and thresholds: what sick models do to the   *)
(* shared breakers costs no run a quorum that the others make, and leaves  *)
(* nothing behind once they are well again.                                *)
(***************************************************************************)
EXTENDS Stage1, FiniteSetTheorems, TLAPS

-----------------------------------------------------------------------------
(* The inductive invariant.                                                  *)

Calls  == UNION {CallsOf(r) : r \in Runs}
Places == {"idle", "provider", "backoff", "done"}
Slots  == {"primary", "fallback"}

Typed ==
  /\ stage \in [Runs -> {"new", "gather", "again", "cancelled", "met", "degraded"}]
  /\ sick \subseteq Sick
  /\ clear \in [Runs -> BOOLEAN]
  /\ pc \in [Calls -> Places]
  /\ model = [c \in Calls |-> Asked(c)]
  /\ slot \in [Calls -> Slots]
  /\ DOMAIN outcome = Calls /\ DOMAIN text = Calls
  /\ breaker \in [Proposers -> Gateway!Breakers]

\* Where a run is, its calls to the proposers are too.
StageKnown ==
  \A r \in Runs : \A c \in Gather(r) :
    /\ stage[r] = "new" => pc[c] = "idle"
    /\ stage[r] \in {"again", "met", "degraded"} => pc[c] = "done"

\* Nobody's failures ever count against a model that is never sick, so whoever asks it is
\* answered by it.
HealthyKnown ==
  /\ \A p \in Proposers \ Sick : breaker[p] = Gateway!NewBreaker
  /\ \A r \in Runs : \A p \in Panel[r] \ Sick :
       /\ pc[<<r, p>>] = "provider" => slot[<<r, p>>] = "primary"
       /\ pc[<<r, p>>] # "backoff"
       /\ pc[<<r, p>>] = "done" /\ stage[r] # "cancelled" => outcome[<<r, p>>] = "ok"

\* From the time all is well again, no breaker turns a call away, so every call is out on the
\* model it asks, whichever run makes it.
WellAgain ==
  (\E r \in Runs : clear[r]) =>
    /\ sick = {}
    /\ \A m \in Proposers : Cool(breaker[m])
    /\ \A c \in Calls : pc[c] \in {"provider", "backoff"} => pc[c] = "provider" /\ slot[c] = "primary"

Served ==
  \A r \in Runs : clear[r] => stage[r] # "new" /\ \A p \in Panel[r] :
    pc[<<r, p>>] = "done" /\ stage[r] # "cancelled" =>
      outcome[<<r, p>>] = "ok" /\ text[<<r, p>>].by = p

Inv == Typed /\ StageKnown /\ HealthyKnown /\ WellAgain /\ Served /\ QuorumDespiteSick

-----------------------------------------------------------------------------
(* Lemmas about calls and breakers.                                          *)

LEMMA CallIs ==
  /\ \A r \in Runs : \A p \in Panel[r] :
       <<r, p>> \in Calls /\ p \in Proposers /\ p # Again /\ Asked(<<r, p>>) = p
  /\ \A c \in Calls : c[1] \in Runs /\ c = <<c[1], c[2]>> /\ Asked(c) \in Proposers
                      /\ (c[2] # Again => c[2] \in Panel[c[1]])
  /\ \A r \in Runs : \A c : c \in Gather(r) <=> c \in Calls /\ c[1] = r /\ c[2] # Again
<1>1. \A r \in Runs : Panel[r] \subseteq Proposers /\ First[r] \in Proposers
  BY Stage1Assumption
<1>2. \A c : c \in Calls <=> \E r \in Runs : c \in {r} \X (Panel[r] \union {Again})
  BY DEF Calls, CallsOf
<1>3. \A c \in Calls : c[1] \in Runs /\ c = <<c[1], c[2]>> /\ c[2] \in Panel[c[1]] \union {Again}
  BY <1>2
<1>4. \A r \in Runs : \A p \in Panel[r] \union {Again} : <<r, p>> \in Calls
  BY <1>2
<1> QED
  BY <1>1, <1>3, <1>4, Stage1Assumption DEF Asked, Gather

\* The operations of a breaker keep it one, and one that is new stays new unless it is told of
\* a failure.
LEMMA BreakerIs ==
  /\ Gateway!NewBreaker \in Gateway!Breakers
  /\ Gateway!Allow(Gateway!NewBreaker) = Gateway!NewBreaker
  /\ Cool(Gateway!NewBreaker) /\ Gateway!Admits(Gateway!NewBreaker)
  /\ \A b \in Gateway!Breakers :
       /\ Gateway!Allow(b) \in Gateway!Breakers /\ Gateway!RecordFailure(b) \in Gateway!Breakers
       /\ Gateway!RecordSuccess(b) = Gateway!NewBreaker
       /\ Cool(b) => Gateway!Admits(b) /\ Cool(Gateway!Allow(b))
  BY GatewayAssumption DEF Gateway!NewBreaker, Gateway!Breakers, Gateway!Allow, Gateway!Admits,
     Gateway!CooledDown, Gateway!RecordFailure, Gateway!Trips, Gateway!RecordSuccess, Cool

\* The loop over candidates: the call goes out on one of them, on its own model if that lets it
\* through, or it ends.
LEMMA LoopIs ==
  ASSUME Typed, NEW c \in Calls, NEW todo \in SUBSET Slots, NEW b \in [Proposers -> Gateway!Breakers],
         NEW given, Gateway!TryNext(c, todo, b, given)
  PROVE  /\ pc' \in [Calls -> Places] /\ slot' \in [Calls -> Slots] /\ DOMAIN outcome' = Calls
         /\ \A d \in Calls : d # c => pc'[d] = pc[d] /\ slot'[d] = slot[d] /\ outcome'[d] = outcome[d]
         /\ \/ /\ pc'[c] = "provider"
               /\ \E m \in Proposers : breaker' = [b EXCEPT ![m] = Gateway!Allow(@)]
               /\ "primary" \in todo /\ Gateway!Admits(b[Asked(c)]) => slot'[c] = "primary"
            \/ /\ pc'[c] = "done" /\ breaker' = b
               /\ ~("primary" \in todo /\ Gateway!Admits(b[Asked(c)]))
<1> PICK open : open = Gateway!Admitted(c, todo, b)
  OBVIOUS
<1>1. /\ Gateway!Target(c, "primary") = Asked(c) /\ Asked(c) \in Proposers /\ Asked(c) # NoModel
      /\ \A s \in Slots : Gateway!Target(c, s) # NoModel => Gateway!Target(c, s) \in Proposers
  BY CallIs, GatewayAssumption DEF Typed, Slots, Gateway!Target
<1>2. /\ open \subseteq todo /\ \A s \in open : Gateway!Target(c, s) # NoModel
      /\ "primary" \in todo /\ Gateway!Admits(b[Asked(c)]) => "primary" \in open
  BY <1>1 DEF Gateway!Admitted
<1>3. CASE open # {}
  <2> PICK s : s = Gateway!FirstOf(open)
    OBVIOUS
  <2>1. Gateway!Enter(c, s, b) /\ s \in open /\ s \in Slots /\ ("primary" \in open => s = "primary")
    BY <1>2, <1>3 DEF Gateway!TryNext, Gateway!FirstOf, Slots
  <2> PICK m : m = Gateway!Target(c, s)
    OBVIOUS
  <2>2. m \in Proposers
    BY <1>1, <1>2, <2>1
  <2>3. /\ breaker' = [b EXCEPT ![m] = Gateway!Allow(@)]
        /\ slot' = [slot EXCEPT ![c] = s] /\ pc' = [pc EXCEPT ![c] = "provider"]
        /\ outcome' = outcome
    BY <2>1, <2>2 DEF Gateway!Enter
  <2> QED
    BY <1>2, <2>1, <2>2, <2>3 DEF Typed, Places
<1>4. CASE open = {}
  <2>1. /\ pc' = [pc EXCEPT ![c] = "done"] /\ breaker' = b /\ slot' = slot
        /\ outcome' = [outcome EXCEPT ![c] = IF given = {} THEN "circuit_open" ELSE "all_failed"]
    BY <1>4 DEF Gateway!TryNext, Gateway!NoCandidate, Gateway!Finish
  <2>2. DOMAIN outcome' = Calls /\ \A d \in Calls : d # c => outcome'[d] = outcome[d]
    BY <2>1 DEF Typed
  <2> QED
    BY <1>2, <1>4, <2>1, <2>2 DEF Typed, Places
<1> QED
  BY <1>3, <1>4

-----------------------------------------------------------------------------
(* What a step of a call may do.                                             *)

Well == \E r \in Runs : clear[r]

\* The calls that nothing can go wrong with: those to a model that is never sick, and all of
\* them once all is well again.
Sure(c) == (c[2] # Again /\ Asked(c) \notin Sick) \/ Well

Ended(c) == pc'[c] = "done" /\ (Sure(c) => outcome'[c] = "ok" /\ text'[c].by = Asked(c))

Effect(c) ==
  /\ UNCHANGED <<stage, sick, clear, model>>
  /\ pc' \in [Calls -> Places] /\ slot' \in [Calls -> Slots]
  /\ DOMAIN outcome' = Calls /\ DOMAIN text' = Calls
  /\ \A d \in Calls : d # c => /\ pc'[d] = pc[d] /\ slot'[d] = slot[d]
                              /\ outcome'[d] = outcome[d] /\ text'[d] = text[d]
  /\ breaker' \in [Proposers -> Gateway!Breakers]
  /\ \A p \in Proposers \ Sick : breaker'[p] = Gateway!NewBreaker
  /\ Well => \A m \in Proposers : Cool(breaker'[m])
  /\ \/ Live(c) /\ pc'[c] \in {"provider", "backoff"}
        /\ (Sure(c) => pc'[c] = "provider" /\ slot'[c] = "primary")
     \/ Live(c) /\ Ended(c)
     \/ stage[c[1]] = "cancelled" /\ pc'[c] = "done"

LEMMA SureIs ==
  ASSUME Inv, NEW c \in Calls, Sure(c)
  PROVE  /\ Gateway!Admits(breaker[Asked(c)])
         /\ pc[c] # "backoff"
         /\ pc[c] = "provider" => slot[c] = "primary" /\ Gateway!Current(c) \notin sick
                                  /\ Gateway!Current(c) = Asked(c)
<1>1. Asked(c) \in Proposers /\ c[1] \in Runs /\ c = <<c[1], c[2]>> /\ breaker[Asked(c)] \in Gateway!Breakers
  BY CallIs DEF Inv, Typed
<1>2. slot[c] = "primary" => Gateway!Current(c) = Asked(c)
  BY DEF Inv, Typed, Gateway!Current, Gateway!Target
<1>3. CASE Well
  BY <1>1, <1>2, <1>3, BreakerIs DEF Inv, Well, WellAgain
<1>4. CASE c[2] # Again /\ Asked(c) \notin Sick
  <2>1. c[2] \in Panel[c[1]] \ Sick /\ c[2] = Asked(c) /\ Asked(c) \in Proposers \ Sick
    BY <1>1, <1>4, CallIs DEF Asked
  <2>2. breaker[Asked(c)] = Gateway!NewBreaker
    BY <2>1 DEF Inv, HealthyKnown
  <2>3. (pc[c] = "provider" => slot[c] = "primary") /\ pc[c] # "backoff"
    BY <1>1, <2>1 DEF Inv, HealthyKnown
  <2> QED
    BY <1>2, <1>4, <2>2, <2>3, BreakerIs DEF Inv, Typed
<1> QED
  BY <1>3, <1>4 DEF Sure

LEMMA StartEffect ==
  ASSUME Inv, NEW c \in Calls, CallStarts(c)
  PROVE  Effect(c)
<1>1. /\ Gateway!TryNext(c, Slots, breaker, {})
      /\ UNCHANGED <<stage, sick, clear, model, text>> /\ Live(c)
  BY DEF CallStarts, Gateway!Start, Gateway!Slots, Slots
<1>2. Typed /\ breaker \in [Proposers -> Gateway!Breakers]
  BY DEF Inv, Typed
<1>3. /\ pc' \in [Calls -> Places] /\ slot' \in [Calls -> Slots] /\ DOMAIN outcome' = Calls
      /\ \A d \in Calls : d # c => pc'[d] = pc[d] /\ slot'[d] = slot[d] /\ outcome'[d] = outcome[d]
      /\ \/ /\ pc'[c] = "provider"
            /\ \E m \in Proposers : breaker' = [breaker EXCEPT ![m] = Gateway!Allow(@)]
            /\ Gateway!Admits(breaker[Asked(c)]) => slot'[c] = "primary"
         \/ /\ pc'[c] = "done" /\ breaker' = breaker
            /\ ~Gateway!Admits(breaker[Asked(c)])
  BY <1>1, <1>2, LoopIs DEF Slots
<1>4. /\ breaker' \in [Proposers -> Gateway!Breakers]
      /\ \A p \in Proposers \ Sick : breaker'[p] = Gateway!NewBreaker
      /\ Well => \A m \in Proposers : Cool(breaker'[m])
  <2>1. /\ \A p \in Proposers \ Sick : breaker[p] = Gateway!NewBreaker
        /\ Well => \A m \in Proposers : Cool(breaker[m])
    BY DEF Inv, HealthyKnown, WellAgain, Well
  <2>2. CASE breaker' = breaker
    BY <1>2, <2>1, <2>2
  <2>3. ASSUME NEW m \in Proposers, breaker' = [breaker EXCEPT ![m] = Gateway!Allow(@)]
        PROVE  <1>4!1 /\ <1>4!2 /\ <1>4!3
    BY <1>2, <2>1, <2>3, BreakerIs
  <2> QED
    BY <1>3, <2>2, <2>3
<1>5. DOMAIN text' = Calls /\ \A d \in Calls : d # c => text'[d] = text[d]
  BY <1>1, <1>2 DEF Typed
<1> QED
  BY <1>1, <1>3, <1>4, <1>5, SureIs DEF Effect, Ended

LEMMA AnswerEffect ==
  ASSUME Inv, NEW c \in Calls, Live(c), Gateway!Answered(c), UNCHANGED <<stage, sick, clear>>
  PROVE  Effect(c)
<1> PICK m : m = Gateway!Current(c)
  OBVIOUS
<1>1. /\ pc[c] = "provider" /\ breaker' = [breaker EXCEPT ![m] = Gateway!RecordSuccess(@)]
      /\ text' = [text EXCEPT ![c] = [by |-> m, for |-> prompt[c]]]
      /\ pc' = [pc EXCEPT ![c] = "done"] /\ outcome' = [outcome EXCEPT ![c] = "ok"]
      /\ UNCHANGED <<slot, model>>
  BY DEF Gateway!Answered, Gateway!Finish
<1>2. /\ pc \in [Calls -> Places] /\ slot \in [Calls -> Slots] /\ DOMAIN outcome = Calls /\ DOMAIN text = Calls
      /\ breaker \in [Proposers -> Gateway!Breakers]
      /\ \A p \in Proposers \ Sick : breaker[p] = Gateway!NewBreaker
      /\ Well => \A p \in Proposers : Cool(breaker[p])
  BY DEF Inv, Typed, HealthyKnown, WellAgain, Well
<1>3. /\ breaker' \in [Proposers -> Gateway!Breakers]
      /\ \A p \in Proposers : breaker'[p] = breaker[p] \/ breaker'[p] = Gateway!NewBreaker
  BY <1>1, <1>2, BreakerIs
<1>4. /\ \A p \in Proposers \ Sick : breaker'[p] = Gateway!NewBreaker
      /\ Well => \A p \in Proposers : Cool(breaker'[p])
  BY <1>2, <1>3, BreakerIs
<1>5. Ended(c)
  BY <1>1, <1>2, SureIs DEF Ended
<1>6. /\ pc' \in [Calls -> Places] /\ slot' \in [Calls -> Slots] /\ DOMAIN outcome' = Calls /\ DOMAIN text' = Calls
      /\ \A d \in Calls : d # c => /\ pc'[d] = pc[d] /\ slot'[d] = slot[d]
                                  /\ outcome'[d] = outcome[d] /\ text'[d] = text[d]
  BY <1>1, <1>2 DEF Places
<1> QED
  BY <1>1, <1>3, <1>4, <1>5, <1>6 DEF Effect

\* A retry, a failure and a cancellation befall no call that nothing can go wrong with.
LEMMA WakeEffect ==
  ASSUME Inv, NEW c \in Calls, Live(c), Gateway!Wake(c), UNCHANGED <<stage, sick, clear>>
  PROVE  Effect(c)
<1>1. /\ pc[c] = "backoff" /\ pc' = [pc EXCEPT ![c] = "provider"]
      /\ UNCHANGED <<slot, model, outcome, text, breaker>>
  BY DEF Gateway!Wake
<1>2. ~Sure(c)
  BY <1>1, SureIs
<1> QED
  BY <1>1, <1>2 DEF Effect, Inv, Typed, HealthyKnown, WellAgain, Well, Places

LEMMA FailEffect ==
  ASSUME Inv, NEW c \in Calls, Live(c), UNCHANGED <<stage, sick, clear>>,
         pc[c] = "provider", Gateway!Current(c) \in sick,
         Gateway!Fatal(c) \/ Gateway!TransientRetry(c) \/ Gateway!TransientGiveUp(c)
  PROVE  Effect(c)
<1> PICK m : m = Gateway!Current(c)
  OBVIOUS
<1>1. ~Sure(c) /\ m \in Sick /\ ~Well
  BY SureIs DEF Inv, Typed, Sure
<1>2. Typed /\ \A p \in Proposers \ Sick : breaker[p] = Gateway!NewBreaker
  BY DEF Inv, HealthyKnown
<1>3. CASE Gateway!Fatal(c)
  <2>1. /\ pc' = [pc EXCEPT ![c] = "done"] /\ outcome' = [outcome EXCEPT ![c] = "nonretryable"]
        /\ UNCHANGED <<slot, model, text, breaker>>
    BY <1>3 DEF Gateway!Fatal, Gateway!Finish
  <2> QED
    BY <1>1, <1>2, <2>1 DEF Effect, Ended, Typed, Places
<1>4. CASE Gateway!TransientRetry(c)
  <2>1. /\ pc' = [pc EXCEPT ![c] = "backoff"] /\ UNCHANGED <<slot, model, outcome, text, breaker>>
    BY <1>4 DEF Gateway!TransientRetry
  <2> QED
    BY <1>1, <1>2, <2>1 DEF Effect, Typed, Places
<1>5. CASE Gateway!TransientGiveUp(c)
  <2> PICK b : b = [breaker EXCEPT ![m] = Gateway!RecordFailure(@)]
    OBVIOUS
  <2> PICK todo : todo = IF slot[c] = "primary" THEN {"fallback"} ELSE {}
    OBVIOUS
  <2> PICK given : given = gaveUp'[c]
    OBVIOUS
  <2>1. Gateway!TryNext(c, todo, b, given) /\ UNCHANGED <<model, text>> /\ todo \in SUBSET Slots
    BY <1>5 DEF Gateway!TransientGiveUp, Slots
  <2>2. b \in [Proposers -> Gateway!Breakers] /\ \A p \in Proposers \ Sick : b[p] = Gateway!NewBreaker
    BY <1>1, <1>2, BreakerIs DEF Typed
  <2>3. /\ pc' \in [Calls -> Places] /\ slot' \in [Calls -> Slots] /\ DOMAIN outcome' = Calls
        /\ \A d \in Calls : d # c => pc'[d] = pc[d] /\ slot'[d] = slot[d] /\ outcome'[d] = outcome[d]
        /\ \/ /\ pc'[c] = "provider"
              /\ \E p \in Proposers : breaker' = [b EXCEPT ![p] = Gateway!Allow(@)]
           \/ pc'[c] = "done" /\ breaker' = b
    <3>1. /\ Typed /\ todo \in SUBSET Slots /\ b \in [Proposers -> Gateway!Breakers]
          /\ Gateway!TryNext(c, todo, b, given)
      BY <1>2, <2>1, <2>2
    <3> QED
      BY ONLY <3>1, c \in Calls, LoopIs
  <2>4. /\ breaker' \in [Proposers -> Gateway!Breakers]
        /\ \A p \in Proposers \ Sick : breaker'[p] = Gateway!NewBreaker
    <3>1. CASE breaker' = b
      BY <2>2, <3>1
    <3>2. ASSUME NEW q \in Proposers, breaker' = [b EXCEPT ![q] = Gateway!Allow(@)]
          PROVE  <2>4!1 /\ <2>4!2
      BY <2>2, <3>2, BreakerIs
    <3> QED
      BY <2>3, <3>1, <3>2
  <2> QED
    BY <1>1, <1>2, <2>1, <2>3, <2>4 DEF Effect, Ended, Typed
<1> QED
  BY <1>3, <1>4, <1>5

LEMMA CancelEffect ==
  ASSUME Inv, NEW c \in Calls, CallCancelled(c)
  PROVE  Effect(c)
<1>1. /\ stage[c[1]] = "cancelled" /\ pc' = [pc EXCEPT ![c] = "done"]
      /\ outcome' = [outcome EXCEPT ![c] = "cancelled"]
      /\ UNCHANGED <<stage, sick, clear, slot, model, text, breaker>>
  BY DEF CallCancelled, Gateway!Cancel, Gateway!Finish
<1> QED
  BY <1>1 DEF Effect, Inv, Typed, HealthyKnown, WellAgain, Well, Places

LEMMA CallEffect ==
  ASSUME Inv, NEW c \in Calls, CallStarts(c) \/ CallGoesOn(c) \/ CallCancelled(c)
  PROVE  Effect(c)
  BY StartEffect, AnswerEffect, WakeEffect, FailEffect, CancelEffect DEF CallGoesOn

-----------------------------------------------------------------------------
(* The invariant holds initially, and every step of a call keeps it.         *)

LEMMA InvInit == Init => Inv
<1> SUFFICES ASSUME Init PROVE Inv
  OBVIOUS
<1>1. /\ pc = [c \in Calls |-> "idle"] /\ slot = [c \in Calls |-> "primary"]
      /\ DOMAIN outcome = Calls /\ DOMAIN text = Calls /\ model \in [Calls -> Proposers]
      /\ breaker = [m \in Proposers |-> Gateway!NewBreaker]
      /\ stage = [r \in Runs |-> "new"] /\ sick = Sick /\ clear = [r \in Runs |-> FALSE]
  BY DEF Init, Gateway!Init, Calls
<1>2. model = [c \in Calls |-> Asked(c)]
  BY <1>1 DEF Init
<1>3. Typed
  BY <1>1, <1>2, BreakerIs DEF Typed, Places, Slots
<1>4. StageKnown /\ HealthyKnown
  BY <1>1, CallIs DEF StageKnown, HealthyKnown
<1>5. WellAgain /\ Served /\ QuorumDespiteSick
  BY <1>1 DEF WellAgain, Served, QuorumDespiteSick
<1> QED
  BY <1>3, <1>4, <1>5 DEF Inv

LEMMA CallStep ==
  ASSUME Inv, NEW c \in Calls, Effect(c)
  PROVE  Inv'
<1>1. c[1] \in Runs /\ c = <<c[1], c[2]>>
  BY CallIs
<1>2. Typed'
  BY DEF Inv, Typed, Effect, Asked
<1>3. StageKnown'
  <2> SUFFICES ASSUME NEW r \in Runs, NEW d \in Gather(r)
               PROVE  /\ stage[r] # "new" \/ pc'[d] = "idle"
                      /\ stage[r] \in {"again", "met", "degraded"} => pc'[d] = "done"
    BY DEF StageKnown, Effect, Gather
  <2>1. d \in Calls /\ d[1] = r /\ d[2] # Again
    BY CallIs
  <2>2. CASE d # c
    BY <2>1, <2>2 DEF Inv, StageKnown, Effect
  <2>3. CASE d = c
    BY <2>1, <2>3 DEF Effect, Live
  <2> QED
    BY <2>2, <2>3
<1>4. HealthyKnown'
  <2> SUFFICES ASSUME NEW r \in Runs, NEW p \in Panel[r] \ Sick
               PROVE  /\ pc'[<<r, p>>] = "provider" => slot'[<<r, p>>] = "primary"
                      /\ pc'[<<r, p>>] # "backoff"
                      /\ pc'[<<r, p>>] = "done" /\ stage[r] # "cancelled" => outcome'[<<r, p>>] = "ok"
    BY DEF HealthyKnown, Effect
  <2>1. <<r, p>> \in Calls /\ p # Again /\ Asked(<<r, p>>) = p
    BY CallIs
  <2>2. CASE <<r, p>> # c
    BY <2>1, <2>2 DEF Inv, HealthyKnown, Effect
  <2>3. CASE <<r, p>> = c
    <3>1. c[1] = r /\ c[2] = p /\ Sure(c)
      BY <2>1, <2>3 DEF Sure
    <3> QED
      BY <2>3, <3>1 DEF Effect, Ended, Live
  <2> QED
    BY <2>2, <2>3
<1>5. WellAgain'
  <2> SUFFICES ASSUME Well
               PROVE  /\ sick = {} /\ \A m \in Proposers : Cool(breaker'[m])
                      /\ \A d \in Calls : pc'[d] \in {"provider", "backoff"}
                           => pc'[d] = "provider" /\ slot'[d] = "primary"
    BY DEF WellAgain, Effect, Well, Cool
  <2>1. Sure(c)
    BY DEF Sure
  <2>2. sick = {} /\ \A d \in Calls : pc[d] \in {"provider", "backoff"}
                           => pc[d] = "provider" /\ slot[d] = "primary"
    BY DEF Inv, WellAgain, Well
  <2> QED
    BY <2>1, <2>2 DEF Effect, Ended
<1>6. Served'
  <2> SUFFICES ASSUME NEW r \in Runs, clear[r]
               PROVE  stage[r] # "new" /\ \A p \in Panel[r] :
                        pc'[<<r, p>>] = "done" /\ stage[r] # "cancelled" =>
                          outcome'[<<r, p>>] = "ok" /\ text'[<<r, p>>].by = p
    BY DEF Served, Effect
  <2>1. stage[r] # "new" /\ Sure(c)
    BY DEF Inv, Served, Sure, Well
  <2> SUFFICES ASSUME NEW p \in Panel[r], pc'[<<r, p>>] = "done", stage[r] # "cancelled"
               PROVE  outcome'[<<r, p>>] = "ok" /\ text'[<<r, p>>].by = p
    BY <2>1
  <2>2. <<r, p>> \in Calls /\ Asked(<<r, p>>) = p
    BY CallIs
  <2>3. CASE <<r, p>> # c
    BY <2>2, <2>3 DEF Inv, Served, Effect
  <2>4. CASE <<r, p>> = c
    BY <2>1, <2>2, <2>4 DEF Effect, Ended
  <2> QED
    BY <2>3, <2>4
<1>7. QuorumDespiteSick'
  BY DEF Inv, QuorumDespiteSick, Effect, EffectiveQuorum
<1> QED
  BY <1>2, <1>3, <1>4, <1>5, <1>6, <1>7 DEF Inv

-----------------------------------------------------------------------------
(* Every step of a run, of the providers and of the clock keeps it.          *)

LEMMA RunOnlySteps ==
  ASSUME Inv, NEW r \in Runs, Begin(r) \/ Resumes(r) \/ Timeout(r)
  PROVE  /\ UNCHANGED <<sick, pc, model, slot, outcome, text, breaker>>
         /\ stage' \in [Runs -> {"new", "gather", "again", "cancelled", "met", "degraded"}]
         /\ clear' \in [Runs -> BOOLEAN]
         /\ \A q \in Runs : q # r => stage'[q] = stage[q] /\ clear'[q] = clear[q]
         /\ ~Begin(r) => clear' = clear
  BY DEF Inv, Typed, gateway, Begin, Resumes, Resume, ResumeAgain, Timeout

LEMMA Tagged ==
  ASSUME NEW r, NEW S, IsFiniteSet(S)
  PROVE  IsFiniteSet({<<r, p>> : p \in S}) /\ Cardinality({<<r, p>> : p \in S}) = Cardinality(S)
<1> DEFINE T == {<<r, p>> : p \in S}
           f == [p \in S |-> <<r, p>>]
<1>1. f \in Bijection(S, T)
  <2>1. f \in [S -> T] /\ (\A a, b \in S : f[a] = f[b] => a = b) /\ \A t \in T : \E a \in S : f[a] = t
    OBVIOUS
  <2> QED
    BY <2>1 DEF Bijection, Injection, Surjection, IsInjective
<1> QED
  BY <1>1, FS_Bijection DEF ExistsBijection

\* At the end of a stage every proposer that is never sick has answered, so they are among the
\* successes that are counted.
LEMMA HealthySucceed ==
  ASSUME Inv, NEW r \in Runs, stage[r] = "gather", \A c \in Gather(r) : pc[c] = "done"
  PROVE  /\ Cardinality(Panel[r] \ Sick) \in Nat /\ Cardinality(Successes(r)) \in Nat
         /\ Cardinality(Panel[r] \ Sick) <= Cardinality(Successes(r))
<1> DEFINE Healthy == {<<r, p>> : p \in Panel[r] \ Sick}
<1>1. Panel[r] \in SUBSET Proposers /\ Panel[r] \ Sick \in SUBSET Proposers
  BY Stage1Assumption
<1>2. IsFiniteSet(Panel[r] \ Sick) /\ IsFiniteSet(Panel[r])
  BY <1>1, FS_Subset, Stage1Assumption
<1>3. IsFiniteSet(Gather(r)) /\ Cardinality(Healthy) = Cardinality(Panel[r] \ Sick)
  BY <1>2, Tagged DEF Gather
<1>4. Healthy \subseteq Successes(r) /\ Successes(r) \subseteq Gather(r)
  BY DEF Inv, HealthyKnown, Successes, Gather
<1>5. IsFiniteSet(Successes(r)) /\ Cardinality(Healthy) <= Cardinality(Successes(r))
  BY <1>3, <1>4, FS_Subset
<1> QED
  BY <1>2, <1>3, <1>5, FS_CardinalityType

LEMMA RunStep ==
  ASSUME Inv, NEW r \in Runs, Begin(r) \/ Resumes(r) \/ Timeout(r)
  PROVE  Inv'
<1>1. /\ UNCHANGED <<sick, pc, model, slot, outcome, text, breaker>>
      /\ stage' \in [Runs -> {"new", "gather", "again", "cancelled", "met", "degraded"}]
      /\ clear' \in [Runs -> BOOLEAN]
      /\ \A q \in Runs : q # r => stage'[q] = stage[q] /\ clear'[q] = clear[q]
      /\ ~Begin(r) => clear' = clear
  BY RunOnlySteps
<1>2. /\ stage'[r] # "new"
      /\ stage'[r] \in {"again", "met", "degraded"} =>
           stage[r] \in {"gather", "again"} /\ \A c \in Gather(r) : pc[c] = "done"
      /\ stage'[r] # "cancelled" => stage[r] # "cancelled"
  BY DEF Inv, Typed, StageKnown, Begin, Resumes, Resume, ResumeAgain, Timeout
<1>3. clear'[r] => \/ stage[r] # "new" /\ clear[r]
                   \/ stage[r] = "new" /\ Begin(r)
  <2>1. Begin(r) => stage[r] = "new"
    BY DEF Begin
  <2>2. clear[r] => stage[r] # "new"
    BY DEF Inv, Served
  <2> QED
    BY <1>1, <2>1, <2>2
<1>4. Typed'
  BY <1>1 DEF Inv, Typed, Asked
<1>5. StageKnown'
  BY <1>1, <1>2 DEF Inv, StageKnown, Gather
<1>6. HealthyKnown'
  BY <1>1, <1>2 DEF Inv, HealthyKnown
<1>7. WellAgain'
  <2>1. CASE Well
    BY <1>1, <2>1 DEF Inv, WellAgain, Well, Cool
  <2>2. CASE ~Well /\ clear'[r]
    <3>1. /\ sick = {} /\ \A m \in Proposers : Cool(breaker[m])
          /\ \A c \in Calls : pc[c] \notin {"provider", "backoff"}
      BY <1>3, <2>2 DEF Inv, Typed, Begin, Well, Gateway!Suspended
    <3> QED
      BY <1>1, <3>1 DEF WellAgain, Cool
  <2>3. CASE ~Well /\ ~clear'[r]
    BY <1>1, <2>3 DEF WellAgain, Well
  <2> QED
    BY <2>1, <2>2, <2>3
<1>8. Served'
  <2> SUFFICES ASSUME NEW q \in Runs, clear'[q]
               PROVE  stage'[q] # "new" /\ \A p \in Panel[q] :
                        pc[<<q, p>>] = "done" /\ stage'[q] # "cancelled" =>
                          outcome[<<q, p>>] = "ok" /\ text[<<q, p>>].by = p
    BY <1>1 DEF Served
  <2>1. CASE clear[q] /\ (q = r => stage[r] # "new")
    BY <1>1, <1>2, <2>1 DEF Inv, Served
  <2>2. CASE q = r /\ stage[r] = "new"
    BY <1>2, <2>2 DEF Inv, StageKnown, Gather
  <2> QED
    BY <1>1, <1>3, <2>1, <2>2
<1>9. QuorumDespiteSick'
  <2> SUFFICES ASSUME NEW q \in Runs, Cardinality(Panel[q] \ Sick) >= EffectiveQuorum(q)
               PROVE  stage'[q] \notin {"again", "degraded"}
    BY DEF QuorumDespiteSick, EffectiveQuorum
  <2>1. stage[q] \notin {"again", "degraded"}
    BY DEF Inv, QuorumDespiteSick
  <2>2. CASE q # r
    BY <1>1, <2>1, <2>2
  <2>3. CASE q = r /\ Resume(r)
    <3> PICK n : n = Cardinality(Panel[r] \ Sick)
      OBVIOUS
    <3> PICK k : k = Cardinality(Successes(r))
      OBVIOUS
    <3> PICK e : e = EffectiveQuorum(r)
      OBVIOUS
    <3>1. n \in Nat /\ k \in Nat /\ n <= k
      BY <2>3, HealthySucceed DEF Resume
    <3>2. e \in Nat /\ n >= e
      <4>1. IsFiniteSet(Panel[r])
        BY FS_Subset, Stage1Assumption
      <4>2. Cardinality(Panel[r]) \in Nat /\ Quorum \in Nat
        BY <4>1, FS_CardinalityType, Stage1Assumption
      <4> QED
        BY <2>3, <4>2 DEF EffectiveQuorum
    <3>3. k >= e
      BY <3>1, <3>2
    <3>4. stage'[r] = "met"
      BY <2>3, <3>3 DEF Resume, Inv, Typed
    <3> QED
      BY <2>3, <3>4
  <2>4. CASE q = r /\ ~Resume(r)
    BY <2>1, <2>4 DEF Begin, Resumes, ResumeAgain, Timeout, Inv, Typed
  <2> QED
    BY <2>2, <2>3, <2>4
<1> QED
  BY <1>4, <1>5, <1>6, <1>7, <1>8, <1>9 DEF Inv

\* The clock moves no breaker that lets calls through.
LEMMA TickStep ==
  ASSUME Inv, Tick
  PROVE  Inv'
<1>1. /\ UNCHANGED <<stage, sick, clear, pc, model, slot, outcome, text>>
      /\ breaker' = [m \in Proposers |->
           IF m \in Gateway!Cooling THEN Gateway!Cool(breaker[m]) ELSE breaker[m]]
  BY DEF Tick, Gateway!Tick, Gateway!callVars
<1>2. breaker' \in [Proposers -> Gateway!Breakers]
  BY <1>1, GatewayAssumption
     DEF Inv, Typed, Gateway!Breakers, Gateway!Cool, Gateway!Cooling, Gateway!CooledDown
<1>3. \A m \in Proposers : breaker[m].state # "open" \/ Cool(breaker[m]) => breaker'[m] = breaker[m]
  BY <1>1 DEF Gateway!Cooling, Cool
<1>4. /\ \A p \in Proposers \ Sick : breaker'[p] = Gateway!NewBreaker
      /\ Well => \A m \in Proposers : Cool(breaker'[m])
  BY <1>3 DEF Inv, HealthyKnown, WellAgain, Well, Gateway!NewBreaker
<1> QED
  BY <1>1, <1>2, <1>4 DEF Inv, Typed, StageKnown, HealthyKnown, WellAgain, Well, Served,
     QuorumDespiteSick, EffectiveQuorum, Gather, Asked, Cool

LEMMA RecoverStep ==
  ASSUME Inv, Recover
  PROVE  Inv'
  BY DEF Inv, Recover, gateway, Typed, StageKnown, HealthyKnown, WellAgain, Served,
     QuorumDespiteSick, EffectiveQuorum, Gather, Asked, Cool

LEMMA InvNext == Inv /\ [Next]_vars => Inv'
<1> SUFFICES ASSUME Inv, [Next]_vars PROVE Inv'
  OBVIOUS
<1>1. CASE Next
  BY <1>1, RunStep, CallEffect, CallStep, TickStep, RecoverStep DEF Next, Inv, Typed
<1>2. CASE UNCHANGED vars
  BY <1>2 DEF vars, gateway, Inv, Typed, StageKnown, HealthyKnown, WellAgain, Served,
     QuorumDespiteSick, EffectiveQuorum, Gather, Asked, Cool
<1> QED
  BY <1>1, <1>2

-----------------------------------------------------------------------------
(* Theorems.                                                                 *)

THEOREM Stage1Invariance == Spec => []Inv
  BY InvInit, InvNext, PTL DEF Spec

\* run_stage1 over the breakers all runs share: however the sick models fail, and whenever
\* other runs are cancelled, a run whose other proposers make a quorum gets one.
THEOREM Stage1QuorumDespiteSick == Spec => []QuorumDespiteSick
<1>1. Inv => QuorumDespiteSick
  BY DEF Inv
<1> QED
  BY <1>1, Stage1Invariance, PTL

\* A run that begins when the providers are well and the breakers have cooled down is answered
\* by every proposer it asks, by that one and not by its fallback.
THEOREM Stage1RecoveredModelsServe == Spec => []RecoveredModelsServe
<1>1. Inv => RecoveredModelsServe
  BY DEF Inv, Served, StageKnown, RecoveredModelsServe, Gather
<1> QED
  BY <1>1, Stage1Invariance, PTL
=============================================================================
