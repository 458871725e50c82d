---------------------------- MODULE GatewayProofs ----------------------------
(***************************************************************************)
(* Theorems about Gateway, for every number of calls, models, prompts,     *)
(* retries and thresholds.  Every step of a call that leaves a suspension  *)
(* either stays with its candidate, or goes through TryNext; so the first  *)
(* lemmas say what TryNext leaves behind, and the invariants use them.     *)
(* The second half is about what the gateway owes its callers: what counts *)
(* against a breaker, what the exact cache holds, and that complete        *)
(* implements CallContract.                                                *)
(***************************************************************************)
EXTENDS Gateway, FiniteSetTheorems, TLAPS

\* The operations of a breaker keep it a breaker.
LEMMA BreakerOpsType ==
  ASSUME NEW b \in Breakers
  PROVE  /\ Allow(b) \in Breakers
         /\ RecordSuccess(b) \in Breakers
         /\ RecordFailure(b) \in Breakers
  BY LimitsAssumption DEF Breakers, Allow, CooledDown, RecordSuccess, NewBreaker,
     RecordFailure, Trips

LEMMA CoolType ==
  ASSUME NEW b \in Breakers, ~CooledDown(b)
  PROVE  Cool(b) \in Breakers
  BY LimitsAssumption DEF Breakers, Cool, CooledDown

\* A model to try is a model of the configuration.
LEMMA TargetType ==
  ASSUME TypeOK, NEW c \in Calls, NEW s \in Slots, Target(c, s) # NoModel
  PROVE  Target(c, s) \in Models
  BY FallbackAssumption DEF TypeOK, Target, Slots

\* TryNext enters a slot still to do whose breaker lets the call through, or ends the call.
LEMMA TryNextCases ==
  ASSUME TypeOK,
         NEW c \in Calls, NEW todo \in SUBSET Slots, NEW b \in [Models -> Breakers],
         NEW given, TryNext(c, todo, b, given)
  PROVE  \/ \E s \in todo : /\ Target(c, s) \in Models
                            /\ Admits(b[Target(c, s)])
                            /\ Enter(c, s, b)
         \/ NoCandidate(c, b, given)
<1> DEFINE open == Admitted(c, todo, b)
<1>1. CASE open = {}
  BY <1>1 DEF TryNext
<1>2. CASE open # {}
  <2>1. FirstOf(open) \in open
    BY <1>2 DEF FirstOf, Admitted, Slots
  <2>2. /\ FirstOf(open) \in todo
        /\ Target(c, FirstOf(open)) \in Models
        /\ Admits(b[Target(c, FirstOf(open))])
    BY <2>1, TargetType DEF Admitted
  <2>3. Enter(c, FirstOf(open), b)
    BY <1>2 DEF TryNext
  <2> QED
    BY <2>2, <2>3
<1> QED
  BY <1>1, <1>2

\* The variables TryNext changes.
LoopTyped ==
  /\ pc' \in [Calls -> {"idle", "done"} \union Suspended]
  /\ slot' \in [Calls -> Slots]
  /\ attempt' \in [Calls -> Nat]
  /\ outcome' \in [Calls -> Outcomes]
  /\ sent' \in [Calls -> Nat]
  /\ breaker' \in [Models -> Breakers]

LEMMA FinishType ==
  ASSUME TypeOK, NEW c \in Calls, NEW how \in Outcomes, Finish(c, how)
  PROVE  /\ pc' \in [Calls -> {"idle", "done"} \union Suspended]
         /\ outcome' \in [Calls -> Outcomes]
  BY DEF TypeOK, Finish

\* Setting or incrementing one counter of a function of counters.
LEMMA CounterType ==
  ASSUME NEW S, NEW f \in [S -> Nat], NEW x \in S, NEW n \in Nat
  PROVE  [f EXCEPT ![x] = n] \in [S -> Nat] /\ [f EXCEPT ![x] = @ + 1] \in [S -> Nat]
  OBVIOUS

LEMMA EnterType ==
  ASSUME TypeOK, NEW c \in Calls, NEW s \in Slots, NEW b \in [Models -> Breakers],
         Target(c, s) \in Models, Enter(c, s, b)
  PROVE  LoopTyped
<1>1. breaker' \in [Models -> Breakers]
  BY BreakerOpsType DEF Enter
<1>2. slot' \in [Calls -> Slots]
  BY DEF Enter, TypeOK
<1>3. CASE Target(c, s) \in Reachable
  <2>1. pc' \in [Calls -> {"idle", "done"} \union Suspended]
    BY <1>3 DEF Enter, TypeOK, Suspended
  <2>2. /\ attempt' = [attempt EXCEPT ![c] = 1]
        /\ sent' = [sent EXCEPT ![c] = @ + 1]
    BY <1>3 DEF Enter
  <2>4. attempt' \in [Calls -> Nat] /\ sent' \in [Calls -> Nat]
    BY <2>2, CounterType DEF TypeOK
  <2>3. outcome' \in [Calls -> Outcomes]
    BY <1>3 DEF Enter, TypeOK
  <2> QED
    BY <1>1, <1>2, <2>1, <2>3, <2>4 DEF LoopTyped
<1>4. CASE Target(c, s) \notin Reachable
  <2>1. Finish(c, "no_endpoint") /\ "no_endpoint" \in Outcomes
    BY <1>4 DEF Enter, Outcomes, GatewayErrors
  <2>2. attempt' = [attempt EXCEPT ![c] = 0] /\ sent' = sent
    BY <1>4 DEF Enter
  <2>3. attempt' \in [Calls -> Nat] /\ sent' \in [Calls -> Nat]
    BY <2>2, CounterType DEF TypeOK
  <2> QED
    BY <1>1, <1>2, <2>1, <2>3, FinishType DEF LoopTyped
<1> QED
  BY <1>3, <1>4

LEMMA NoCandidateType ==
  ASSUME TypeOK, NEW c \in Calls, NEW b \in [Models -> Breakers], NEW given,
         NoCandidate(c, b, given)
  PROVE  LoopTyped
<1> DEFINE how == IF given = {} THEN "circuit_open" ELSE "all_failed"
<1>1. how \in Outcomes
  BY DEF Outcomes, GatewayErrors
<1>2. Finish(c, how)
  BY DEF NoCandidate
<1> HIDE DEF how
<1> QED
  BY <1>1, <1>2, FinishType DEF NoCandidate, LoopTyped, TypeOK

LEMMA TryNextType ==
  ASSUME TypeOK,
         NEW c \in Calls, NEW todo \in SUBSET Slots, NEW b \in [Models -> Breakers],
         NEW given, TryNext(c, todo, b, given)
  PROVE  LoopTyped
<1>1. ASSUME NEW s \in todo, Target(c, s) \in Models, Enter(c, s, b) PROVE LoopTyped
  BY <1>1, EnterType
<1> QED
  BY <1>1, TryNextCases, NoCandidateType

-----------------------------------------------------------------------------
\* What a call holds at each suspension, before it has ended.  A call that is out is on
\* a model it has not given up, has nothing charged, and is within its attempts; the
\* fallback's loop iteration comes after the primary's.
Fresh(c) ==
  /\ slot[c] = "primary"
  /\ attempt[c] = 0
  /\ sent[c] = 0
  /\ gaveUp[c] = {}

Out(c) ==
  /\ Current(c) \in Models
  /\ gaveUp[c] \subseteq (IF slot[c] = "primary" THEN {} ELSE {model[c]})
  /\ attempt[c] \in 1 .. MaxRetries + 1

CallShapeOf(c) ==
  /\ pc[c] # "done" => outcome[c] = "none"
  /\ pc[c] \in {"idle", "cache_get"} => Fresh(c)
  /\ pc[c] \in {"provider", "backoff"} => Out(c)
  /\ pc[c] = "backoff" => attempt[c] <= MaxRetries
  /\ pc[c] \notin {"cache_set", "done"} => charged[c] = 0 /\ text[c] = NoText

CallShape == \A c \in Calls : CallShapeOf(c)

Shape == TypeOK /\ CallShape

\* A call keeps its request.
LEMMA RequestsFixed == ASSUME [Next]_vars PROVE model' = model /\ prompt' = prompt
  BY DEF Next, Step, vars, callVars, Start, CacheAnswers, CacheHit, CacheMiss, CacheStored,
     CacheDown, ProviderReplies, Answered, Fatal, Malformed, TransientRetry,
     TransientGiveUp, Wake, Cancel, Expire, Tick

\* The cache keeps its type when a call's text is stored in it.
LEMMA StoredType ==
  ASSUME TypeOK, NEW c \in Calls
  PROVE  /\ Stored(c) \in [Models -> [Prompts -> Texts \union {NoText}]]
         /\ \A d \in MaybeStored(c) : d \in [Models -> [Prompts -> Texts \union {NoText}]]
<1> DEFINE k == CacheKey[prompt[c]]
           row == [cache[model[c]] EXCEPT ![k] = text[c]]
<1>1. model[c] \in Models /\ k \in Prompts
  BY CacheKeyAssumption DEF TypeOK
<1>2. row \in [Prompts -> Texts \union {NoText}]
  BY <1>1 DEF TypeOK
<1>3. [cache EXCEPT ![model[c]] = row] \in [Models -> [Prompts -> Texts \union {NoText}]]
  BY <1>1, <1>2 DEF TypeOK
<1>4. Stored(c) = [cache EXCEPT ![model[c]] = row]
  BY DEF Stored
<1> HIDE DEF row
<1> QED
  BY <1>3, <1>4 DEF MaybeStored, TypeOK

LEMMA CachedType ==
  ASSUME TypeOK, NEW c \in Calls
  PROVE  Cached(c) \in Texts \union {NoText}
  BY CacheKeyAssumption DEF TypeOK, Cached

LEMMA TypeInit == Init => TypeOK
<1> SUFFICES ASSUME Init PROVE TypeOK
  OBVIOUS
<1>1. NewBreaker \in Breakers
  BY LimitsAssumption DEF NewBreaker, Breakers
<1> QED
  BY <1>1 DEF Init, TypeOK, Slots, Outcomes

LEMMA TypeStep == Shape /\ [Next]_vars => TypeOK'
<1> SUFFICES ASSUME Shape, [Next]_vars PROVE TypeOK'
  OBVIOUS
<1> USE DEF Shape
<1>1. ASSUME NEW c \in Calls, Start(c) PROVE TypeOK'
  <2>1. CASE CacheOn
    BY <1>1, <2>1 DEF Start, TypeOK, Suspended
  <2>2. CASE ~CacheOn
    <3>1. TryNext(c, Slots, breaker, {})
      BY <1>1, <2>2 DEF Start
    <3>2. LoopTyped
      BY <3>1, TryNextType DEF TypeOK
    <3> QED
      BY <1>1, <3>2 DEF Start, TypeOK, LoopTyped
  <2> QED
    BY <2>1, <2>2, LimitsAssumption
<1>2. ASSUME NEW c \in Calls, CacheHit(c) PROVE TypeOK'
  BY <1>2, CachedType, FinishType DEF CacheHit, TypeOK, Outcomes
<1>3. ASSUME NEW c \in Calls, CacheMiss(c) PROVE TypeOK'
  <2>1. LoopTyped
    BY <1>3, TryNextType DEF CacheMiss, TypeOK
  <2> QED
    BY <1>3, <2>1 DEF CacheMiss, TypeOK, LoopTyped
<1>4. ASSUME NEW c \in Calls, CacheStored(c) PROVE TypeOK'
  BY <1>4, StoredType, FinishType DEF CacheStored, TypeOK, Outcomes
<1>5. ASSUME NEW c \in Calls, CacheDown(c) PROVE TypeOK'
  BY <1>5, StoredType, FinishType DEF CacheDown, TypeOK, Outcomes, OtherErrors
<1>6. ASSUME NEW c \in Calls, Answered(c) PROVE TypeOK'
  <2>1. Current(c) \in Models
    BY <1>6 DEF Answered, CallShape, CallShapeOf, Out
  <2>2. breaker' \in [Models -> Breakers]
    BY <1>6, <2>1, BreakerOpsType DEF Answered, TypeOK
  <2>3. charged' \in [Calls -> Nat]
    BY <1>6, CounterType DEF Answered, TypeOK
  <2>4. text' \in [Calls -> Texts \union {NoText}]
    BY <1>6, <2>1 DEF Answered, TypeOK, Texts
  <2>5. pc' \in [Calls -> {"idle", "done"} \union Suspended] /\ outcome' \in [Calls -> Outcomes]
    BY <1>6, FinishType DEF Answered, TypeOK, Suspended, Outcomes
  <2> QED
    BY <1>6, <2>2, <2>3, <2>4, <2>5 DEF Answered, TypeOK
<1>7. ASSUME NEW c \in Calls, Fatal(c) PROVE TypeOK'
  BY <1>7, FinishType DEF Fatal, TypeOK, Outcomes, GatewayErrors
<1>8. ASSUME NEW c \in Calls, Malformed(c) PROVE TypeOK'
  BY <1>8, FinishType DEF Malformed, TypeOK, Outcomes, OtherErrors
<1>9. ASSUME NEW c \in Calls, TransientRetry(c) PROVE TypeOK'
  BY <1>9 DEF TransientRetry, TypeOK, Suspended
<1>10. ASSUME NEW c \in Calls, TransientGiveUp(c) PROVE TypeOK'
  <2> DEFINE b == [breaker EXCEPT ![Current(c)] = RecordFailure(@)]
             todo == IF slot[c] = "primary" THEN {"fallback"} ELSE {}
  <2>1. Current(c) \in Models
    BY <1>10 DEF TransientGiveUp, CallShape, CallShapeOf, Out
  <2>2. b \in [Models -> Breakers]
    BY <2>1, BreakerOpsType DEF TypeOK
  <2>3. todo \in SUBSET Slots
    BY DEF Slots
  <2>4. TryNext(c, todo, b, gaveUp'[c])
    BY <1>10 DEF TransientGiveUp
  <2> HIDE DEF b, todo
  <2>5. LoopTyped
    BY <2>2, <2>3, <2>4, TryNextType
  <2>6. gaveUp' \in [Calls -> SUBSET Models]
    BY <1>10, <2>1 DEF TransientGiveUp, TypeOK
  <2> QED
    BY <1>10, <2>5, <2>6 DEF TransientGiveUp, TypeOK, LoopTyped
<1>11. ASSUME NEW c \in Calls, Wake(c) PROVE TypeOK'
  BY <1>11, CounterType DEF Wake, TypeOK, Suspended
<1>12. ASSUME NEW c \in Calls, Cancel(c) PROVE TypeOK'
  BY <1>12, StoredType, FinishType DEF Cancel, TypeOK, Outcomes
<1>13. ASSUME NEW m \in Models, NEW k \in Prompts, Expire(m, k) PROVE TypeOK'
  BY <1>13 DEF Expire, TypeOK, callVars
<1>14. CASE Tick
  <2>1. breaker' \in [Models -> Breakers]
    BY <1>14, CoolType DEF Tick, Cooling, TypeOK
  <2> QED
    BY <1>14, <2>1 DEF Tick, TypeOK, callVars
<1>15. CASE UNCHANGED vars
  BY <1>15 DEF vars, TypeOK
<1> QED
  BY <1>1, <1>2, <1>3, <1>4, <1>5, <1>6, <1>7, <1>8, <1>9, <1>10, <1>11, <1>12, <1>13,
     <1>14, <1>15 DEF Next, Step, CacheAnswers, ProviderReplies

\* A step of one call, or of no call, leaves every other call's own state alone.
SameCall(d) ==
  /\ pc'[d] = pc[d] /\ slot'[d] = slot[d] /\ attempt'[d] = attempt[d]
  /\ outcome'[d] = outcome[d] /\ text'[d] = text[d] /\ charged'[d] = charged[d]
  /\ sent'[d] = sent[d] /\ gaveUp'[d] = gaveUp[d]

LEMMA TryNextOthers ==
  ASSUME TypeOK,
         NEW c \in Calls, NEW todo \in SUBSET Slots, NEW b \in [Models -> Breakers],
         NEW given, TryNext(c, todo, b, given), NEW d \in Calls \ {c}
  PROVE  /\ pc'[d] = pc[d] /\ slot'[d] = slot[d] /\ attempt'[d] = attempt[d]
         /\ outcome'[d] = outcome[d] /\ sent'[d] = sent[d]
<1>1. ASSUME NEW s \in todo, Enter(c, s, b)
      PROVE  /\ pc'[d] = pc[d] /\ slot'[d] = slot[d] /\ attempt'[d] = attempt[d]
             /\ outcome'[d] = outcome[d] /\ sent'[d] = sent[d]
  BY <1>1 DEF Enter, Finish, TypeOK
<1>2. ASSUME NoCandidate(c, b, given)
      PROVE  /\ pc'[d] = pc[d] /\ slot'[d] = slot[d] /\ attempt'[d] = attempt[d]
             /\ outcome'[d] = outcome[d] /\ sent'[d] = sent[d]
  BY <1>2 DEF NoCandidate, Finish, TypeOK
<1> QED
  BY <1>1, <1>2, TryNextCases

LEMMA StepOthers ==
  ASSUME Shape, NEW c \in Calls, Step(c), NEW d \in Calls \ {c}
  PROVE  SameCall(d)
<1> USE DEF Shape
<1>1. CASE Start(c) \/ CacheMiss(c)
  <2>1. CASE TryNext(c, Slots, breaker, {})
    BY <1>1, <2>1, TryNextOthers DEF Start, CacheMiss, SameCall, TypeOK
  <2>2. CASE pc' = [pc EXCEPT ![c] = "cache_get"] /\ UNCHANGED <<slot, attempt, outcome, sent>>
    BY <1>1, <2>2 DEF Start, CacheMiss, SameCall, TypeOK
  <2> QED
    BY <1>1, <2>1, <2>2 DEF Start, CacheMiss
<1>2. CASE TransientGiveUp(c)
  <2> DEFINE b == [breaker EXCEPT ![Current(c)] = RecordFailure(@)]
             todo == IF slot[c] = "primary" THEN {"fallback"} ELSE {}
  <2>1. Current(c) \in Models
    BY <1>2 DEF TransientGiveUp, CallShape, CallShapeOf, Out
  <2>2. b \in [Models -> Breakers] /\ todo \in SUBSET Slots
    BY <2>1, BreakerOpsType DEF TypeOK, Slots
  <2>3. TryNext(c, todo, b, gaveUp'[c])
    BY <1>2 DEF TransientGiveUp
  <2> HIDE DEF b, todo
  <2>4. /\ pc'[d] = pc[d] /\ slot'[d] = slot[d] /\ attempt'[d] = attempt[d]
        /\ outcome'[d] = outcome[d] /\ sent'[d] = sent[d]
    BY <2>2, <2>3, TryNextOthers
  <2> QED
    BY <1>2, <2>4 DEF TransientGiveUp, SameCall, TypeOK
<1>3. CASE CacheHit(c) \/ CacheStored(c) \/ CacheDown(c) \/ Cancel(c)
  BY <1>3 DEF CacheHit, CacheStored, CacheDown, Cancel, Finish, SameCall, TypeOK
<1>4. CASE Answered(c)
  BY <1>4 DEF Answered, Finish, SameCall, TypeOK
<1>5. CASE Fatal(c) \/ Malformed(c)
  BY <1>5 DEF Fatal, Malformed, Finish, SameCall, TypeOK
<1>6. CASE TransientRetry(c) \/ Wake(c)
  BY <1>6 DEF TransientRetry, Wake, SameCall, TypeOK
<1> QED
  BY <1>1, <1>2, <1>3, <1>4, <1>5, <1>6 DEF Step, CacheAnswers, ProviderReplies

\* What holds of one call after each of its steps.
CallOK(c) == CallShapeOf(c) /\ Accounted(c) /\ Tells(c)

CallsOK == \A c \in Calls : CallOK(c)

\* The loop over candidates, entered for the first time.
LEMMA FirstTry ==
  ASSUME TypeOK, NEW c \in Calls, Fresh(c), outcome[c] = "none",
         charged[c] = 0, text[c] = NoText,
         TryNext(c, Slots, breaker, {}),
         UNCHANGED <<model, text, charged, gaveUp>>
  PROVE  CallOK(c)'
<1>1. breaker \in [Models -> Breakers]
  BY DEF TypeOK
<1>2. ASSUME NEW s \in Slots, Target(c, s) \in Models, Enter(c, s, breaker)
      PROVE  CallOK(c)'
  <2>1. slot'[c] = s /\ Current(c)' = Target(c, s)
    BY <1>2 DEF Enter, TypeOK, Current, Target
  <2>2. CASE Target(c, s) \in Reachable
    <3>1. pc'[c] = "provider" /\ attempt'[c] = 1 /\ sent'[c] = 1 /\ outcome'[c] = "none"
      BY <1>2, <2>2 DEF Enter, TypeOK, Fresh
    <3>2. Out(c)' /\ Running(c)' = 1
      BY <1>2, <2>1, <3>1, LimitsAssumption DEF Out, Running, Fresh
    <3> QED
      BY <2>1, <3>1, <3>2 DEF CallOK, CallShapeOf, Accounted, Tells, Spent, Fresh, GatewayErrors
  <2>3. CASE Target(c, s) \notin Reachable
    <3>1. pc'[c] = "done" /\ attempt'[c] = 0 /\ sent'[c] = 0 /\ outcome'[c] = "no_endpoint"
      BY <1>2, <2>3 DEF Enter, TypeOK, Fresh, Finish
    <3> QED
      BY <2>1, <3>1 DEF CallOK, CallShapeOf, Accounted, Tells, Spent, Running, Fresh, GatewayErrors
  <2> QED
    BY <2>2, <2>3
<1>3. ASSUME NoCandidate(c, breaker, {}) PROVE CallOK(c)'
  <2>1. /\ pc'[c] = "done" /\ outcome'[c] = "circuit_open"
        /\ attempt'[c] = 0 /\ sent'[c] = 0 /\ slot'[c] = "primary"
    BY <1>3 DEF NoCandidate, Finish, TypeOK, Fresh
  <2> QED
    BY <2>1 DEF CallOK, CallShapeOf, Accounted, Tells, Spent, Running, Fresh, GatewayErrors
<1> QED
  BY <1>1, <1>2, <1>3, TryNextCases

\* ... and entered again once a candidate was given up.
LEMMA NextTry ==
  ASSUME Shape, NEW c \in Calls, CallOK(c), TransientGiveUp(c)
  PROVE  CallOK(c)'
<1> DEFINE m == Current(c)
           b == [breaker EXCEPT ![m] = RecordFailure(@)]
           todo == IF slot[c] = "primary" THEN {"fallback"} ELSE {}
<1>1. /\ m \in Models /\ m \notin gaveUp[c]
      /\ slot[c] = "primary" => gaveUp[c] = {}
      /\ gaveUp[c] \subseteq {model[c]}
      /\ attempt[c] = MaxRetries + 1
      /\ charged[c] = 0 /\ text[c] = NoText /\ outcome[c] = "none"
  <2>1. Out(c) /\ charged[c] = 0 /\ text[c] = NoText /\ outcome[c] = "none"
    BY DEF TransientGiveUp, CallOK, CallShapeOf
  <2>2. attempt[c] = MaxRetries + 1
    BY <2>1, LimitsAssumption DEF TransientGiveUp, CanRetry, Out
  <2>3. model[c] \in Models /\ Fallback[model[c]] # model[c]
    BY FallbackAssumption DEF Shape, TypeOK
  <2> QED
    BY <2>1, <2>2, <2>3 DEF Out, Current, Target
<1>2. gaveUp'[c] = gaveUp[c] \union {m}
  BY DEF TransientGiveUp, Shape, TypeOK
<1>3. /\ b \in [Models -> Breakers] /\ todo \in SUBSET Slots
      /\ TryNext(c, todo, b, gaveUp'[c])
  BY <1>1, BreakerOpsType DEF TransientGiveUp, Shape, TypeOK, Slots
<1>4. sent[c] = Spent(c, model[c])' + Spent(c, Fallback[model[c]])'
  <2>1. model[c] \in Models /\ Fallback[model[c]] # model[c] /\ slot[c] \in Slots
    BY FallbackAssumption DEF Shape, TypeOK
  <2>2. sent[c] = Spent(c, model[c]) + Spent(c, Fallback[model[c]]) + MaxRetries + 1
    BY <1>1, LimitsAssumption DEF CallOK, Accounted, Spent, Running
  <2>3. CASE slot[c] = "primary"
    <3>1. m = model[c] /\ gaveUp[c] = {} /\ gaveUp'[c] = {model[c]}
      BY <1>1, <1>2, <2>3 DEF Current, Target
    <3> QED
      BY <2>1, <2>2, <3>1, LimitsAssumption DEF Spent, TransientGiveUp
  <2>4. CASE slot[c] = "fallback"
    <3>1. m = Fallback[model[c]] /\ m \notin gaveUp[c]
      BY <1>1, <2>4 DEF Current, Target
    <3> QED
      BY <1>2, <2>1, <2>2, <3>1, LimitsAssumption DEF Spent, TransientGiveUp
  <2> QED
    BY <2>1, <2>3, <2>4 DEF Slots
<1>5. ASSUME NEW s \in todo, Target(c, s) \in Models, Enter(c, s, b)
      PROVE  CallOK(c)'
  <2>1. /\ s = "fallback" /\ slot[c] = "primary" /\ slot'[c] = "fallback"
        /\ Current(c)' = Fallback[model[c]] /\ m = model[c] /\ gaveUp'[c] = {model[c]}
    BY <1>1, <1>2, <1>5 DEF Enter, Shape, TypeOK, Current, Target, TransientGiveUp
  <2>2. Current(c)' \notin gaveUp'[c] /\ Current(c)' \in Models
    BY <1>5, <2>1, FallbackAssumption DEF Shape, TypeOK, Target
  <2>3. CASE Target(c, s) \in Reachable
    <3>1. /\ pc'[c] = "provider" /\ attempt'[c] = 1 /\ sent'[c] = sent[c] + 1
          /\ outcome'[c] = "none"
      BY <1>1, <1>5, <2>3 DEF Enter, Shape, TypeOK
    <3>2. Out(c)' /\ Running(c)' = 1
      BY <2>1, <2>2, <3>1, LimitsAssumption DEF Out, Running, TransientGiveUp
    <3>3. Accounted(c)'
      BY <1>4, <3>1, <3>2, LimitsAssumption DEF Accounted, Spent, TransientGiveUp
    <3> QED
      BY <1>1, <3>1, <3>2, <3>3
         DEF CallOK, CallShapeOf, Tells, GatewayErrors, TransientGiveUp
  <2>4. CASE Target(c, s) \notin Reachable
    <3>1. /\ pc'[c] = "done" /\ attempt'[c] = 0 /\ sent'[c] = sent[c]
          /\ outcome'[c] = "no_endpoint"
      BY <1>5, <2>4 DEF Enter, Finish, Shape, TypeOK
    <3>2. Accounted(c)'
      BY <1>4, <2>2, <3>1, LimitsAssumption DEF Accounted, Running, Spent, TransientGiveUp
    <3> QED
      BY <1>1, <3>1, <3>2 DEF CallOK, CallShapeOf, Tells, GatewayErrors, TransientGiveUp
  <2> QED
    BY <2>3, <2>4
<1>6. ASSUME NoCandidate(c, b, gaveUp'[c]) PROVE CallOK(c)'
  <2>1. /\ pc'[c] = "done" /\ outcome'[c] = "all_failed" /\ sent'[c] = sent[c]
        /\ Current(c)' = m
    BY <1>2, <1>6 DEF NoCandidate, Finish, Shape, TypeOK, Current, Target, TransientGiveUp
  <2>2. Running(c)' = 0
    BY <1>2, <2>1 DEF Running
  <2>3. Accounted(c)'
    BY <1>4, <2>1, <2>2, LimitsAssumption DEF Accounted, Spent, TransientGiveUp
  <2> QED
    BY <1>1, <1>2, <2>1, <2>2, <2>3
       DEF CallOK, CallShapeOf, Tells, GatewayErrors, TransientGiveUp
<1> HIDE DEF b, todo
<1> QED
  BY <1>3, <1>5, <1>6, TryNextCases DEF Shape

\* Every step of a call keeps what holds of it.
LEMMA OwnStep ==
  ASSUME Shape, NEW c \in Calls, CallOK(c), Step(c)
  PROVE  CallOK(c)'
<1> USE DEF Shape
<1>1. CASE Start(c)
  <2>1. Fresh(c) /\ outcome[c] = "none" /\ charged[c] = 0 /\ text[c] = NoText
    BY <1>1 DEF Start, CallOK, CallShapeOf
  <2>2. CASE CacheOn
    BY <1>1, <2>1, <2>2
       DEF Start, TypeOK, CallOK, CallShapeOf, Fresh, Accounted, Spent, Running, Current,
           Target, Tells, GatewayErrors
  <2>3. CASE ~CacheOn
    BY <1>1, <2>1, <2>3, FirstTry DEF Start
  <2> QED
    BY <2>2, <2>3, LimitsAssumption
<1>2. CASE CacheMiss(c)
  BY <1>2, FirstTry DEF CacheMiss, CallOK, CallShapeOf
<1>3. CASE CacheHit(c)
  BY <1>3 DEF CacheHit, Finish, TypeOK, CallOK, CallShapeOf, Accounted, Spent, Running,
     Current, Target, Tells, GatewayErrors
<1>4. CASE CacheStored(c)
  BY <1>4 DEF CacheStored, Finish, TypeOK, CallOK, CallShapeOf, Accounted, Spent, Running,
     Current, Target, Tells, GatewayErrors
<1>5. CASE CacheDown(c) \/ Cancel(c)
  BY <1>5 DEF CacheDown, Cancel, Finish, TypeOK, CallOK, CallShapeOf, Accounted, Spent,
     Running, Current, Target, Tells, GatewayErrors
<1>6. CASE Answered(c)
  BY <1>6 DEF Answered, Finish, TypeOK, CallOK, CallShapeOf, Accounted, Spent, Running,
     Current, Target, Tells, GatewayErrors
<1>7. CASE Fatal(c) \/ Malformed(c)
  BY <1>7 DEF Fatal, Malformed, Finish, TypeOK, CallOK, CallShapeOf, Accounted, Spent,
     Running, Current, Target, Tells, GatewayErrors
<1>8. CASE TransientRetry(c)
  BY <1>8 DEF TransientRetry, CanRetry, TypeOK, CallOK, CallShapeOf, Out, Accounted, Spent,
     Running, Current, Target, Tells, GatewayErrors
<1>9. CASE TransientGiveUp(c)
  BY <1>9, NextTry
<1>10. CASE Wake(c)
  <2>1. /\ pc'[c] = "provider" /\ attempt'[c] = attempt[c] + 1 /\ sent'[c] = sent[c] + 1
        /\ attempt[c] \in 1 .. MaxRetries /\ Out(c)
    BY <1>10, LimitsAssumption DEF Wake, TypeOK, CallOK, CallShapeOf, Out
  <2>2. Out(c)'
    BY <1>10, <2>1, LimitsAssumption DEF Wake, Out, Current, Target
  <2>3. Current(c) \notin gaveUp[c]
    BY <2>1, FallbackAssumption DEF Out, Current, Target, TypeOK
  <2>4. Running(c) = attempt[c] /\ Running(c)' = attempt[c] + 1
    BY <1>10, <2>1, <2>3 DEF Wake, Running, Current, Target
  <2>5. Accounted(c)'
    <3>1. /\ Spent(c, model[c])' = Spent(c, model[c])
          /\ Spent(c, Fallback[model[c]])' = Spent(c, Fallback[model[c]])
      BY <1>10 DEF Wake, Spent
    <3>2. Spent(c, model[c]) \in Nat /\ Spent(c, Fallback[model[c]]) \in Nat
      BY LimitsAssumption DEF Spent
    <3>3. attempt[c] \in Nat /\ sent[c] \in Nat
      BY DEF TypeOK
    <3> QED
      BY <2>1, <2>4, <3>1, <3>2, <3>3 DEF CallOK, Accounted
  <2> QED
    BY <1>10, <2>1, <2>2, <2>5 DEF Wake, CallOK, CallShapeOf, Tells, GatewayErrors
<1> QED
  BY <1>1, <1>2, <1>3, <1>4, <1>5, <1>6, <1>7, <1>8, <1>9, <1>10
     DEF Step, CacheAnswers, ProviderReplies

\* What holds of a call only depends on its own state.
LEMMA OtherStep ==
  ASSUME Shape, NEW d \in Calls, CallOK(d), SameCall(d), model' = model
  PROVE  CallOK(d)'
  BY DEF SameCall, CallOK, CallShapeOf, Fresh, Out, Accounted, Spent, Running, Current,
     Target, Tells

-----------------------------------------------------------------------------
(* The breakers.                                                             *)

CoherentBreaker(b) == b.state = "closed" <=> b.failures < Threshold

\* Each operation of a breaker keeps the state and the count in step.
LEMMA BreakerOpsCoherent ==
  ASSUME NEW b \in Breakers, CoherentBreaker(b)
  PROVE  /\ CoherentBreaker(Allow(b))
         /\ CoherentBreaker(RecordSuccess(b))
         /\ CoherentBreaker(RecordFailure(b))
         /\ CoherentBreaker(Cool(b))
  BY LimitsAssumption
     DEF Breakers, CoherentBreaker, Allow, RecordSuccess, NewBreaker, RecordFailure, Trips,
         Cool, CooledDown, Threshold

\* The loop over candidates only ever calls allow() on them.
LEMMA TryNextCoherent ==
  ASSUME TypeOK,
         NEW c \in Calls, NEW todo \in SUBSET Slots, NEW b \in [Models -> Breakers],
         NEW given, TryNext(c, todo, b, given),
         \A m \in Models : CoherentBreaker(b[m])
  PROVE  \A m \in Models : CoherentBreaker(breaker'[m])
<1>1. ASSUME NEW s \in todo, Target(c, s) \in Models, Enter(c, s, b)
      PROVE  \A m \in Models : CoherentBreaker(breaker'[m])
  BY <1>1, BreakerOpsCoherent DEF Enter
<1>2. ASSUME NoCandidate(c, b, given)
      PROVE  \A m \in Models : CoherentBreaker(breaker'[m])
  BY <1>2 DEF NoCandidate
<1> QED
  BY <1>1, <1>2, TryNextCases

LEMMA CoherentStep == Shape /\ BreakerCoherent /\ [Next]_vars => BreakerCoherent'
<1> SUFFICES ASSUME Shape, BreakerCoherent, [Next]_vars PROVE BreakerCoherent'
  OBVIOUS
<1> DEFINE Good(f) == \A m \in Models : CoherentBreaker(f[m])
<1>0. Good(breaker) /\ (Good(breaker') => BreakerCoherent') /\ breaker \in [Models -> Breakers]
  BY DEF BreakerCoherent, CoherentBreaker, Shape, TypeOK
<1>1. ASSUME NEW c \in Calls, Start(c) \/ CacheMiss(c) PROVE Good(breaker')
  <2>1. CASE TryNext(c, Slots, breaker, {})
    BY <1>0, <2>1, TryNextCoherent DEF Shape
  <2>2. CASE UNCHANGED breaker
    BY <1>0, <2>2
  <2> QED
    BY <1>1, <2>1, <2>2 DEF Start, CacheMiss
<1>2. ASSUME NEW c \in Calls, Answered(c) PROVE Good(breaker')
  BY <1>0, <1>2, BreakerOpsCoherent DEF Answered
<1>3. ASSUME NEW c \in Calls, TransientGiveUp(c) PROVE Good(breaker')
  <2> DEFINE b == [breaker EXCEPT ![Current(c)] = RecordFailure(@)]
             todo == IF slot[c] = "primary" THEN {"fallback"} ELSE {}
  <2>1. b \in [Models -> Breakers] /\ todo \in SUBSET Slots
    BY <1>0, BreakerOpsType DEF Slots
  <2>2. TryNext(c, todo, b, gaveUp'[c])
    BY <1>3 DEF TransientGiveUp
  <2>3. Good(b)
    BY <1>0, BreakerOpsCoherent
  <2> HIDE DEF b, todo
  <2> QED
    BY <2>1, <2>2, <2>3, TryNextCoherent DEF Shape
<1>4. ASSUME NEW c \in Calls, CacheHit(c) \/ CacheStored(c) \/ CacheDown(c) \/ Fatal(c)
             \/ Malformed(c) \/ TransientRetry(c) \/ Wake(c) \/ Cancel(c)
      PROVE  Good(breaker')
  BY <1>0, <1>4 DEF CacheHit, CacheStored, CacheDown, Fatal, Malformed, TransientRetry, Wake,
     Cancel
<1>5. CASE Tick
  BY <1>0, <1>5, BreakerOpsCoherent DEF Tick
<1>6. CASE UNCHANGED breaker
  BY <1>0, <1>6
<1> HIDE DEF Good
<1> QED
  BY <1>0, <1>1, <1>2, <1>3, <1>4, <1>5, <1>6
     DEF Next, Step, CacheAnswers, ProviderReplies, Expire, vars

-----------------------------------------------------------------------------
(* The theorems.                                                             *)

\* The inductive invariant: TypeOK alone is not kept, since a reply is recorded against
\* the breaker of Current(c), which CallShape says is a model.
Inv == Shape /\ CallsOK /\ BreakerCoherent

LEMMA InvInit == Init => Inv
<1> SUFFICES ASSUME Init PROVE Inv
  OBVIOUS
<1>1. TypeOK
  BY TypeInit
<1>2. ASSUME NEW c \in Calls PROVE CallOK(c)
  BY <1>2 DEF Init, CallOK, CallShapeOf, Fresh, Accounted, Spent, Running, Current, Target,
     Tells, GatewayErrors
<1>3. BreakerCoherent
  BY LimitsAssumption DEF Init, BreakerCoherent, NewBreaker, Threshold
<1> QED
  BY <1>1, <1>2, <1>3 DEF Inv, Shape, CallShape, CallsOK, CallOK

LEMMA InvStep == Inv /\ [Next]_vars => Inv'
<1> SUFFICES ASSUME Inv, [Next]_vars PROVE Inv'
  OBVIOUS
<1>1. TypeOK'
  BY TypeStep DEF Inv
<1>2. BreakerCoherent'
  BY CoherentStep DEF Inv
<1>3. ASSUME NEW d \in Calls PROVE CallOK(d)'
  <2>1. model' = model /\ CallOK(d) /\ Shape
    BY RequestsFixed DEF Inv, CallsOK
  <2>2. CASE Step(d)
    BY <2>1, <2>2, OwnStep
  <2>3. ASSUME NEW c \in Calls \ {d}, Step(c) PROVE CallOK(d)'
    BY <2>1, <2>3, StepOthers, OtherStep
  <2>4. CASE UNCHANGED callVars
    <3>1. SameCall(d)
      BY <2>4 DEF callVars, SameCall
    <3> QED
      BY <2>1, <3>1, OtherStep
  <2>5. \/ \E c \in Calls : Step(c)
        \/ UNCHANGED callVars
    BY DEF Next, Expire, Tick, vars, callVars
  <2> QED
    BY <2>2, <2>3, <2>4, <2>5
<1> QED
  BY <1>1, <1>2, <1>3 DEF Inv, Shape, CallShape, CallsOK, CallOK

LEMMA Invariance == Spec => []Inv
<1> QED
  BY InvInit, InvStep, PTL DEF Spec

\* Every variable of the gateway keeps its type, for any number of concurrent calls.
THEOREM GatewayTypeCorrect == Spec => []TypeOK
<1>1. Inv => TypeOK
  BY DEF Inv, Shape
<1> QED
  BY <1>1, Invariance, PTL

\* A breaker is closed exactly while its failures are below the threshold, whatever
\* replies of calls let through earlier arrive late.
THEOREM GatewayBreakerCoherent == Spec => []BreakerCoherent
<1>1. Inv => BreakerCoherent
  BY DEF Inv
<1> QED
  BY <1>1, Invariance, PTL

\* The provider requests of a call are MaxRetries + 1 for each candidate given up, plus
\* the attempts on the current one: no retry is lost and none is added.
THEOREM GatewayTrafficAccounted == Spec => []TrafficAccounted
<1>1. Inv => TrafficAccounted
  BY DEF Inv, CallsOK, CallOK, TrafficAccounted
<1> QED
  BY <1>1, Invariance, PTL

\* CircuitOpenError is raised by calls that sent nothing, AllAttemptsFailed by calls that
\* gave a candidate up, and no gateway error is raised by a call that was charged.
THEOREM GatewayErrorsTellTraffic == Spec => []OutcomeTellsTraffic
<1>1. Inv => OutcomeTellsTraffic
  BY DEF Inv, CallsOK, CallOK, OutcomeTellsTraffic
<1> QED
  BY <1>1, Invariance, PTL

\* No call enters a model whose breaker is open and has not cooled down.
THEOREM GatewayNoEntryWhileOpen == Spec => NoEntryWhileOpen
<1> DEFINE Refused(c, m) == /\ breaker[m].state = "open"
                            /\ ~CooledDown(breaker[m])
                            /\ pc[c] # "provider"
                            /\ pc'[c] = "provider"
                            /\ Target(c, slot'[c]) = m
           Guarded == \A c \in Calls, m \in Models :
                        Refused(c, m) => pc[c] = "backoff" /\ slot'[c] = slot[c]
<1>1. ASSUME Inv, [Next]_vars PROVE Guarded
  <2> SUFFICES ASSUME NEW c \in Calls, NEW m \in Models, Refused(c, m)
               PROVE  pc[c] = "backoff" /\ slot'[c] = slot[c]
    OBVIOUS
  <2>1. Step(c)
    <3>1. ASSUME NEW d \in Calls \ {c}, Step(d) PROVE FALSE
      BY <1>1, <3>1, StepOthers DEF Inv, SameCall
    <3>2. ASSUME UNCHANGED callVars PROVE FALSE
      BY <3>2 DEF callVars
    <3>3. \/ \E d \in Calls : Step(d)
          \/ UNCHANGED callVars
      BY <1>1 DEF Next, Expire, Tick, vars, callVars
    <3> QED
      BY <3>1, <3>2, <3>3
  <2>2. CASE TryNext(c, Slots, breaker, {})
    <3>1. TypeOK /\ breaker \in [Models -> Breakers]
      BY <1>1 DEF Inv, Shape, TypeOK
    <3>2. ASSUME NEW s \in Slots, Admits(breaker[Target(c, s)]), Enter(c, s, breaker)
          PROVE  FALSE
      BY <3>1, <3>2 DEF Enter, TypeOK, Admits
    <3>3. ASSUME NoCandidate(c, breaker, {}) PROVE FALSE
      BY <3>1, <3>3 DEF NoCandidate, Finish, TypeOK
    <3> QED
      BY <2>2, <3>1, <3>2, <3>3, TryNextCases
  <2>3. CASE Wake(c)
    BY <2>3 DEF Wake
  <2>4. pc \in [Calls -> {"idle", "done"} \union Suspended]
    BY <1>1 DEF Inv, Shape, TypeOK
  <2>5. CASE Start(c) /\ CacheOn
    BY <2>4, <2>5, LimitsAssumption DEF Start
  <2>6. CASE CacheHit(c) \/ CacheStored(c) \/ CacheDown(c) \/ Cancel(c)
    BY <2>4, <2>6 DEF CacheHit, CacheStored, CacheDown, Cancel, Finish
  <2>7. pc[c] # "provider"
    OBVIOUS
  <2> QED
    BY <2>1, <2>2, <2>3, <2>5, <2>6, <2>7, LimitsAssumption
       DEF Step, CacheAnswers, ProviderReplies, Start, CacheMiss, Answered, Fatal, Malformed,
           TransientRetry, TransientGiveUp
<1>2. Inv /\ [Next]_vars => [Guarded]_vars
  BY <1>1
<1>3. [][Guarded]_vars => NoEntryWhileOpen
  BY PTL DEF NoEntryWhileOpen
<1> QED
  BY <1>2, <1>3, Invariance, PTL DEF Spec

-----------------------------------------------------------------------------
(* Failures and the calls that gave up.                                      *)

GivenUp(m) == {c \in Calls : m \in gaveUp[c]}

LEMMA GivenUpFinite ==
  ASSUME NEW m
  PROVE  IsFiniteSet(GivenUp(m)) /\ Cardinality(GivenUp(m)) \in Nat
<1>1. IsFiniteSet(GivenUp(m))
  BY CallsAssumption, FS_Subset DEF GivenUp
<1> QED
  BY <1>1, FS_CardinalityType

\* What each operation of a breaker makes of its count.
LEMMA BreakerOpsCount ==
  ASSUME NEW b \in Breakers
  PROVE  /\ Allow(b).failures = b.failures
         /\ Cool(b).failures = b.failures
         /\ RecordSuccess(b).failures = 0
         /\ RecordFailure(b).failures = b.failures + 1
  BY DEF Breakers, Allow, Cool, RecordSuccess, NewBreaker, RecordFailure

\* The loop over candidates counts nothing.
LEMMA TryNextCount ==
  ASSUME TypeOK,
         NEW c \in Calls, NEW todo \in SUBSET Slots, NEW b \in [Models -> Breakers],
         NEW given, TryNext(c, todo, b, given), NEW m \in Models
  PROVE  breaker'[m].failures = b[m].failures
<1>1. ASSUME NEW s \in todo, Target(c, s) \in Models, Enter(c, s, b)
      PROVE  breaker'[m].failures = b[m].failures
  BY <1>1, BreakerOpsCount DEF Enter
<1>2. ASSUME NoCandidate(c, b, given) PROVE breaker'[m].failures = b[m].failures
  BY <1>2 DEF NoCandidate
<1> QED
  BY <1>1, <1>2, TryNextCases

\* A call that uses up its retries joins those that gave the model up, and its failure is
\* the only one counted.
LEMMA GiveUpCounts ==
  ASSUME Inv, OnlyExhaustionTrips, NEW c \in Calls, TransientGiveUp(c)
  PROVE  OnlyExhaustionTrips'
<1> DEFINE m == Current(c)
           b == [breaker EXCEPT ![m] = RecordFailure(@)]
           todo == IF slot[c] = "primary" THEN {"fallback"} ELSE {}
<1>1. TypeOK /\ breaker \in [Models -> Breakers]
  BY DEF Inv, Shape, TypeOK
<1>2. m \in Models /\ m \notin gaveUp[c]
  <2>1. Out(c) /\ model[c] \in Models /\ Fallback[model[c]] # model[c]
    BY FallbackAssumption DEF Inv, Shape, TypeOK, CallShape, CallShapeOf, TransientGiveUp
  <2> QED
    BY <2>1 DEF Out, Current, Target
<1>3. b \in [Models -> Breakers] /\ todo \in SUBSET Slots /\ TryNext(c, todo, b, gaveUp'[c])
  BY <1>1, <1>2, BreakerOpsType DEF TransientGiveUp, Slots
<1>4. \A n \in Models : breaker'[n].failures = b[n].failures
  <2> HIDE DEF b, todo
  <2> QED
    BY <1>1, <1>3, TryNextCount
<1>5. gaveUp' = [gaveUp EXCEPT ![c] = @ \union {m}] /\ gaveUp \in [Calls -> SUBSET Models]
  BY <1>1 DEF TransientGiveUp, TypeOK
<1>6. ASSUME NEW n \in Models PROVE breaker'[n].failures <= Cardinality(GivenUp(n)')
  <2>1. /\ Cardinality(GivenUp(n)) \in Nat /\ IsFiniteSet(GivenUp(n))
        /\ breaker[n].failures \in Nat
        /\ breaker[n].failures <= Cardinality(GivenUp(n))
    BY <1>1, GivenUpFinite DEF OnlyExhaustionTrips, GivenUp, Breakers
  <2>2. CASE n = m
    <3>1. GivenUp(n)' = GivenUp(n) \union {c} /\ c \notin GivenUp(n)
      BY <1>2, <1>5, <2>2 DEF GivenUp
    <3>2. Cardinality(GivenUp(n)') = Cardinality(GivenUp(n)) + 1
      BY <2>1, <3>1, FS_AddElement
    <3>3. breaker'[n].failures = breaker[n].failures + 1
      BY <1>1, <1>4, <2>2, BreakerOpsCount
    <3> QED
      BY <2>1, <3>2, <3>3
  <2>3. CASE n # m
    <3>1. GivenUp(n)' = GivenUp(n)
      BY <1>5, <2>3 DEF GivenUp
    <3>2. breaker'[n].failures = breaker[n].failures
      BY <1>1, <1>4, <2>3
    <3> QED
      BY <2>1, <3>1, <3>2
  <2> QED
    BY <2>2, <2>3
<1> QED
  BY <1>6 DEF OnlyExhaustionTrips, GivenUp

LEMMA ExhaustionStep == Inv /\ OnlyExhaustionTrips /\ [Next]_vars => OnlyExhaustionTrips'
<1> SUFFICES ASSUME Inv, OnlyExhaustionTrips, [Next]_vars PROVE OnlyExhaustionTrips'
  OBVIOUS
<1> DEFINE Less == \A m \in Models : breaker'[m].failures <= breaker[m].failures
<1>1. TypeOK /\ breaker \in [Models -> Breakers]
  BY DEF Inv, Shape, TypeOK
<1>2. ASSUME UNCHANGED gaveUp, Less PROVE OnlyExhaustionTrips'
  <2> SUFFICES ASSUME NEW m \in Models
               PROVE  breaker'[m].failures <= Cardinality(GivenUp(m))
    BY <1>2 DEF OnlyExhaustionTrips, GivenUp
  <2>1. TypeOK'
    BY TypeStep DEF Inv
  <2>2. /\ breaker'[m].failures \in Nat /\ breaker[m].failures \in Nat
        /\ Cardinality(GivenUp(m)) \in Nat
        /\ breaker[m].failures <= Cardinality(GivenUp(m))
    BY <1>1, <2>1, GivenUpFinite DEF OnlyExhaustionTrips, GivenUp, TypeOK, Breakers
  <2> QED
    BY <1>2, <2>2
<1>3. \A m \in Models : breaker[m].failures \in Nat
  BY <1>1 DEF Breakers
<1>4. ASSUME UNCHANGED breaker PROVE Less
  BY <1>3, <1>4
<1>5. ASSUME NEW c \in Calls, Start(c) \/ CacheMiss(c) PROVE UNCHANGED gaveUp /\ Less
  <2>1. UNCHANGED gaveUp
    BY <1>5 DEF Start, CacheMiss
  <2>2. CASE TryNext(c, Slots, breaker, {})
    BY <1>1, <1>3, <2>1, <2>2, TryNextCount
  <2>3. CASE UNCHANGED breaker
    BY <1>4, <2>1, <2>3
  <2> QED
    BY <1>5, <2>2, <2>3 DEF Start, CacheMiss
<1>6. ASSUME NEW c \in Calls, Answered(c) PROVE UNCHANGED gaveUp /\ Less
  BY <1>1, <1>3, <1>6, BreakerOpsCount DEF Answered
<1>7. ASSUME Tick PROVE UNCHANGED gaveUp /\ Less
  BY <1>1, <1>3, <1>7, BreakerOpsCount DEF Tick, callVars
<1>8. ASSUME NEW c \in Calls, CacheHit(c) \/ CacheStored(c) \/ CacheDown(c) \/ Fatal(c)
             \/ Malformed(c) \/ TransientRetry(c) \/ Wake(c) \/ Cancel(c)
      PROVE  UNCHANGED <<gaveUp, breaker>>
  BY <1>8 DEF CacheHit, CacheStored, CacheDown, Fatal, Malformed, TransientRetry, Wake, Cancel
<1>9. ASSUME NEW c \in Calls, TransientGiveUp(c) PROVE OnlyExhaustionTrips'
  BY <1>9, GiveUpCounts
<1>10. CASE UNCHANGED <<gaveUp, breaker>>
  BY <1>2, <1>4, <1>10
<1> HIDE DEF Less
<1> QED
  BY <1>2, <1>4, <1>5, <1>6, <1>7, <1>8, <1>9, <1>10
     DEF Next, Step, CacheAnswers, ProviderReplies, Expire, callVars, vars

LEMMA ExhaustionInit == Init => OnlyExhaustionTrips
<1> SUFFICES ASSUME Init, NEW m \in Models
             PROVE  breaker[m].failures <= Cardinality(GivenUp(m))
  BY DEF OnlyExhaustionTrips, GivenUp
<1>1. breaker[m].failures = 0
  BY DEF Init, NewBreaker
<1> QED
  BY <1>1, GivenUpFinite

\* Neither a 4xx-class error, nor a retried attempt, nor a cancelled call counts against a
\* breaker, and a call that used up its retries counts once, however many calls there are.
THEOREM GatewayOnlyExhaustionTrips == Spec => []OnlyExhaustionTrips
  BY ExhaustionInit, ExhaustionStep, Invariance, PTL DEF Spec
-----------------------------------------------------------------------------
(* The ledger and the cache.                                                 *)

\* What a charged call holds, and keeps: one charge, and the answer to its own prompt by
\* the model it asked or that model's fallback.
LedgerOf(c) ==
  /\ charged[c] \in {0, 1}
  /\ charged[c] = 1 => /\ pc[c] \in {"cache_set", "done"}
                       /\ text[c] \in Texts
                       /\ text[c].by \in {model[c], Fallback[model[c]]}
                       /\ text[c].for = prompt[c]
  /\ pc[c] = "cache_set" => charged[c] = 1

Ledger == \A c \in Calls : LedgerOf(c)

CacheInv == Inv /\ Ledger /\ CachePaidFor

\* A provider's answer is charged, and is the first and last the call gets.
LEMMA AnsweredCharges ==
  ASSUME Inv, NEW c \in Calls, Answered(c)
  PROVE  /\ charged[c] = 0
         /\ charged' = [charged EXCEPT ![c] = 1]
         /\ text' = [text EXCEPT ![c] = [by |-> Current(c), for |-> prompt[c]]]
         /\ [by |-> Current(c), for |-> prompt[c]] \in Texts
         /\ Current(c) \in {model[c], Fallback[model[c]]}
<1>1. TypeOK /\ CallShapeOf(c)
  BY DEF Inv, Shape, CallShape
<1>2. charged[c] = 0 /\ Out(c)
  BY <1>1 DEF Answered, CallShapeOf
<1>3. charged' = [charged EXCEPT ![c] = 1]
  BY <1>1, <1>2 DEF Answered, TypeOK
<1>4. Current(c) \in Models /\ prompt[c] \in Prompts
  BY <1>1, <1>2 DEF Out, TypeOK
<1> QED
  BY <1>2, <1>3, <1>4 DEF Answered, Texts, Current, Target

\* Every other step of a call charges nothing, and changes its text only before any charge.
LEMMA OtherStepsChargeNothing ==
  ASSUME Inv, NEW c \in Calls, Step(c), ~Answered(c)
  PROVE  /\ charged' = charged
         /\ charged[c] = 1 => text'[c] = text[c]
         /\ pc'[c] = "cache_set" => pc[c] = "cache_set"
         /\ pc[c] \in {"cache_set", "done"} => pc'[c] = "done"
<1>1. TypeOK /\ CallShapeOf(c)
  BY DEF Inv, Shape, CallShape
<1>2. ASSUME NEW todo \in SUBSET Slots, NEW b \in [Models -> Breakers], NEW given,
             TryNext(c, todo, b, given)
      PROVE  pc'[c] # "cache_set"
  <2>1. ASSUME NEW s \in todo, Enter(c, s, b) PROVE pc'[c] # "cache_set"
    BY <1>1, <2>1 DEF Enter, Finish, TypeOK
  <2>2. ASSUME NoCandidate(c, b, given) PROVE pc'[c] # "cache_set"
    BY <1>1, <2>2 DEF NoCandidate, Finish, TypeOK
  <2> QED
    BY <1>1, <1>2, <2>1, <2>2, TryNextCases
<1>3. CASE Start(c) \/ CacheMiss(c)
  <2>1. CASE TryNext(c, Slots, breaker, {})
    BY <1>1, <1>2, <1>3, <2>1 DEF Start, CacheMiss, TypeOK
  <2>2. CASE pc' = [pc EXCEPT ![c] = "cache_get"]
    BY <1>1, <1>3, <2>2 DEF Start, CacheMiss, TypeOK
  <2> QED
    BY <1>3, <2>1, <2>2 DEF Start, CacheMiss
<1>4. CASE CacheHit(c)
  BY <1>1, <1>4 DEF CacheHit, Finish, TypeOK, CallShapeOf
<1>5. CASE CacheStored(c) \/ CacheDown(c) \/ Cancel(c)
  BY <1>1, <1>5 DEF CacheStored, CacheDown, Cancel, Finish, TypeOK, Suspended
<1>6. CASE Fatal(c) \/ Malformed(c) \/ TransientRetry(c) \/ Wake(c)
  BY <1>1, <1>6 DEF Fatal, Malformed, TransientRetry, Wake, Finish, TypeOK
<1>7. CASE TransientGiveUp(c)
  <2> DEFINE b == [breaker EXCEPT ![Current(c)] = RecordFailure(@)]
             todo == IF slot[c] = "primary" THEN {"fallback"} ELSE {}
  <2>1. Current(c) \in Models
    BY <1>1, <1>7 DEF TransientGiveUp, CallShapeOf, Out
  <2>2. b \in [Models -> Breakers] /\ todo \in SUBSET Slots
    BY <1>1, <2>1, BreakerOpsType DEF TypeOK, Slots
  <2>3. TryNext(c, todo, b, gaveUp'[c])
    BY <1>7 DEF TransientGiveUp
  <2> HIDE DEF b, todo
  <2>4. pc'[c] # "cache_set"
    BY <1>2, <2>2, <2>3
  <2> QED
    BY <1>7, <2>4 DEF TransientGiveUp
<1> QED
  BY <1>3, <1>4, <1>5, <1>6, <1>7 DEF Step, CacheAnswers, ProviderReplies

LEMMA LedgerStep == Inv /\ Ledger /\ [Next]_vars => Ledger'
<1> SUFFICES ASSUME Inv, Ledger, [Next]_vars, NEW d \in Calls PROVE LedgerOf(d)'
  BY DEF Ledger
<1>1. TypeOK /\ LedgerOf(d) /\ model' = model /\ prompt' = prompt
  BY RequestsFixed DEF Inv, Shape, Ledger
<1>2. CASE Answered(d)
  <2>1. charged'[d] = 1 /\ text'[d] = [by |-> Current(d), for |-> prompt[d]]
    BY <1>1, <1>2, AnsweredCharges DEF TypeOK
  <2>2. pc'[d] \in {"cache_set", "done"}
    BY <1>1, <1>2 DEF Answered, Finish, TypeOK
  <2> QED
    BY <1>1, <1>2, <2>1, <2>2, AnsweredCharges DEF LedgerOf
<1>3. CASE Step(d) /\ ~Answered(d)
  BY <1>1, <1>3, OtherStepsChargeNothing DEF LedgerOf
<1>4. ASSUME NEW c \in Calls \ {d}, Step(c) PROVE LedgerOf(d)'
  <2>1. SameCall(d)
    BY <1>4, StepOthers DEF Inv
  <2> QED
    BY <1>1, <2>1 DEF SameCall, LedgerOf
<1>5. CASE UNCHANGED callVars
  BY <1>1, <1>5 DEF callVars, LedgerOf
<1> QED
  BY <1>2, <1>3, <1>4, <1>5 DEF Next, Expire, Tick, vars, callVars

\* A charge and its text are never lost.
LEMMA ChargesStay ==
  ASSUME Inv, Ledger, [Next]_vars, NEW d \in Calls, charged[d] = 1
  PROVE  charged'[d] = 1 /\ text'[d] = text[d]
<1>1. CASE Step(d)
  <2>1. ASSUME Answered(d) PROVE FALSE
    <3>1. charged[d] = 0
      BY <2>1, AnsweredCharges
    <3> QED
      BY <3>1
  <2> QED
    BY <1>1, <2>1, OtherStepsChargeNothing
<1>2. ASSUME NEW c \in Calls \ {d}, Step(c) PROVE SameCall(d)
  BY <1>2, StepOthers DEF Inv
<1> QED
  BY <1>1, <1>2 DEF SameCall, Next, Expire, Tick, vars, callVars

\* That an entry of the cache is paid for.
PaidFor(m, k, t) ==
  /\ t.by \in {m, Fallback[m]}
  /\ \E c \in Calls : /\ model[c] = m
                      /\ CacheKey[prompt[c]] = k
                      /\ charged[c] = 1
                      /\ text[c] = t

\* The only entry a step may add is the text of a call that waits to store it.
LEMMA CacheStep ==
  ASSUME Inv, [Next]_vars, NEW m \in Models, NEW k \in Prompts, cache'[m][k] # NoText
  PROVE  \/ cache'[m][k] = cache[m][k]
         \/ \E c \in Calls : /\ pc[c] = "cache_set"
                             /\ model[c] = m /\ CacheKey[prompt[c]] = k
                             /\ cache'[m][k] = text[c]
<1>1. /\ cache \in [Models -> [Prompts -> Texts \union {NoText}]]
      /\ \A c \in Calls : model[c] \in Models /\ CacheKey[prompt[c]] \in Prompts
  BY CacheKeyAssumption DEF Inv, Shape, TypeOK
<1>2. ASSUME NEW c \in Calls, pc[c] = "cache_set", cache' = Stored(c)
      PROVE  \/ cache'[m][k] = cache[m][k]
             \/ model[c] = m /\ CacheKey[prompt[c]] = k /\ cache'[m][k] = text[c]
  BY <1>1, <1>2 DEF Stored
<1>3. ASSUME NEW c \in Calls, Step(c)
      PROVE  cache' = cache \/ (pc[c] = "cache_set" /\ cache' = Stored(c))
  BY <1>3 DEF Step, Start, CacheAnswers, CacheHit, CacheMiss, CacheStored, CacheDown, MaybeStored,
     ProviderReplies, Answered, Fatal, Malformed, TransientRetry, TransientGiveUp, Wake, Cancel
<1>4. ASSUME NEW n \in Models, NEW j \in Prompts, Expire(n, j)
      PROVE  cache'[m][k] = cache[m][k]
  BY <1>1, <1>4 DEF Expire
<1> QED
  BY <1>2, <1>3, <1>4 DEF Next, Tick, vars

LEMMA CachePaidStep == CacheInv /\ [Next]_vars => CachePaidFor'
<1> SUFFICES ASSUME CacheInv, [Next]_vars, NEW m \in Models, NEW k \in Prompts, cache'[m][k] # NoText
             PROVE  PaidFor(m, k, cache[m][k])'
  BY DEF CachePaidFor, PaidFor
<1>1. Inv /\ Ledger /\ CachePaidFor /\ model' = model /\ prompt' = prompt
  BY RequestsFixed DEF CacheInv
<1>2. CASE cache'[m][k] = cache[m][k]
  <2>1. PICK c \in Calls : /\ model[c] = m /\ CacheKey[prompt[c]] = k
                           /\ charged[c] = 1 /\ text[c] = cache[m][k]
    BY <1>1, <1>2 DEF CachePaidFor
  <2>2. cache[m][k].by \in {m, Fallback[m]}
    BY <1>1, <1>2 DEF CachePaidFor
  <2> QED
    BY <1>1, <1>2, <2>1, <2>2, ChargesStay DEF PaidFor
<1>3. ASSUME NEW c \in Calls, pc[c] = "cache_set", model[c] = m, CacheKey[prompt[c]] = k,
             cache'[m][k] = text[c]
      PROVE  PaidFor(m, k, cache[m][k])'
  <2>1. charged[c] = 1 /\ text[c].by \in {m, Fallback[m]}
    BY <1>1, <1>3 DEF Ledger, LedgerOf
  <2>2. charged'[c] = 1 /\ text'[c] = text[c]
    BY <1>1, <2>1, ChargesStay
  <2> QED
    BY <1>1, <1>3, <2>1, <2>2 DEF PaidFor
<1> QED
  BY <1>1, <1>2, <1>3, CacheStep

LEMMA CacheInvInit == Init => CacheInv
<1> SUFFICES ASSUME Init PROVE CacheInv
  OBVIOUS
<1>1. Ledger
  BY DEF Init, Ledger, LedgerOf
<1>2. CachePaidFor
  BY DEF Init, CachePaidFor
<1> QED
  BY <1>1, <1>2, InvInit DEF CacheInv

LEMMA CacheInvStep == CacheInv /\ [Next]_vars => CacheInv'
  BY InvStep, LedgerStep, CachePaidStep DEF CacheInv

LEMMA CacheInvariance == Spec => []CacheInv
  BY CacheInvInit, CacheInvStep, PTL DEF Spec

\* Whatever the exact cache holds was paid for by a call that asked this very model with a
\* prompt of this key, even if the call that stored it was cancelled or its write was lost.
THEOREM GatewayCachePaidFor == Spec => []CachePaidFor
<1>1. CacheInv => CachePaidFor
  BY DEF CacheInv
<1> QED
  BY <1>1, CacheInvariance, PTL
-----------------------------------------------------------------------------
(* complete implements CallContract.                                         *)

Paid == {text[c] : c \in {d \in Calls : charged[d] > 0}}

\* What the contract sees of a step in which only c acts and nothing is charged.
StatusStep(c, how) ==
  /\ \A d \in Calls \ {c} : ContractStatus(d)' = ContractStatus(d) /\ Handed(d)' = Handed(d)
  /\ ContractStatus(c)' = how
  /\ Handed(c)' = IF how = "returned" THEN text'[c] ELSE NoText
  /\ UNCHANGED <<model, prompt, charged>>
  /\ \A d \in Calls : charged[d] = 1 => text'[d] = text[d]

LEMMA PaidStays ==
  ASSUME Ledger, UNCHANGED charged, \A d \in Calls : charged[d] = 1 => text'[d] = text[d]
  PROVE  Paid' = Paid
<1>1. \A d \in Calls : charged[d] > 0 <=> charged[d] = 1
  BY DEF Ledger, LedgerOf
<1> QED
  BY <1>1 DEF Paid

\* A call that has not returned has handed over nothing.
LEMMA NothingHanded ==
  ASSUME NEW c \in Calls, ContractStatus(c) # "returned"
  PROVE  Handed(c) = NoText
  BY DEF Handed

\* Such a step is a stutter of the contract ...
LEMMA StatusStutters ==
  ASSUME Ledger, NEW c \in Calls, ContractStatus(c) # "returned",
         StatusStep(c, ContractStatus(c))
  PROVE  UNCHANGED Contract!vars
<1>1. Paid' = Paid
  BY PaidStays DEF StatusStep
<1>2. [d \in Calls |-> ContractStatus(d)]' = [d \in Calls |-> ContractStatus(d)]
  BY DEF StatusStep
<1>3. \A d \in Calls : Handed(d)' = Handed(d)
  BY NothingHanded DEF StatusStep
<1>4. [d \in Calls |-> Handed(d)]' = [d \in Calls |-> Handed(d)]
  BY <1>3
<1> QED
  BY <1>1, <1>2, <1>4 DEF StatusStep, Contract!vars, Paid

\* ... or one of its steps that only moves the status of a call, and, when it returns, hands
\* over its text.
LEMMA StatusMoves ==
  ASSUME Ledger, NEW c \in Calls, NEW how, StatusStep(c, how),
         \/ ContractStatus(c) = "idle" /\ how \in {"pending", "failed"}
         \/ ContractStatus(c) = "pending" /\ how \in {"failed", "cancelled"}
         \/ /\ ContractStatus(c) = "pending" /\ how = "returned"
            /\ text'[c] \in Paid \intersect Serves(model[c], prompt[c])
            /\ <<model[c], prompt[c]>> \in Models \X Prompts
  PROVE  Contract!Next
<1> DEFINE status == [d \in Calls |-> ContractStatus(d)]
           asked  == [d \in Calls |-> <<model[d], prompt[d]>>]
           handed == [d \in Calls |-> Handed(d)]
<1>1. Paid' = Paid /\ charged' = charged /\ asked' = asked
  BY PaidStays DEF StatusStep
<1>2. status' = [status EXCEPT ![c] = how] /\ status[c] = ContractStatus(c)
  BY DEF StatusStep
<1>3. ASSUME how # "returned" PROVE handed' = handed
  <2>1. \A d \in Calls : Handed(d)' = Handed(d)
    BY <1>3, NothingHanded DEF StatusStep
  <2> QED
    BY <2>1
<1>4. CASE ContractStatus(c) = "idle" /\ how = "pending"
  <2>1. handed' = handed
    BY <1>3, <1>4
  <2> QED
    BY <1>1, <1>2, <1>4, <2>1 DEF Contract!Next, Contract!Ask, Paid
<1>5. CASE ContractStatus(c) = "idle" /\ how = "failed"
  <2>1. handed' = handed
    BY <1>3, <1>5
  <2> QED
    BY <1>1, <1>2, <1>5, <2>1 DEF Contract!Next, Contract!FailAtOnce, Paid
<1>6. CASE ContractStatus(c) = "pending" /\ how \in {"failed", "cancelled"}
  <2>1. handed' = handed
    BY <1>3, <1>6
  <2> QED
    BY <1>1, <1>2, <1>6, <2>1 DEF Contract!Next, Contract!Abandon, Paid
<1>7. CASE /\ ContractStatus(c) = "pending" /\ how = "returned"
           /\ text'[c] \in Paid \intersect Serves(model[c], prompt[c])
           /\ <<model[c], prompt[c]>> \in Models \X Prompts
  <2>1. [r \in Models \X Prompts |-> Serves(r[1], r[2])][asked[c]] = Serves(model[c], prompt[c])
    BY <1>7
  <2>2. handed' = [handed EXCEPT ![c] = text'[c]]
    BY <1>7 DEF StatusStep
  <2>3. Contract!HandOver(c, text'[c])
    BY <1>2, <1>7, <2>2 DEF Contract!HandOver
  <2>4. Contract!Return(c)
    BY <1>1, <1>2, <1>7, <2>1, <2>3 DEF Contract!Return, Paid
  <2> QED
    BY <2>4 DEF Contract!Next
<1> QED
  BY <1>4, <1>5, <1>6, <1>7

\* The status the contract gives a call, case by case, before and after a step.
LEMMA StatusBefore ==
  ASSUME NEW c \in Calls
  PROVE  /\ pc[c] = "idle" => ContractStatus(c) = "idle"
         /\ pc[c] \in Suspended => ContractStatus(c) = "pending"
         /\ pc[c] = "done" /\ outcome[c] = "ok" => ContractStatus(c) = "returned"
         /\ pc[c] = "done" /\ outcome[c] = "cancelled" => ContractStatus(c) = "cancelled"
         /\ pc[c] = "done" /\ outcome[c] \notin {"ok", "cancelled"} => ContractStatus(c) = "failed"
  BY DEF ContractStatus, Suspended

LEMMA StatusAfter ==
  ASSUME NEW c \in Calls
  PROVE  /\ pc'[c] = "idle" => ContractStatus(c)' = "idle"
         /\ pc'[c] \in Suspended => ContractStatus(c)' = "pending"
         /\ pc'[c] = "done" /\ outcome'[c] = "ok" => ContractStatus(c)' = "returned"
         /\ pc'[c] = "done" /\ outcome'[c] = "cancelled" => ContractStatus(c)' = "cancelled"
         /\ pc'[c] = "done" /\ outcome'[c] \notin {"ok", "cancelled"} => ContractStatus(c)' = "failed"
  BY DEF ContractStatus, Suspended

\* How the loop over candidates leaves a call.
LEMMA TryNextStatus ==
  ASSUME TypeOK,
         NEW c \in Calls, NEW todo \in SUBSET Slots, NEW b \in [Models -> Breakers],
         NEW given, TryNext(c, todo, b, given), outcome[c] = "none"
  PROVE  ContractStatus(c)' \in {"pending", "failed"}
<1>1. ASSUME NEW s \in todo, Enter(c, s, b) PROVE ContractStatus(c)' \in {"pending", "failed"}
  BY <1>1 DEF Enter, Finish, TypeOK, ContractStatus, Suspended
<1>2. ASSUME NoCandidate(c, b, given) PROVE ContractStatus(c)' \in {"pending", "failed"}
  BY <1>2 DEF NoCandidate, Finish, TypeOK, ContractStatus, Suspended
<1> QED
  BY <1>1, <1>2, TryNextCases

\* A step of a call that charges nothing, as the contract sees it.
LEMMA OtherStepsSeen ==
  ASSUME CacheInv, NEW c \in Calls, Step(c), ~Answered(c), NEW how, how = ContractStatus(c)'
  PROVE  StatusStep(c, how)
<1>1. Inv /\ Ledger /\ TypeOK /\ Shape /\ TypeOK'
  BY TypeStep DEF CacheInv, Inv, Shape, Next
<1>2. \A d \in Calls \ {c} : SameCall(d)
  BY <1>1, StepOthers
<1>3. UNCHANGED <<model, prompt>>
  BY RequestsFixed DEF Next
<1>4. charged' = charged /\ (charged[c] = 1 => text'[c] = text[c])
  BY <1>1, OtherStepsChargeNothing
<1> QED
  BY <1>2, <1>3, <1>4 DEF StatusStep, SameCall, ContractStatus, Handed

\* What is charged is what was served: the text of a charged call is acceptable to whoever
\* asks the same model with a prompt of the same key.
LEMMA PaidServes ==
  ASSUME CacheInv, NEW c \in Calls, NEW d \in Calls, charged[d] = 1,
         model[d] = model[c], CacheKey[prompt[d]] = CacheKey[prompt[c]]
  PROVE  text[d] \in Paid /\ text[d] \in Serves(model[c], prompt[c])
  BY DEF CacheInv, Ledger, LedgerOf, Paid, Serves

LEMMA OtherStepRefines ==
  ASSUME CacheInv, NEW c \in Calls, Step(c), ~Answered(c)
  PROVE  Contract!Next \/ UNCHANGED Contract!vars
<1>1. Inv /\ Ledger /\ TypeOK /\ CallShapeOf(c) /\ LedgerOf(c) /\ CachePaidFor
  BY DEF CacheInv, Inv, Shape, CallShape, Ledger
<1>2. StatusStep(c, ContractStatus(c)')
  BY OtherStepsSeen
<1>3. model[c] \in Models /\ prompt[c] \in Prompts /\ <<model[c], prompt[c]>> \in Models \X Prompts
  BY <1>1 DEF TypeOK
<1>4. ASSUME ContractStatus(c) = "idle", ContractStatus(c)' \in {"pending", "failed"} PROVE Contract!Next
  BY <1>1, <1>2, <1>4, StatusMoves
<1>5. ASSUME ContractStatus(c) = "pending", ContractStatus(c)' \in {"failed", "cancelled"} PROVE Contract!Next
  BY <1>1, <1>2, <1>5, StatusMoves
<1>6. ASSUME ContractStatus(c) = "pending", ContractStatus(c)' = "pending" PROVE UNCHANGED Contract!vars
  BY <1>1, <1>2, <1>6, StatusStutters
<1>7. ASSUME ContractStatus(c) = "pending", ContractStatus(c)' = "returned",
             text'[c] \in Paid \intersect Serves(model[c], prompt[c])
      PROVE  Contract!Next
  BY <1>1, <1>2, <1>3, <1>7, StatusMoves
<1>8. CASE Start(c)
  <2>1. ContractStatus(c) = "idle" /\ outcome[c] = "none"
    BY <1>1, <1>8, StatusBefore DEF Start, CallShapeOf
  <2>2. CASE pc' = [pc EXCEPT ![c] = "cache_get"]
    BY <1>1, <1>4, <2>1, <2>2, StatusAfter DEF TypeOK, Suspended
  <2>3. CASE TryNext(c, Slots, breaker, {})
    <3>1. ContractStatus(c)' \in {"pending", "failed"}
      BY <1>1, <2>1, <2>3, TryNextStatus DEF TypeOK
    <3> QED
      BY <1>4, <2>1, <3>1
  <2> QED
    BY <1>8, <2>2, <2>3 DEF Start
<1>9. CASE CacheHit(c)
  <2>1. ContractStatus(c) = "pending" /\ ContractStatus(c)' = "returned"
    BY <1>1, <1>9, StatusBefore, StatusAfter DEF CacheHit, Finish, TypeOK, Suspended
  <2>2. PICK d \in Calls : /\ model[d] = model[c] /\ CacheKey[prompt[d]] = CacheKey[prompt[c]]
                           /\ charged[d] = 1 /\ text[d] = Cached(c)
    BY <1>1, <1>3, <1>9, CacheKeyAssumption DEF CacheHit, Cached, CachePaidFor
  <2>3. text'[c] = text[d]
    BY <1>1, <1>9, <2>2 DEF CacheHit, TypeOK
  <2>4. text'[c] \in Paid \intersect Serves(model[c], prompt[c])
    BY <2>2, <2>3, PaidServes
  <2> QED
    BY <1>7, <2>1, <2>4
<1>10. CASE CacheMiss(c)
  <2>1. ContractStatus(c) = "pending" /\ outcome[c] = "none"
    BY <1>1, <1>10, StatusBefore DEF CacheMiss, CallShapeOf, Suspended
  <2>2. TryNext(c, Slots, breaker, {})
    BY <1>10 DEF CacheMiss
  <2>3. ContractStatus(c)' \in {"pending", "failed"}
    BY <1>1, <2>1, <2>2, TryNextStatus DEF TypeOK
  <2> QED
    BY <1>5, <1>6, <2>1, <2>3
<1>11. CASE CacheStored(c)
  <2>1. ContractStatus(c) = "pending" /\ ContractStatus(c)' = "returned"
    BY <1>1, <1>11, StatusBefore, StatusAfter DEF CacheStored, Finish, TypeOK, Suspended
  <2>2. charged[c] = 1
    BY <1>1, <1>11 DEF CacheStored, LedgerOf
  <2>3. text'[c] = text[c]
    BY <1>11 DEF CacheStored
  <2>4. text'[c] \in Paid \intersect Serves(model[c], prompt[c])
    BY <2>2, <2>3, PaidServes
  <2> QED
    BY <1>7, <2>1, <2>4
<1>12. CASE CacheDown(c) \/ Cancel(c) \/ Fatal(c) \/ Malformed(c)
  <2>1. ContractStatus(c) = "pending" /\ ContractStatus(c)' \in {"failed", "cancelled"}
    BY <1>1, <1>12, StatusBefore, StatusAfter
       DEF CacheDown, Cancel, Fatal, Malformed, Finish, TypeOK, Suspended
  <2> QED
    BY <1>5, <2>1
<1>13. CASE TransientRetry(c) \/ Wake(c)
  <2>1. ContractStatus(c) = "pending" /\ ContractStatus(c)' = "pending"
    BY <1>1, <1>13, StatusBefore, StatusAfter DEF TransientRetry, Wake, TypeOK, Suspended
  <2> QED
    BY <1>6, <2>1
<1>14. CASE TransientGiveUp(c)
  <2> DEFINE b == [breaker EXCEPT ![Current(c)] = RecordFailure(@)]
             todo == IF slot[c] = "primary" THEN {"fallback"} ELSE {}
  <2>1. ContractStatus(c) = "pending" /\ outcome[c] = "none" /\ Current(c) \in Models
    BY <1>1, <1>14, StatusBefore DEF TransientGiveUp, CallShapeOf, Out, Suspended
  <2>2. b \in [Models -> Breakers] /\ todo \in SUBSET Slots
    BY <1>1, <2>1, BreakerOpsType DEF TypeOK, Slots
  <2>3. TryNext(c, todo, b, gaveUp'[c])
    BY <1>14 DEF TransientGiveUp
  <2> HIDE DEF b, todo
  <2>4. ContractStatus(c)' \in {"pending", "failed"}
    BY <1>1, <2>1, <2>2, <2>3, TryNextStatus
  <2> QED
    BY <1>5, <1>6, <2>1, <2>4
<1> QED
  BY <1>8, <1>9, <1>10, <1>11, <1>12, <1>13, <1>14 DEF Step, CacheAnswers, ProviderReplies

\* A provider's answer is a Bill, or, when nothing has to be stored, a Serve.
LEMMA AnsweredRefines ==
  ASSUME CacheInv, NEW c \in Calls, Answered(c)
  PROVE  Contract!Next
<1> DEFINE status == [d \in Calls |-> ContractStatus(d)]
           asked  == [d \in Calls |-> <<model[d], prompt[d]>>]
           handed == [d \in Calls |-> Handed(d)]
           a      == [by |-> Current(c), for |-> prompt[c]]
<1>1. Inv /\ Ledger /\ TypeOK
  BY DEF CacheInv, Inv, Shape
<1>2. /\ charged[c] = 0 /\ charged' = [charged EXCEPT ![c] = 1]
      /\ text' = [text EXCEPT ![c] = a] /\ a \in Texts
      /\ Current(c) \in {model[c], Fallback[model[c]]}
  BY <1>1, AnsweredCharges
<1>3. asked' = asked /\ asked[c] = <<model[c], prompt[c]>> /\ <<model[c], prompt[c]>> \in Models \X Prompts
  BY <1>1 DEF Answered, TypeOK
<1>4. a \in [r \in Models \X Prompts |-> Serves(r[1], r[2])][asked[c]]
  BY <1>2, <1>3 DEF Serves
<1>5. Paid' = Paid \union {a}
  <2>1. \A d \in Calls : /\ charged[d] > 0 => d # c /\ text'[d] = text[d]
                         /\ charged'[d] > 0 <=> d = c \/ charged[d] > 0
    BY <1>1, <1>2 DEF TypeOK
  <2>2. text'[c] = a
    BY <1>1, <1>2 DEF TypeOK
  <2> QED
    BY <2>1, <2>2 DEF Paid
<1>6. status[c] = "pending" /\ ContractStatus(c) = "pending"
  BY StatusBefore DEF Answered, Suspended
<1>7. \A d \in Calls \ {c} : ContractStatus(d)' = ContractStatus(d) /\ Handed(d)' = Handed(d)
  BY <1>1, <1>2 DEF Answered, Finish, ContractStatus, Handed, TypeOK
<1> PICK x \in Texts : x = a
  BY <1>2
<1>8. Contract!Charge(c, x)
  BY <1>2, <1>3, <1>4, <1>5 DEF Contract!Charge, Paid
<1>9. CASE pc' = [pc EXCEPT ![c] = "cache_set"]
  <2>1. ContractStatus(c)' = "pending"
    BY <1>1, <1>9, StatusAfter DEF TypeOK, Suspended
  <2>2. \A d \in Calls : ContractStatus(d)' = ContractStatus(d) /\ Handed(d)' = Handed(d)
    BY <1>6, <1>7, <2>1, NothingHanded DEF Handed
  <2>3. status' = status /\ handed' = handed
    BY <2>2
  <2>4. Contract!Bill(c)
    BY <1>6, <1>8, <2>3 DEF Contract!Bill
  <2> QED
    BY <2>4 DEF Contract!Next
<1>10. CASE Finish(c, "ok")
  <2>1. ContractStatus(c)' = "returned"
    BY <1>1, <1>10, StatusAfter DEF Finish, TypeOK
  <2>2. Handed(c)' = a
    BY <1>1, <1>2, <2>1 DEF Handed, TypeOK
  <2>3. status' = [status EXCEPT ![c] = "returned"] /\ handed' = [handed EXCEPT ![c] = a]
    BY <1>7, <2>1, <2>2
  <2>4. Contract!HandOver(c, x)
    BY <2>3 DEF Contract!HandOver
  <2>5. Contract!Serve(c)
    BY <1>6, <1>8, <2>4 DEF Contract!Serve
  <2> QED
    BY <2>5 DEF Contract!Next
<1> QED
  BY <1>9, <1>10 DEF Answered

LEMMA RefinesInit == Init => Contract!Init
<1> SUFFICES ASSUME Init PROVE Contract!Init
  OBVIOUS
<1>1. [c \in Calls |-> ContractStatus(c)] = [c \in Calls |-> "idle"]
  BY DEF Init, ContractStatus
<1>2. [c \in Calls |-> <<model[c], prompt[c]>>] \in [Calls -> Models \X Prompts]
  BY DEF Init
<1>3. Paid = {}
  BY DEF Init, Paid
<1>4. [c \in Calls |-> Handed(c)] = [c \in Calls |-> NoText]
  BY DEF Init, ContractStatus, Handed
<1> QED
  BY <1>1, <1>2, <1>3, <1>4 DEF Init, Contract!Init, Paid

LEMMA RefinesNext == CacheInv /\ [Next]_vars => [Contract!Next]_Contract!vars
<1> SUFFICES ASSUME CacheInv, [Next]_vars PROVE Contract!Next \/ UNCHANGED Contract!vars
  OBVIOUS
<1>1. ASSUME NEW c \in Calls, Step(c) PROVE Contract!Next \/ UNCHANGED Contract!vars
  BY <1>1, AnsweredRefines, OtherStepRefines
<1>2. ASSUME UNCHANGED callVars PROVE UNCHANGED Contract!vars
  BY <1>2 DEF callVars, Contract!vars, ContractStatus, Handed
<1> QED
  BY <1>1, <1>2 DEF Next, Expire, Tick, vars, callVars

\* complete implements CallContract: whatever the retries, breakers, fallbacks and the cache do,
\* a call ends once, with an error or by handing over a text that serves its request and that
\* somebody has paid for; and it is charged at most once.
THEOREM GatewayImplementsContract == Spec => ImplementsContract
  BY RefinesInit, RefinesNext, CacheInvariance, PTL DEF Spec, ImplementsContract, Contract!Spec
=============================================================================
