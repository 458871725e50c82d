------------------------------- MODULE Gateway -------------------------------
(***************************************************************************)
(* LLMGateway.complete (gateway/client.py): the exact cache, the retries   *)
(* on transient errors, the fallback model, the per-model circuit breaker  *)
(* and the cost ledger, for several calls at once on one event loop.       *)
(*                                                                         *)
(* A call is an asyncio task.  Between two awaits it runs alone, so every  *)
(* action below is the code from one await to the next: what a reply       *)
(* resumes, up to the next suspension.  A call is suspended in             *)
(*    "cache_get"  awaiting get_exact,                                     *)
(*    "provider"   awaiting wait_for(completion),                          *)
(*    "backoff"    awaiting the sleep before a retry,                      *)
(*    "cache_set"  awaiting set_exact,                                     *)
(* and may be cancelled at each of them (the orchestrator's wall clock).   *)
(***************************************************************************)
EXTENDS Naturals, FiniteSets

CONSTANTS
  Calls,         \* calls of complete; each is made once
  Models,        \* the models of config/models.yaml
  NoModel,       \* "no fallback configured"
  Fallback,      \* ModelSpec.fallback, one hop
  Reachable,     \* models whose _BASE_URL and _API_KEY are in the environment
  Prompts,       \* message lists with their parameters
  CacheKey,      \* CacheKey[p]: the representative of the prompts stored under p's key
  NoText,        \* no text yet
  FailThreshold, \* gateway.circuit_breaker.fail_threshold
  ResetAfter,    \* gateway.circuit_breaker.reset_after_s, in ticks
  MaxRetries,    \* gateway.max_retries
  CacheOn        \* a RedisCache is given and cache.exact_match is set

ASSUME FallbackAssumption ==
  /\ NoModel \notin Models
  /\ Fallback \in [Models -> Models \union {NoModel}]
  /\ \A m \in Models : Fallback[m] # m
ASSUME CacheKeyAssumption == CacheKey \in [Prompts -> Prompts]
ASSUME LimitsAssumption ==
  /\ FailThreshold \in Nat
  /\ ResetAfter \in Nat
  /\ MaxRetries \in Nat
  /\ CacheOn \in BOOLEAN
  /\ Reachable \subseteq Models
ASSUME CallsAssumption == IsFiniteSet(Calls)

Slots == {"primary", "fallback"}
\* An answer: the model that wrote it and the prompt it was written for.
Texts == [by : Models, for : Prompts]
ASSUME NoTextAssumption == NoText \notin Texts

GatewayErrors == {"nonretryable", "circuit_open", "all_failed", "no_endpoint"}
OtherErrors   == {"cache_error", "malformed"}
Outcomes      == {"none", "ok", "cancelled"} \union GatewayErrors \union OtherErrors
Suspended     == {"cache_get", "provider", "backoff", "cache_set"}

VARIABLES
  pc,       \* where each call is: "idle", one of Suspended, or "done"
  model,    \* the model each call asks for
  prompt,   \* the prompt of each call
  slot,     \* the candidate the call is trying
  attempt,  \* the attempt on that candidate
  outcome,  \* how the call ended
  text,     \* the answer it holds
  charged,  \* entries it appended to the run's cost list
  sent,     \* provider requests it has sent (history)
  gaveUp,   \* models on which it used up its retries
  breaker,  \* the circuit breaker of each model
  cache     \* the exact cache in Redis: cache[m][k]

callVars == <<pc, model, prompt, slot, attempt, outcome, text, charged, sent, gaveUp>>
vars == <<pc, model, prompt, slot, attempt, outcome, text, charged, sent, gaveUp,
          breaker, cache>>

-----------------------------------------------------------------------------
(* CircuitBreaker.  elapsed counts the ticks since opened_at, up to          *)
(* ResetAfter: the code only ever compares the difference with reset_after.  *)

Threshold == IF FailThreshold > 1 THEN FailThreshold ELSE 1

Breakers == [state : {"closed", "open", "half_open"}, failures : Nat, elapsed : 0 .. ResetAfter]

NewBreaker == [state |-> "closed", failures |-> 0, elapsed |-> 0]

CooledDown(b) == b.elapsed >= ResetAfter

\* Seeded fault: a half-open breaker admits nobody until its probe reports.
Admits_OneProbe(b) == b.state = "closed" \/ (b.state = "open" /\ CooledDown(b))

\* A tick of the clock, seen by an open breaker.
Cool(b) == [b EXCEPT !.elapsed = @ + 1]

\* allow(): what it answers ...
Admits(b) == b.state = "open" => CooledDown(b)

\* ... and what it leaves behind.
Allow(b) == IF b.state = "open" /\ CooledDown(b) THEN [b EXCEPT !.state = "half_open"] ELSE b

\* Seeded fault: success closes the breaker and keeps the count.
RecordSuccess_KeepsCount(b) == [b EXCEPT !.state = "closed", !.elapsed = 0]

RecordSuccess(b) == NewBreaker

Trips(b) == b.state = "half_open" \/ b.failures + 1 >= Threshold

RecordFailure(b) ==
  IF Trips(b)
  THEN [state |-> "open", failures |-> b.failures + 1, elapsed |-> 0]
  ELSE [b EXCEPT !.failures = @ + 1]

-----------------------------------------------------------------------------
(* complete().                                                               *)

\* The candidate model of a slot; complete has at most two.
Target(c, s) == IF s = "primary" THEN model[c] ELSE Fallback[model[c]]

Current(c) == Target(c, slot[c])

\* Seeded fault: one retry too many.
CanRetry_OneMore(c) == attempt[c] <= MaxRetries + 1

CanRetry(c) == attempt[c] <= MaxRetries

\* The slots of todo that exist and whose breaker lets a call through.
Admitted(c, todo, b) ==
  {s \in todo : Target(c, s) # NoModel /\ Admits(b[Target(c, s)])}

\* The loop over candidates: primary before fallback.
FirstOf(slots) == IF "primary" \in slots THEN "primary" ELSE "fallback"

Finish(c, how) ==
  /\ pc' = [pc EXCEPT ![c] = "done"]
  /\ outcome' = [outcome EXCEPT ![c] = how]

\* _attempt up to its first await: allow() has been consulted, so a breaker may
\* be half open even when the endpoint then turns out to be missing.
Enter(c, s, b) ==
  LET m == Target(c, s) IN
  /\ breaker' = [b EXCEPT ![m] = Allow(@)]
  /\ slot' = [slot EXCEPT ![c] = s]
  /\ \/ /\ m \in Reachable
        /\ pc' = [pc EXCEPT ![c] = "provider"]
        /\ attempt' = [attempt EXCEPT ![c] = 1]
        /\ sent' = [sent EXCEPT ![c] = @ + 1]
        /\ UNCHANGED outcome
     \/ /\ m \notin Reachable
        /\ Finish(c, "no_endpoint")
        /\ attempt' = [attempt EXCEPT ![c] = 0]
        /\ UNCHANGED sent

\* Seeded fault: any_allowed is set by the fallback only.
NoCandidate_PrimaryForgotten(c, b, given) ==
  /\ Finish(c, IF Fallback[model[c]] \notin given THEN "circuit_open" ELSE "all_failed")
  /\ breaker' = b
  /\ UNCHANGED <<slot, attempt, sent>>

\* No candidate is left: any_allowed tells CircuitOpenError from AllAttemptsFailed,
\* and a candidate that was let through and did not end the call gave up.
NoCandidate(c, b, given) ==
  /\ Finish(c, IF given = {} THEN "circuit_open" ELSE "all_failed")
  /\ breaker' = b
  /\ UNCHANGED <<slot, attempt, sent>>

\* The rest of the loop, from the slots still to do, with breakers b and the
\* models already given up.
TryNext(c, todo, b, given) ==
  LET open == Admitted(c, todo, b) IN
  IF open # {} THEN Enter(c, FirstOf(open), b) ELSE NoCandidate(c, b, given)

\* What each call will ask is the caller's choice; a fresh process, an empty cache.
Init ==
  /\ pc = [c \in Calls |-> "idle"]
  /\ model \in [Calls -> Models]
  /\ prompt \in [Calls -> Prompts]
  /\ slot = [c \in Calls |-> "primary"]
  /\ attempt = [c \in Calls |-> 0]
  /\ outcome = [c \in Calls |-> "none"]
  /\ text = [c \in Calls |-> NoText]
  /\ charged = [c \in Calls |-> 0]
  /\ sent = [c \in Calls |-> 0]
  /\ gaveUp = [c \in Calls |-> {}]
  /\ breaker = [m \in Models |-> NewBreaker]
  /\ cache = [m \in Models |-> [p \in Prompts |-> NoText]]

\* A call is made: straight to the candidates, unless the cache is asked first.
Start(c) ==
  /\ pc[c] = "idle"
  /\ \/ /\ CacheOn
        /\ pc' = [pc EXCEPT ![c] = "cache_get"]
        /\ UNCHANGED <<slot, attempt, outcome, sent, breaker>>
     \/ /\ ~CacheOn
        /\ TryNext(c, Slots, breaker, {})
  /\ UNCHANGED <<model, prompt, text, charged, gaveUp, cache>>

\* Seeded fault: the cache key leaves out the model.
Cached_ForgetsModel(c) ==
  LET k == CacheKey[prompt[c]]
      hits == {m \in Models : cache[m][k] # NoText}
  IN IF hits = {} THEN NoText ELSE cache[CHOOSE m \in hits : TRUE][k]

Cached(c) == cache[model[c]][CacheKey[prompt[c]]]

\* get_exact answers: any stored text is a hit, and ends the call.
CacheHit(c) ==
  /\ pc[c] = "cache_get"
  /\ Cached(c) # NoText
  /\ Finish(c, "ok")
  /\ text' = [text EXCEPT ![c] = Cached(c)]
  /\ UNCHANGED <<model, prompt, slot, attempt, charged, sent, gaveUp, breaker, cache>>

CacheMiss(c) ==
  /\ pc[c] = "cache_get"
  /\ Cached(c) = NoText
  /\ TryNext(c, Slots, breaker, {})
  /\ UNCHANGED <<model, prompt, text, charged, gaveUp, cache>>

\* Seeded fault: stored under the candidate that answered.
Stored_UnderCandidate(c) == [cache EXCEPT ![Current(c)][CacheKey[prompt[c]]] = text[c]]

\* The cache as set_exact leaves it: under the model that was asked for.
Stored(c) == [cache EXCEPT ![model[c]][CacheKey[prompt[c]]] = text[c]]

\* A well-formed response: breaker and ledger are settled before the next await.
Answered(c) ==
  /\ pc[c] = "provider"
  /\ breaker' = [breaker EXCEPT ![Current(c)] = RecordSuccess(@)]
  /\ charged' = [charged EXCEPT ![c] = @ + 1]
  /\ text' = [text EXCEPT ![c] = [by |-> Current(c), for |-> prompt[c]]]
  /\ \/ CacheOn /\ pc' = [pc EXCEPT ![c] = "cache_set"] /\ UNCHANGED outcome
     \/ ~CacheOn /\ Finish(c, "ok")
  /\ UNCHANGED <<model, prompt, slot, attempt, sent, gaveUp, cache>>

\* A 4xx-class error: no retry, no fallback, and the breaker is not told.
Fatal(c) ==
  /\ pc[c] = "provider"
  /\ Finish(c, "nonretryable")
  /\ UNCHANGED <<model, prompt, slot, attempt, text, charged, sent, gaveUp, breaker, cache>>

\* A response without choices: _extract raises IndexError past every handler.
Malformed(c) ==
  /\ pc[c] = "provider"
  /\ Finish(c, "malformed")
  /\ UNCHANGED <<model, prompt, slot, attempt, text, charged, sent, gaveUp, breaker, cache>>

\* Seeded fault: every transient error counts against the breaker.
TransientRetry_Counted(c) ==
  /\ pc[c] = "provider"
  /\ CanRetry(c)
  /\ pc' = [pc EXCEPT ![c] = "backoff"]
  /\ breaker' = [breaker EXCEPT ![Current(c)] = RecordFailure(@)]
  /\ UNCHANGED <<model, prompt, slot, attempt, outcome, text, charged, sent, gaveUp, cache>>

\* A transient error, the per-call timeout included, with retries left.
TransientRetry(c) ==
  /\ pc[c] = "provider"
  /\ CanRetry(c)
  /\ pc' = [pc EXCEPT ![c] = "backoff"]
  /\ UNCHANGED <<model, prompt, slot, attempt, outcome, text, charged, sent, gaveUp,
                 breaker, cache>>

\* Seeded fault: the failure is put down to the fallback.
TransientGiveUp_BlamesNext(c) ==
  /\ pc[c] = "provider"
  /\ ~CanRetry(c)
  /\ gaveUp' = [gaveUp EXCEPT ![c] = @ \union {Current(c)}]
  /\ TryNext(c, IF slot[c] = "primary" THEN {"fallback"} ELSE {},
             [m \in Models |-> IF m = Target(c, "fallback") THEN RecordFailure(breaker[m])
                              ELSE breaker[m]], gaveUp'[c])
  /\ UNCHANGED <<model, prompt, text, charged, cache>>

\* ... and without: the breaker is told once, and the next candidate is tried.
TransientGiveUp(c) ==
  /\ pc[c] = "provider"
  /\ ~CanRetry(c)
  /\ gaveUp' = [gaveUp EXCEPT ![c] = @ \union {Current(c)}]
  /\ TryNext(c, IF slot[c] = "primary" THEN {"fallback"} ELSE {},
             [breaker EXCEPT ![Current(c)] = RecordFailure(@)], gaveUp'[c])
  /\ UNCHANGED <<model, prompt, text, charged, cache>>

\* Seeded fault: a retry waits for the breaker.
Wake_WaitsForBreaker(c) ==
  /\ pc[c] = "backoff"
  /\ Admits(breaker[Current(c)])
  /\ pc' = [pc EXCEPT ![c] = "provider"]
  /\ attempt' = [attempt EXCEPT ![c] = @ + 1]
  /\ sent' = [sent EXCEPT ![c] = @ + 1]
  /\ UNCHANGED <<model, prompt, slot, outcome, text, charged, gaveUp, breaker, cache>>

\* The backoff is over: the retry does not consult the breaker again.
Wake(c) ==
  /\ pc[c] = "backoff"
  /\ pc' = [pc EXCEPT ![c] = "provider"]
  /\ attempt' = [attempt EXCEPT ![c] = @ + 1]
  /\ sent' = [sent EXCEPT ![c] = @ + 1]
  /\ UNCHANGED <<model, prompt, slot, outcome, text, charged, gaveUp, breaker, cache>>

\* set_exact is acknowledged and complete returns.
CacheStored(c) ==
  /\ pc[c] = "cache_set"
  /\ cache' = Stored(c)
  /\ Finish(c, "ok")
  /\ UNCHANGED <<model, prompt, slot, attempt, text, charged, sent, gaveUp, breaker>>

\* A write that was sent may or may not have reached Redis.
MaybeStored(c) == IF pc[c] = "cache_set" THEN {cache, Stored(c)} ELSE {cache}

\* Redis fails: its error is no GatewayError and leaves complete as it is.
CacheDown(c) ==
  /\ pc[c] \in {"cache_get", "cache_set"}
  /\ cache' \in MaybeStored(c)
  /\ Finish(c, "cache_error")
  /\ UNCHANGED <<model, prompt, slot, attempt, text, charged, sent, gaveUp, breaker>>

\* The task is cancelled where it is suspended; nothing in the gateway catches it.
Cancel(c) ==
  /\ pc[c] \in Suspended
  /\ cache' \in MaybeStored(c)
  /\ Finish(c, "cancelled")
  /\ UNCHANGED <<model, prompt, slot, attempt, text, charged, sent, gaveUp, breaker>>

\* Redis drops an entry whose ttl has run out.
Expire(m, k) ==
  /\ cache[m][k] # NoText
  /\ cache' = [cache EXCEPT ![m][k] = NoText]
  /\ UNCHANGED <<callVars, breaker>>

\* The monotonic clock, as far as an open breaker can tell.
Cooling == {m \in Models : breaker[m].state = "open" /\ ~CooledDown(breaker[m])}

Tick ==
  /\ Cooling # {}
  /\ breaker' = [m \in Models |-> IF m \in Cooling THEN Cool(breaker[m]) ELSE breaker[m]]
  /\ UNCHANGED <<callVars, cache>>

CacheAnswers(c) == CacheHit(c) \/ CacheMiss(c) \/ CacheStored(c) \/ CacheDown(c)
ProviderReplies(c) ==
  Answered(c) \/ Fatal(c) \/ Malformed(c) \/ TransientRetry(c) \/ TransientGiveUp(c)

Step(c) == Start(c) \/ CacheAnswers(c) \/ ProviderReplies(c) \/ Wake(c) \/ Cancel(c)

Next ==
  \/ \E c \in Calls : Step(c)
  \/ \E m \in Models, k \in Prompts : Expire(m, k)
  \/ Tick

Spec == Init /\ [][Next]_vars

\* wait_for bounds every provider request, a sleep ends, and Redis answers or fails.
Fairness ==
  \A c \in Calls : WF_vars(CacheAnswers(c)) /\ WF_vars(ProviderReplies(c)) /\ WF_vars(Wake(c))

FairSpec == Spec /\ Fairness

-----------------------------------------------------------------------------
(* Properties.                                                               *)

\* Every variable keeps its type.
TypeOK ==
  /\ pc \in [Calls -> {"idle", "done"} \union Suspended]
  /\ model \in [Calls -> Models]
  /\ prompt \in [Calls -> Prompts]
  /\ slot \in [Calls -> Slots]
  /\ attempt \in [Calls -> Nat]
  /\ outcome \in [Calls -> Outcomes]
  /\ text \in [Calls -> Texts \union {NoText}]
  /\ charged \in [Calls -> Nat]
  /\ sent \in [Calls -> Nat]
  /\ gaveUp \in [Calls -> SUBSET Models]
  /\ breaker \in [Models -> Breakers]
  /\ cache \in [Models -> [Prompts -> Texts \union {NoText}]]

\* A breaker is closed exactly while fewer than the threshold of failures have been
\* counted since the last success, whatever replies of earlier calls arrive late.
BreakerCoherent ==
  \A m \in Models : breaker[m].state = "closed" <=> breaker[m].failures < Threshold

\* Only a call that used up its retries counts against a breaker, and it counts once:
\* neither a 4xx, nor a retried attempt, nor a cancelled call moves it towards open.
OnlyExhaustionTrips ==
  \A m \in Models :
    breaker[m].failures <= Cardinality({c \in Calls : m \in gaveUp[c]})

\* Requests sent to candidate m of call c: all its attempts once c gave up on m,
\* the attempts so far on the current one, and none on a candidate never entered.
Spent(c, m) == IF m \in gaveUp[c] THEN MaxRetries + 1 ELSE 0
Running(c) == IF Current(c) \in gaveUp[c] THEN 0 ELSE attempt[c]

\* The traffic of a call is exactly its attempts: a candidate is given up after
\* MaxRetries + 1 requests, the current one has had its attempts so far, and nothing is
\* sent besides.
Accounted(c) ==
  sent[c] = Spent(c, model[c]) + Spent(c, Fallback[model[c]]) + Running(c)

TrafficAccounted == \A c \in Calls : Accounted(c)

\* The error a caller sees tells what happened: an open circuit means nothing was sent,
\* exhaustion means some candidate was given up, and neither comes with a charge.
Tells(c) ==
  /\ outcome[c] = "circuit_open" => sent[c] = 0 /\ gaveUp[c] = {}
  /\ outcome[c] = "all_failed" => gaveUp[c] # {} /\ Running(c) = 0
  /\ outcome[c] \in GatewayErrors => charged[c] = 0 /\ text[c] = NoText

OutcomeTellsTraffic == \A c \in Calls : Tells(c)

\* Whatever the cache holds was paid for by a call that asked this very model with a
\* prompt of this key, and was written by the model or by its fallback.
CachePaidFor ==
  \A m \in Models, k \in Prompts :
    cache[m][k] # NoText =>
      /\ cache[m][k].by \in {m, Fallback[m]}
      /\ \E c \in Calls : /\ model[c] = m
                          /\ CacheKey[prompt[c]] = k
                          /\ charged[c] = 1
                          /\ text[c] = cache[m][k]

\* While a breaker is open and its cooldown has not passed, no call enters its model:
\* only attempts of calls let through earlier may still be retried.
NoEntryWhileOpen ==
  [][\A c \in Calls, m \in Models :
       /\ breaker[m].state = "open"
       /\ ~CooledDown(breaker[m])
       /\ pc[c] # "provider"
       /\ pc'[c] = "provider"
       /\ Target(c, slot'[c]) = m
       => pc[c] = "backoff" /\ slot'[c] = slot[c]]_vars

\* A call that is made ends.
EveryCallEnds == \A c \in Calls : pc[c] \in Suspended ~> pc[c] = "done"

-----------------------------------------------------------------------------
(* complete keeps the promise of CallContract.                               *)

ContractStatus(c) ==
  IF pc[c] = "idle" THEN "idle"
  ELSE IF pc[c] \in Suspended THEN "pending"
  ELSE CASE outcome[c] = "ok"        -> "returned"
         [] outcome[c] = "cancelled" -> "cancelled"
         [] OTHER                    -> "failed"

\* What complete returned to its caller.
Handed(c) == IF ContractStatus(c) = "returned" THEN text[c] ELSE NoText

Serves(m, p) == {t \in Texts : t.by \in {m, Fallback[m]} /\ CacheKey[t.for] = CacheKey[p]}

Contract ==
  INSTANCE CallContract WITH
    Requests   <- Models \X Prompts,
    Answers    <- Texts,
    Acceptable <- [r \in Models \X Prompts |-> Serves(r[1], r[2])],
    status     <- [c \in Calls |-> ContractStatus(c)],
    asked      <- [c \in Calls |-> <<model[c], prompt[c]>>],
    bill       <- charged,
    NoAnswer   <- NoText,
    paid       <- {text[c] : c \in {d \in Calls : charged[d] > 0}},
    handed     <- [c \in Calls |-> Handed(c)]

\* A call ends once and is charged at most once, and the very text it returns was paid for by
\* some call and serves its request, whether it comes from a provider or from the cache.
ImplementsContract == Contract!Spec

-----------------------------------------------------------------------------
(* What the gateway's own comments say of the breaker and its errors.        *)

\* gateway/client.py, "half-open probe after a cooldown": one request tries the model.
Probing(m) == {c \in Calls : pc[c] \in {"provider", "backoff"} /\ Current(c) = m}

\* While a breaker is half open at most one call is out on its model.
OneProbe == \A m \in Models : breaker[m].state = "half_open" => Cardinality(Probing(m)) <= 1

\* gateway/client.py, "closed -> open (after N fails) -> half_open probe": an open
\* breaker is left through the half-open state only.
OpenLeavesByProbe ==
  [][\A m \in Models :
       breaker[m].state = "open" /\ breaker'[m].state # "open"
         => breaker'[m].state = "half_open"]_vars

\* gateway/models.py, AllAttemptsFailed: "Primary and fallback both exhausted their retries."
AllFailedMeansBoth ==
  \A c \in Calls : outcome[c] = "all_failed" =>
    {model[c], Fallback[model[c]]} \ {NoModel} \subseteq gaveUp[c]
=============================================================================
