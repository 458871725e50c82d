------------------------------- MODULE Api -------------------------------
(***************************************************************************)
(* POST /v1/chat (api/routes.py) over Redis (cache/redis_cache.py): the    *)
(* token bucket, the idempotency store, the daily spend ledger, and one    *)
(* run of the orchestrator in between, for several requests at once.       *)
(*                                                                         *)
(* A handler is an asyncio task; each action is its code from one await to *)
(* the next, and each Redis command takes effect when it is answered:      *)
(*    "bucket_get"  hgetall of the bucket     "running"    orchestrator.run *)
(*    "bucket_set"  hset (and expire)         "idem_set"   set_idempotent  *)
(*    "idem_get"    get_idempotent            "spend_add"  add_spend       *)
(*    "spend_get"   get_spend                                              *)
(* The run itself is RunContract: it charges, and answers or raises.  Keys *)
(* are those of one day and one idempotency ttl.                           *)
(*                                                                         *)
(* Time is counted in ticks, Second of them to a second, and the bucket in *)
(* the amount a tick refills, Token of it to a token.                      *)
(***************************************************************************)
EXTENDS Naturals, FiniteSets, Functions

CONSTANTS
  Requests,     \* requests as they are delivered, retries included
  Keys,         \* values of X-API-Key; an absent header is one of them
  IdemKeys,     \* values of Idempotency-Key
  NoKey,        \* no Idempotency-Key
  Workloads,    \* who sends what: the keys of each request, and what it is sent after
  Burst,        \* rate_limit.burst
  Token,        \* what a token is worth
  Rate,         \* what a tick brings: rate_limit.requests_per_second is Rate * Second / Token
  Second,       \* ticks of a second
  DailyCap,     \* budgets.per_user_daily_usd
  EstCost,      \* CouncilPolicy.estimate_cost_usd
  SingleCost,   \* at most what a single-model run charges
  CouncilCost,  \* at most what a council charges
  Unlimited,    \* no daily budget is given
  Nobody        \* no request

ASSUME KeysAssumption ==
  /\ Workloads \subseteq [key : [Requests -> Keys], idem : [Requests -> IdemKeys \union {NoKey}],
                          prior : [Requests -> SUBSET Requests], until : Nat]
  /\ NoKey \notin IdemKeys
  /\ Nobody \notin Requests
  /\ IsFiniteSet(Requests)
ASSUME AmountsAssumption ==
  /\ {Burst, Rate, DailyCap, EstCost, SingleCost, CouncilCost} \subseteq Nat
  /\ {Token, Second} \subseteq Nat \ {0}
  /\ Unlimited \notin Nat

OnRedis == {"bucket_get", "bucket_set", "idem_get", "spend_get", "idem_set", "spend_add"}
Levels  == 0 .. Burst * Token
\* What the client gets: a status, with 200 the request whose run it reports, with 429 the
\* seconds of Retry-After.
Replies == [code : {"none", "200", "429", "500"}, of : Requests \union {Nobody}, retry : Nat]
NoReply == [code |-> "none", of |-> Nobody, retry |-> 0]

VARIABLES
  work,       \* the workload
  redis,      \* REDIS_URL was set when the process started
  clock,      \* time.monotonic, in ticks
  bucket,     \* rl:<key>; a missing one is a full one
  spent,      \* spend:<key>:<day>
  stored,     \* idem:<key>, the request whose response is kept
  h           \* the handler of each request

env    == <<work, redis, clock>>
stores == <<bucket, spent, stored>>
vars   == <<env, stores, h>>

KeyOf    == work.key
IdemOf   == work.idem
Prior    == work.prior    \* the requests whose end the client awaits before it makes this one
MaxClock == work.until    \* bound: ticks of the clock

\* The local variables of a handler.
Handlers == [
  pc        : OnRedis \union {"new", "running", "ended"}, \* the await it is suspended in
  now       : 0 .. MaxClock,    \* the time it took before hgetall
  tokens    : Levels,           \* what it is about to write to its bucket
  allowed   : BOOLEAN,          \* what its bucket said
  admitted  : BOOLEAN,          \* history: the limiter let it through
  remaining : Nat \union {Unlimited}, \* the daily budget it passed on
  council   : BOOLEAN,          \* the run was a council
  cost      : Nat,              \* what the run charged, also if it raised
  reply     : Replies]

-----------------------------------------------------------------------------
(* Helpers.                                                                  *)

At(r, place) == h[r].pc = place

GoTo(r, place) == h' = [h EXCEPT ![r].pc = place]

\* The handler x once it has answered.
Ended(x, code, of) ==
  [x EXCEPT !.pc = "ended", !.reply = [code |-> code, of |-> of, retry |-> 0]]

\* Seeded fault: the refill is not cut off at the burst.
Refilled_Uncapped(b, t) == b.tokens + (IF t > b.ts THEN (t - b.ts) * Rate ELSE 0)

\* What bucket b holds at time t.
Refilled(b, t) ==
  LET full == b.tokens + (IF t > b.ts THEN (t - b.ts) * Rate ELSE 0)
  IN IF full < Burst * Token THEN full ELSE Burst * Token

\* Seeded fault: the seconds are rounded down.
RetryAfter_Floor(tokens) == IF Rate > 0 THEN (Token - tokens) \div (Rate * Second) ELSE 60

\* Retry-After: the whole seconds until the token is there.
RetryAfter(tokens) ==
  IF Rate > 0 THEN (Token - tokens + Rate * Second - 1) \div (Rate * Second) ELSE 60

\* What is left of the day, never less than nothing.
Remaining(k) == IF spent[k] < DailyCap THEN DailyCap - spent[k] ELSE 0

\* Seeded fault: the estimate is never compared with what is left.
MayConvene_Always(x) == TRUE

\* The gate of the router: a council must fit into what is left of the day.
MayConvene(x) == x.remaining = Unlimited \/ EstCost <= x.remaining

\* Seeded fault: the total is computed from the amount read before the run.
SpendOf_ReadBefore(r) == [spent EXCEPT ![KeyOf[r]] = DailyCap - h[r].remaining + h[r].cost]

\* INCRBYFLOAT: atomic in Redis.
SpendOf(r) == [spent EXCEPT ![KeyOf[r]] = @ + h[r].cost]

StoreOf(r) == [stored EXCEPT ![IdemOf[r]] = r]

BucketOf(r) == [bucket EXCEPT ![KeyOf[r]] = [tokens |-> h[r].tokens, ts |-> h[r].now]]

-----------------------------------------------------------------------------

Fresh == [pc |-> "new", now |-> 0, tokens |-> 0, allowed |-> FALSE, admitted |-> FALSE,
          remaining |-> Unlimited, council |-> FALSE, cost |-> 0, reply |-> NoReply]

Init ==
  /\ work \in Workloads
  /\ redis \in BOOLEAN
  /\ clock = 0
  /\ bucket = [k \in Keys |-> [tokens |-> Burst * Token, ts |-> 0]]
  /\ spent = [k \in Keys |-> 0]
  /\ stored = [i \in IdemKeys |-> Nobody]
  /\ h = [r \in Requests |-> Fresh]

\* A request arrives.  Without Redis nothing stands between it and the run.
Receive(r) ==
  /\ At(r, "new")
  /\ \A q \in Prior[r] : At(q, "ended")
  /\ h' = [h EXCEPT ![r].pc = IF redis THEN "bucket_get" ELSE "running", ![r].now = clock]
  /\ UNCHANGED <<env, stores>>

\* hgetall answers: the bucket is refilled up to the time taken before it, and a token taken.
BucketRead(r) ==
  LET tokens == Refilled(bucket[KeyOf[r]], h[r].now) IN
  /\ At(r, "bucket_get")
  /\ h' = [h EXCEPT ![r].pc = "bucket_set", ![r].allowed = tokens >= Token,
                    ![r].tokens = IF tokens >= Token THEN tokens - Token ELSE tokens]
  /\ UNCHANGED <<env, stores>>

\* hset is acknowledged: a request without a token is refused; behind the limiter, an
\* Idempotency-Key is looked up first.
BucketWritten(r) ==
  /\ At(r, "bucket_set")
  /\ bucket' = BucketOf(r)
  /\ h' = [h EXCEPT ![r] =
       IF @.allowed
       THEN [@ EXCEPT !.admitted = TRUE,
                      !.pc = IF IdemOf[r] = NoKey THEN "spend_get" ELSE "idem_get"]
       ELSE [Ended(@, "429", Nobody) EXCEPT !.reply.retry = RetryAfter(h[r].tokens)]]
  /\ UNCHANGED <<env, spent, stored>>

\* Seeded fault: a stored response is not looked for.
IdemRead_AlwaysRuns(r) == At(r, "idem_get") /\ GoTo(r, "spend_get") /\ UNCHANGED <<env, stores>>

\* Seeded fault: a retry waits until nobody else works on its key.
IdemRead_AwaitsTwin(r) ==
  /\ At(r, "idem_get")
  /\ \A q \in Requests \ {r} : IdemOf[q] = IdemOf[r] => h[q].pc \in {"new", "ended"}
  /\ h' = [h EXCEPT ![r] = IF stored[IdemOf[r]] # Nobody THEN Ended(@, "200", stored[IdemOf[r]])
                           ELSE [@ EXCEPT !.pc = "spend_get"]]
  /\ UNCHANGED <<env, stores>>

\* get_idempotent answers: a stored response is returned as it is.
IdemRead(r) ==
  /\ At(r, "idem_get")
  /\ h' = [h EXCEPT ![r] = IF stored[IdemOf[r]] # Nobody THEN Ended(@, "200", stored[IdemOf[r]])
                           ELSE [@ EXCEPT !.pc = "spend_get"]]
  /\ UNCHANGED <<env, stores>>

\* get_spend answers, and the run begins.
SpendRead(r) ==
  /\ At(r, "spend_get")
  /\ h' = [h EXCEPT ![r].pc = "running", ![r].remaining = Remaining(KeyOf[r])]
  /\ UNCHANGED <<env, stores>>

\* The handler x after its run, or a part of it: a council, if one may be convened, and what
\* it charged.
AfterRun(x) ==
  {[x EXCEPT !.cost = k] : k \in 0 .. SingleCost} \union
  (IF MayConvene(x) THEN {[x EXCEPT !.council = TRUE, !.cost = k] : k \in 0 .. CouncilCost} ELSE {})

RunAnswers(r) ==
  /\ At(r, "running")
  /\ \E x \in AfterRun(h[r]) :
       h' = [h EXCEPT ![r] =
         IF ~redis THEN Ended(x, "200", r)
         ELSE [x EXCEPT !.pc = IF IdemOf[r] # NoKey THEN "idem_set" ELSE "spend_add"]]
  /\ UNCHANGED <<env, stores>>

\* An exception of run (ChairmanError, or none of the handled ones) is a 500; whatever was
\* charged before it is not recorded.
RunRaises(r) ==
  /\ At(r, "running")
  /\ \E x \in AfterRun(h[r]) : h' = [h EXCEPT ![r] = Ended(x, "500", Nobody)]
  /\ UNCHANGED <<env, stores>>

IdemWritten(r) ==
  /\ At(r, "idem_set")
  /\ stored' = StoreOf(r)
  /\ GoTo(r, "spend_add")
  /\ UNCHANGED <<env, bucket, spent>>

SpendAdded(r) ==
  /\ At(r, "spend_add")
  /\ spent' = SpendOf(r)
  /\ h' = [h EXCEPT ![r] = Ended(@, "200", r)]
  /\ UNCHANGED <<env, bucket, stored>>

\* A handler ends where it is suspended: Redis fails, which is a 500, or the process dies and
\* nothing is answered.  A write that was sent may have been applied.
Aborted(r) ==
  /\ h[r].pc \in OnRedis \union {"running"}
  /\ \E x \in (IF At(r, "running") THEN AfterRun(h[r]) ELSE {h[r]}),
        code \in (IF At(r, "running") THEN {"none"} ELSE {"none", "500"}) :
       h' = [h EXCEPT ![r] = Ended(x, code, Nobody)]
  /\ bucket' \in {bucket} \union (IF At(r, "bucket_set") THEN {BucketOf(r)} ELSE {})
  /\ stored' \in {stored} \union (IF At(r, "idem_set") THEN {StoreOf(r)} ELSE {})
  /\ spent' \in {spent} \union (IF At(r, "spend_add") THEN {SpendOf(r)} ELSE {})
  /\ UNCHANGED env

Tick ==
  /\ clock < MaxClock
  /\ clock' = clock + 1
  /\ UNCHANGED <<work, redis, stores, h>>

RedisAnswers(r) ==
  BucketRead(r) \/ BucketWritten(r) \/ IdemRead(r) \/ SpendRead(r) \/ IdemWritten(r) \/ SpendAdded(r)
RunEnds(r) == RunAnswers(r) \/ RunRaises(r)

Step(r) == Receive(r) \/ RedisAnswers(r) \/ RunEnds(r) \/ Aborted(r)

Next == Tick \/ \E r \in Requests : Step(r)

Spec == Init /\ [][Next]_vars

\* Redis answers, and a run ends (Orchestrator, RunEnds); nothing has to fail.
FairSpec == Spec /\ \A r \in Requests : WF_vars(RedisAnswers(r)) /\ WF_vars(RunEnds(r))

-----------------------------------------------------------------------------
(* Properties.                                                               *)

\* What the runs of a set of requests charged.
Total(S) == SumFunctionOnSet([r \in Requests |-> h[r].cost], S)

RequestsOf(k) == {r \in Requests : KeyOf[r] = k}

\* Every variable keeps its type.
TypeOK ==
  /\ work \in Workloads
  /\ redis \in BOOLEAN
  /\ clock \in 0 .. MaxClock
  /\ bucket \in [Keys -> [tokens : Levels, ts : 0 .. MaxClock]]
  /\ spent \in [Keys -> Nat]
  /\ stored \in [IdemKeys -> Requests \union {Nobody}]
  /\ h \in [Requests -> Handlers]

\* The ledger loses no update, however many handlers add to it at once: it holds at least
\* what the answered runs charged, and never more than all the runs did.
AnsweredRunsRecorded ==
  redis => \A k \in Keys :
    /\ Total({r \in RequestsOf(k) : h[r].reply.of = r}) <= spent[k]
    /\ spent[k] <= Total(RequestsOf(k))

\* The requests of S are made one after the other, each when the one before has ended.
InTurn(S) == \A q, r \in S : q = r \/ q \in Prior[r] \/ r \in Prior[q]

WithinBurst(k) ==
  \A a, b \in 0 .. clock :
    a <= b => Cardinality({r \in RequestsOf(k) : h[r].admitted /\ h[r].now \in a .. b}) * Token
                <= Burst * Token + Rate * (b - a)

\* redis_cache.py, "refill at rate, burst to capacity": of a client that makes its requests in
\* turn, no stretch of time lets more through than the burst and what was refilled meanwhile.
BurstToCapacity == redis => \A k \in Keys : InTurn(RequestsOf(k)) => WithinBurst(k)

\* q is the request its client makes next after r, alone on its key.
NextAfter(r, q) ==
  /\ r \in Prior[q]
  /\ \A p \in RequestsOf(KeyOf[r]) \ {q, r} : p \in Prior[r] \/ q \in Prior[p]
  /\ KeyOf[q] = KeyOf[r]

\* A client that was refused and waits the seconds it was told is not refused again.
RetryAfterHonest ==
  \A r, q \in Requests :
    /\ Burst > 0 /\ Rate > 0 /\ NextAfter(r, q)
    /\ h[r].reply.code = "429" /\ h[q].now >= h[r].now + Second * h[r].reply.retry
    => h[q].reply.code # "429"

\* All that were told 200 under one key were told the answer of one run.
OneAnswer(S) ==
  \A q, r \in S : h[q].reply.code = "200" /\ h[r].reply.code = "200" => h[q].reply.of = h[r].reply.of

Repeats(i) == {r \in Requests : IdemOf[r] = i}

\* redis_cache.py, "a repeated Idempotency-Key returns the stored response": a request that is
\* repeated in turn is answered once for all, whichever of its repeats failed or died where.
OneAnswerPerKey == redis => \A i \in IdemKeys : InTurn(Repeats(i)) => OneAnswer(Repeats(i))

\* Of a client that makes its requests in turn, a council convened within the budget of the
\* day takes the ledger beyond it by no more than what its estimate missed.  An estimate of
\* nothing, where no model has a price, passes every gate.
CouncilsFitTheDay ==
  [][\A r \in Requests :
       EstCost > 0 /\ At(r, "spend_add") /\ h'[r].pc = "ended" /\ h[r].council /\ spent' # spent
       /\ InTurn(RequestsOf(KeyOf[r]))
         => spent'[KeyOf[r]] + EstCost <= DailyCap + CouncilCost]_vars

\* Every request that is received ends.
EveryRequestEnds == \A r \in Requests : h[r].pc \notin {"new", "ended"} ~> h[r].pc = "ended"

-----------------------------------------------------------------------------
(* What the documents say.                                                   *)

\* BUILD_SPEC.md, "safe to retry any request with an idempotency key", however early.
SafeToRetry == redis => \A i \in IdemKeys : OneAnswer(Repeats(i))

\* redis_cache.py, "burst to capacity", whoever sends what when.
BurstBounded == redis => \A k \in Keys : WithinBurst(k)

\* BUILD_SPEC.md, "per-user daily cap enforced".
DailyCapEnforced == \A k \in Keys : spent[k] <= DailyCap

\* BUILD_SPEC.md, "every run records cost".
EveryRunRecorded ==
  redis => \A k \in Keys :
    (\A r \in RequestsOf(k) : At(r, "ended")) => spent[k] = Total(RequestsOf(k))
=============================================================================
