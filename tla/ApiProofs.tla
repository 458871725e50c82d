----------------------------- MODULE ApiProofs -----------------------------
(***************************************************************************)
(* Theorems of Api, for any number of requests of any number of clients,   *)
(* sent and repeated in any order: what the ledger, the idempotency store  *)
(* and the token bucket promise, with several handlers at work on Redis    *)
(* and any of them failing or dying where it is suspended.                 *)
(***************************************************************************)
EXTENDS Api, SetLemmas

-----------------------------------------------------------------------------
(* The inductive invariant.                                                  *)

\* How far a handler is: it has not seen its bucket yet, or its bucket is behind it.
AtBucket == {"new", "bucket_get", "bucket_set"}
Behind   == {"idem_get", "spend_get", "running", "idem_set", "spend_add", "ended"}

\* The local variables a handler has set are those of the place it is at.
HandlersKnown ==
  \A r \in Requests :
    /\ h[r].pc \in OnRedis => redis
    /\ h[r].pc # "new" => h[r].now <= clock
    /\ h[r].pc \in {"idem_get", "idem_set"} => IdemOf[r] # NoKey
    /\ h[r].pc \in AtBucket => ~h[r].admitted
    /\ h[r].pc = "bucket_set" /\ ~h[r].allowed => h[r].tokens < Token
    /\ h[r].pc \notin {"idem_set", "spend_add", "ended"} => h[r].cost = 0 /\ h[r].council = FALSE
    /\ h[r].pc # "ended" => h[r].reply = NoReply
    /\ h[r].reply.of # Nobody <=> h[r].reply.code = "200"
    /\ h[r].reply.code = "429" => redis

\* A handler is started when those it is sent after have ended.
PriorEnded == \A r \in Requests : h[r].pc # "new" => \A q \in Prior[r] : h[q].pc = "ended"

\* What is stored under a key, and who may be answered it.
StoreKnown ==
  redis => \A i \in IdemKeys :
    /\ stored[i] # Nobody => IdemOf[stored[i]] = i /\ h[stored[i]].pc \in {"spend_add", "ended"}
    /\ InTurn(Repeats(i)) => \A r \in Repeats(i) :
         /\ h[r].pc \in {"spend_get", "running", "idem_set"} => stored[i] = Nobody
         /\ h[r].pc = "spend_add" => stored[i] = r
         /\ h[r].reply.code = "200" => h[r].reply.of = stored[i]

\* The requests of k let through that came from time a to time b.
Through(k, a, b) == {r \in RequestsOf(k) : h[r].admitted /\ h[r].now \in a .. b}

\* The bucket of a client that makes its requests in turn: what it was written last pays for
\* all that it let through.
BucketKnown ==
  redis => \A k \in Keys :
    /\ bucket[k].ts <= clock
    /\ InTurn(RequestsOf(k)) =>
         /\ \A r \in RequestsOf(k) :
              /\ h[r].pc \in {"bucket_get", "bucket_set"} => bucket[k].ts <= h[r].now
              /\ h[r].admitted => h[r].now <= bucket[k].ts
              /\ h[r].pc = "bucket_set" =>
                   Refilled(bucket[k], h[r].now) = h[r].tokens + (IF h[r].allowed THEN Token ELSE 0)
         /\ \A a, b \in Nat :
              a <= b => Cardinality(Through(k, a, b)) * Token <= Burst * Token + Rate * (b - a)
         /\ \A a \in Nat :
              a <= bucket[k].ts =>
                Cardinality(Through(k, a, bucket[k].ts)) * Token + bucket[k].tokens
                  <= Burst * Token + Rate * (bucket[k].ts - a)

\* q has waited as long as r was told to.
Waited(r, q) == h[q].now >= h[r].now + Second * h[r].reply.retry

\* After a refusal, the bucket stays as the refused handler wrote it until the next request.
RefusalKnown ==
  \A r, q \in Requests :
    NextAfter(r, q) /\ h[r].reply.code = "429" =>
      /\ h[r].tokens < Token /\ h[r].reply.retry = RetryAfter(h[r].tokens)
      /\ h[q].pc \in AtBucket => bucket[KeyOf[r]] = [tokens |-> h[r].tokens, ts |-> h[r].now]
      /\ Burst > 0 /\ Rate > 0 /\ Waited(r, q) =>
           (h[q].pc = "bucket_set" => h[q].allowed) /\ h[q].reply.code # "429"

\* What the answered requests charged is in the ledger, and in it is what ended ones charged.
LedgerKnown ==
  redis => \A k \in Keys :
    /\ Total({r \in RequestsOf(k) : h[r].reply.of = r}) <= spent[k]
    /\ spent[k] <= Total({r \in RequestsOf(k) : h[r].pc = "ended"})

\* While a client's only handler is in its run, the ledger is what it read.
DayKnown ==
  redis => \A k \in Keys : InTurn(RequestsOf(k)) => \A r \in RequestsOf(k) :
    h[r].pc \in {"running", "idem_set", "spend_add"} =>
      /\ h[r].remaining = Remaining(k)
      /\ h[r].pc # "running" /\ h[r].council =>
           EstCost <= h[r].remaining /\ h[r].cost <= CouncilCost

Inv == TypeOK /\ HandlersKnown /\ PriorEnded
       /\ StoreKnown /\ BucketKnown /\ RefusalKnown /\ LedgerKnown /\ DayKnown

-----------------------------------------------------------------------------
(* Lemmas about the amounts.                                                 *)

LEMMA ProductIsNat ==
  ASSUME NEW a \in Nat, NEW b \in Nat
  PROVE  a * b \in Nat
  OBVIOUS

LEMMA FactorGrows ==
  ASSUME NEW a \in Nat, NEW b \in Nat, NEW c \in Nat, a <= b
  PROVE  a * c <= b * c
  OBVIOUS

LEMMA Distributes ==
  ASSUME NEW a \in Int, NEW b \in Int, NEW c \in Int
  PROVE  /\ (a + b) * c = a * c + b * c /\ (a - b) * c = a * c - b * c
         /\ a * c = c * a
  OBVIOUS

LEMMA AmountsAre ==
  /\ Burst \in Nat /\ Rate \in Nat /\ DailyCap \in Nat /\ EstCost \in Nat
  /\ SingleCost \in Nat /\ CouncilCost \in Nat
  /\ Token \in Nat \ {0} /\ Second \in Nat \ {0}
  /\ Burst * Token \in Nat
  /\ Levels \subseteq Nat
<1>1. Burst \in Nat /\ Token \in Nat
  BY AmountsAssumption
<1>2. Burst * Token \in Nat
  BY <1>1, ProductIsNat
<1> QED
  BY <1>2, AmountsAssumption DEF Levels

LEMMA RefilledIs ==
  ASSUME NEW b, b.tokens \in Levels, b.ts \in Nat, NEW t \in Nat
  PROVE  /\ Refilled(b, t) \in Levels
         /\ Refilled(b, t) <= Burst * Token
         /\ b.ts <= t => Refilled(b, t) <= b.tokens + Rate * (t - b.ts)
         /\ b.ts <= t /\ Refilled(b, t) # Burst * Token
              => Refilled(b, t) = b.tokens + Rate * (t - b.ts)
<1> PICK limit \in Nat : limit = Burst * Token
  BY AmountsAre
<1> PICK refill \in Nat : refill = IF t > b.ts THEN (t - b.ts) * Rate ELSE 0
  <2>1. t > b.ts => t - b.ts \in Nat
    OBVIOUS
  <2> QED
    BY <2>1, AmountsAre, ProductIsNat
<1>1. b.tokens \in Nat /\ b.tokens <= limit
  BY AmountsAre DEF Levels
<1>2. Refilled(b, t) = IF b.tokens + refill < limit THEN b.tokens + refill ELSE limit
  BY DEF Refilled
<1>3. b.ts <= t => Rate * (t - b.ts) = refill
  <2>1. CASE b.ts = t
    BY <2>1, AmountsAre
  <2>2. CASE b.ts < t
    BY <2>2, AmountsAre, Distributes
  <2> QED
    BY <2>1, <2>2
<1>4. Refilled(b, t) \in 0 .. limit
  BY <1>1, <1>2
<1> QED
  BY <1>1, <1>2, <1>3, <1>4 DEF Levels

LEMMA DivisionIs ==
  ASSUME NEW n \in Nat, NEW d \in Nat \ {0}
  PROVE  n \div d \in Nat /\ d * (n \div d) <= n /\ n < d * (n \div d) + d
<1>1. n \div d \in Int
  OBVIOUS
<1>2. d * (n \div d) <= n /\ n < d * (n \div d) + d
  BY SMTT(20)
<1>3. n \div d >= 0
  BY SMTT(20)
<1> QED
  BY <1>1, <1>2, <1>3

LEMMA ProductsCommute ==
  ASSUME NEW a \in Nat, NEW b \in Nat, NEW c \in Nat
  PROVE  a * b * c = b * (c * a)
  OBVIOUS

\* Whoever waits as long as it is told finds the token there.
LEMMA RetryAfterIs ==
  ASSUME NEW tokens \in Nat, tokens < Token
  PROVE  /\ RetryAfter(tokens) \in Nat
         /\ Rate > 0 => Second * RetryAfter(tokens) * Rate >= Token - tokens
<1>1. CASE Rate > 0
  <2> PICK unit \in Nat \ {0} : unit = Rate * Second
    BY <1>1, AmountsAre
  <2> PICK missing \in Nat \ {0} : missing = Token - tokens
    BY AmountsAre
  <2> PICK seconds : seconds = (missing + unit - 1) \div unit
    OBVIOUS
  <2>1. seconds \in Nat /\ seconds * unit >= missing
    <3> PICK n \in Nat : n = missing + unit - 1
      OBVIOUS
    <3>2. seconds \in Nat /\ unit * seconds <= n /\ n < unit * seconds + unit
      BY DivisionIs
    <3>1. unit * seconds \in Nat /\ unit * seconds = seconds * unit
      BY <3>2, ProductIsNat, Distributes
    <3> QED
      BY <3>1, <3>2
  <2>2. RetryAfter(tokens) = seconds
    BY <1>1 DEF RetryAfter
  <2>3. Second * seconds * Rate = seconds * unit
    <3>1. Rate \in Nat /\ Second \in Nat
      BY AmountsAre
    <3>2. Second * seconds * Rate = seconds * (Rate * Second)
      BY ONLY <2>1, <3>1, ProductsCommute, Zenon
    <3> QED
      BY <3>2
  <2> QED
    BY <2>1, <2>2, <2>3
<1>2. CASE ~(Rate > 0)
  BY <1>2 DEF RetryAfter
<1> QED
  BY <1>1, <1>2

-----------------------------------------------------------------------------
(* Each action leaves its handler with the variables x.                      *)

Moves(r, x) == x \in Handlers /\ h' = [h EXCEPT ![r] = x]

\* Nothing but the run's own variables differs between the handlers x and y.
SameLimit(x, y) == x.now = y.now /\ x.tokens = y.tokens /\ x.allowed = y.allowed
SameRun(x, y)   == x.remaining = y.remaining /\ x.council = y.council /\ x.cost = y.cost

LEMMA WorkIs ==
  ASSUME TypeOK
  PROVE  /\ KeyOf \in [Requests -> Keys] /\ IdemOf \in [Requests -> IdemKeys \union {NoKey}]
         /\ Prior \in [Requests -> SUBSET Requests] /\ MaxClock \in Nat
         /\ NoKey \notin IdemKeys /\ Nobody \notin Requests /\ IsFiniteSet(Requests)
<1>1. work \in [key : [Requests -> Keys], idem : [Requests -> IdemKeys \union {NoKey}],
                prior : [Requests -> SUBSET Requests], until : Nat]
  BY KeysAssumption DEF TypeOK
<1> QED
  BY <1>1, KeysAssumption DEF KeyOf, IdemOf, Prior, MaxClock

LEMMA ReplyIs ==
  ASSUME NEW x \in Handlers, NEW code \in {"none", "200", "429", "500"},
         NEW of \in Requests \union {Nobody}
  PROVE  /\ Ended(x, code, of) \in Handlers /\ Ended(x, code, of).pc = "ended"
         /\ Ended(x, code, of).reply = [code |-> code, of |-> of, retry |-> 0]
         /\ SameLimit(Ended(x, code, of), x) /\ Ended(x, code, of).admitted = x.admitted
         /\ SameRun(Ended(x, code, of), x)
<1>1. [code |-> code, of |-> of, retry |-> 0] \in Replies
  BY DEF Replies
<1>2. "ended" \in OnRedis \union {"new", "running", "ended"}
  OBVIOUS
<1> PICK pcs : pcs = OnRedis \union {"new", "running", "ended"}
  OBVIOUS
<1> PICK remains : remains = Nat \union {Unlimited}
  OBVIOUS
<1> QED
  BY <1>1, <1>2 DEF Ended, Handlers, SameLimit, SameRun

LEMMA ReceiveIs ==
  ASSUME TypeOK, NEW r \in Requests, Receive(r)
  PROVE  \E x \in Handlers :
           /\ Moves(r, x) /\ x.pc = (IF redis THEN "bucket_get" ELSE "running") /\ x.now = clock
           /\ x.tokens = h[r].tokens /\ x.allowed = h[r].allowed /\ x.admitted = h[r].admitted
           /\ SameRun(x, h[r]) /\ x.reply = h[r].reply
<1> PICK x : x = [h[r] EXCEPT !.pc = IF redis THEN "bucket_get" ELSE "running", !.now = clock]
  OBVIOUS
<1>1. h[r] \in Handlers /\ clock \in 0 .. MaxClock
  BY DEF TypeOK
<1>2. h' = [h EXCEPT ![r] = x]
  BY DEF Receive
<1>3. x \in Handlers
  BY <1>1 DEF Handlers, OnRedis
<1> QED
  BY <1>1, <1>2, <1>3 DEF Moves, Handlers, SameRun

LEMMA GoesTo ==
  ASSUME TypeOK, NEW r \in Requests, NEW place \in OnRedis \union {"new", "running", "ended"},
         GoTo(r, place)
  PROVE  \E x \in Handlers :
           /\ Moves(r, x) /\ x.pc = place
           /\ SameLimit(x, h[r]) /\ x.admitted = h[r].admitted
           /\ SameRun(x, h[r]) /\ x.reply = h[r].reply
<1> PICK x : x = [h[r] EXCEPT !.pc = place]
  OBVIOUS
<1>1. h[r] \in Handlers
  BY DEF TypeOK
<1>2. h' = [h EXCEPT ![r] = x]
  BY DEF GoTo
<1>3. x \in Handlers
  BY <1>1 DEF Handlers
<1> QED
  BY <1>1, <1>2, <1>3 DEF Moves, Handlers, SameRun, SameLimit

LEMMA BucketReadIs ==
  ASSUME TypeOK, HandlersKnown, NEW r \in Requests, BucketRead(r)
  PROVE  /\ At(r, "bucket_get")
         /\ \E x \in Handlers :
              /\ Moves(r, x) /\ x.pc = "bucket_set" /\ x.now = h[r].now
              /\ x.allowed <=> Refilled(bucket[KeyOf[r]], x.now) >= Token
              /\ Refilled(bucket[KeyOf[r]], x.now) = x.tokens + (IF x.allowed THEN Token ELSE 0)
              /\ x.admitted = h[r].admitted /\ SameRun(x, h[r]) /\ x.reply = h[r].reply
<1> PICK tokens : tokens = Refilled(bucket[KeyOf[r]], h[r].now)
  OBVIOUS
<1> PICK x : x = [h[r] EXCEPT !.pc = "bucket_set", !.allowed = tokens >= Token,
                              !.tokens = IF tokens >= Token THEN tokens - Token ELSE tokens]
  OBVIOUS
<1>1. h[r] \in Handlers /\ At(r, "bucket_get") /\ h' = [h EXCEPT ![r] = x]
  BY DEF BucketRead, TypeOK
<1>2. tokens \in Levels
  <2>1. KeyOf[r] \in Keys
    BY WorkIs
  <2>2. bucket[KeyOf[r]].tokens \in Levels /\ bucket[KeyOf[r]].ts \in Nat
    BY <2>1, WorkIs DEF TypeOK
  <2>3. h[r].now \in Nat
    BY <1>1, WorkIs DEF Handlers
  <2> QED
    BY <2>2, <2>3, RefilledIs
<1>3. (IF tokens >= Token THEN tokens - Token ELSE tokens) \in Levels
  <2> PICK limit \in Nat : limit = Burst * Token
    BY AmountsAre
  <2> QED
    BY <1>2, AmountsAre DEF Levels
<1>4. x \in Handlers
  <2>1. CASE tokens >= Token
    <3>1. x = [h[r] EXCEPT !.pc = "bucket_set", !.allowed = TRUE, !.tokens = tokens - Token]
      BY <2>1
    <3> QED
      BY <1>1, <1>3, <2>1, <3>1 DEF Handlers, OnRedis
  <2>2. CASE ~(tokens >= Token)
    <3>2. (tokens >= Token) = FALSE
      BY <2>2
    <3>1. x = [h[r] EXCEPT !.pc = "bucket_set", !.allowed = FALSE, !.tokens = tokens]
      BY <3>2
    <3> QED
      BY <1>1, <1>3, <2>2, <3>1 DEF Handlers, OnRedis
  <2> QED
    BY <2>1, <2>2
<1>5. /\ x.pc = "bucket_set" /\ x.now = h[r].now /\ x.allowed = (tokens >= Token)
      /\ x.tokens = IF tokens >= Token THEN tokens - Token ELSE tokens
      /\ x.admitted = h[r].admitted /\ SameRun(x, h[r]) /\ x.reply = h[r].reply
  BY <1>1 DEF Handlers, SameRun
<1>6. x.allowed <=> tokens >= Token
  BY <1>5
<1>7. tokens = x.tokens + (IF x.allowed THEN Token ELSE 0)
  <2>1. x.tokens = IF tokens >= Token THEN tokens - Token ELSE tokens
    BY <1>5
  <2>2. tokens \in Nat /\ Token \in Nat
    BY <1>2, AmountsAre
  <2> QED
    BY ONLY <1>6, <2>1, <2>2
<1> QED
  BY <1>1, <1>4, <1>5, <1>6, <1>7 DEF Moves

\* The handler that has written its bucket is let through, or refused.
LEMMA BucketWrittenIs ==
  ASSUME TypeOK, HandlersKnown, NEW r \in Requests, BucketWritten(r)
  PROVE  /\ At(r, "bucket_set") /\ bucket' = BucketOf(r)
         /\ \E x \in Handlers :
              /\ Moves(r, x) /\ SameLimit(x, h[r]) /\ SameRun(x, h[r])
              /\ \/ /\ h[r].allowed /\ x.admitted /\ x.reply = h[r].reply
                    /\ x.pc = IF IdemOf[r] = NoKey THEN "spend_get" ELSE "idem_get"
                 \/ /\ ~h[r].allowed /\ x.admitted = h[r].admitted /\ x.pc = "ended"
                    /\ x.reply = [code |-> "429", of |-> Nobody, retry |-> RetryAfter(h[r].tokens)]
<1>1. h[r] \in Handlers /\ At(r, "bucket_set") /\ bucket' = BucketOf(r)
  BY DEF BucketWritten, TypeOK
<1>2. CASE h[r].allowed
  <2> PICK x : x = [h[r] EXCEPT !.admitted = TRUE,
                                !.pc = IF IdemOf[r] = NoKey THEN "spend_get" ELSE "idem_get"]
    OBVIOUS
  <2>1. h' = [h EXCEPT ![r] = x]
    BY <1>2 DEF BucketWritten
  <2>2. x \in Handlers
    BY <1>1 DEF Handlers, OnRedis
  <2>3. /\ x.admitted /\ x.pc = (IF IdemOf[r] = NoKey THEN "spend_get" ELSE "idem_get")
        /\ x.reply = h[r].reply /\ SameLimit(x, h[r]) /\ SameRun(x, h[r])
    BY <1>1 DEF Handlers, SameLimit, SameRun
  <2> QED
    BY <1>1, <1>2, <2>1, <2>2, <2>3 DEF Moves
<1>3. CASE ~h[r].allowed
  <2> PICK retry : retry = RetryAfter(h[r].tokens)
    OBVIOUS
  <2> PICK y : y = Ended(h[r], "429", Nobody)
    OBVIOUS
  <2> PICK x : x = [y EXCEPT !.reply.retry = retry]
    OBVIOUS
  <2>1. h' = [h EXCEPT ![r] = x]
    BY <1>3 DEF BucketWritten
  <2>2. retry \in Nat
    <3>1. h[r].tokens \in Nat /\ h[r].tokens < Token
      BY <1>1, <1>3, AmountsAre DEF HandlersKnown, At, Handlers
    <3> QED
      BY <3>1, RetryAfterIs
  <2>3. /\ y \in Handlers /\ y.pc = "ended" /\ y.reply = [code |-> "429", of |-> Nobody, retry |-> 0]
        /\ SameLimit(y, h[r]) /\ SameRun(y, h[r]) /\ y.admitted = h[r].admitted
    BY <1>1, ReplyIs
  <2> PICK reply : reply = [code |-> "429", of |-> Nobody, retry |-> retry]
    OBVIOUS
  <2>4. x = [y EXCEPT !.reply = reply] /\ reply \in Replies
    BY <2>2, <2>3 DEF Replies
  <2>5. x \in Handlers
    BY <2>3, <2>4 DEF Handlers
  <2>6. /\ x.pc = "ended" /\ x.reply = reply /\ x.admitted = h[r].admitted
        /\ SameLimit(x, h[r]) /\ SameRun(x, h[r])
    BY <2>3, <2>4 DEF Handlers, SameLimit, SameRun
  <2> QED
    BY <1>1, <1>3, <2>1, <2>5, <2>6 DEF Moves
<1> QED
  BY <1>2, <1>3

LEMMA IdemReadIs ==
  ASSUME TypeOK, HandlersKnown, NEW r \in Requests, IdemRead(r)
  PROVE  /\ At(r, "idem_get") /\ IdemOf[r] \in IdemKeys
         /\ \E x \in Handlers :
              /\ Moves(r, x) /\ SameLimit(x, h[r]) /\ SameRun(x, h[r]) /\ x.admitted = h[r].admitted
              /\ \/ /\ stored[IdemOf[r]] # Nobody /\ x.pc = "ended"
                    /\ x.reply = [code |-> "200", of |-> stored[IdemOf[r]], retry |-> 0]
                 \/ stored[IdemOf[r]] = Nobody /\ x.pc = "spend_get" /\ x.reply = h[r].reply
<1>1. h[r] \in Handlers /\ At(r, "idem_get")
  BY DEF IdemRead, TypeOK
<1>2. IdemOf[r] \in IdemKeys
  BY <1>1, WorkIs DEF HandlersKnown, At
<1>3. CASE stored[IdemOf[r]] # Nobody
  <2> PICK of \in Requests : of = stored[IdemOf[r]]
    BY <1>2, <1>3 DEF TypeOK
  <2>1. h' = [h EXCEPT ![r] = Ended(h[r], "200", of)]
    BY <1>3 DEF IdemRead
  <2> QED
    BY <1>1, <1>2, <1>3, <2>1, ReplyIs DEF Moves
<1>4. CASE stored[IdemOf[r]] = Nobody
  <2>1. GoTo(r, "spend_get")
    BY <1>4 DEF IdemRead, GoTo
  <2> QED
    BY <1>1, <1>2, <1>4, <2>1, GoesTo DEF OnRedis
<1> QED
  BY <1>3, <1>4

LEMMA RemainingIs ==
  ASSUME TypeOK, NEW k \in Keys
  PROVE  Remaining(k) \in Nat /\ (Remaining(k) > 0 => Remaining(k) = DailyCap - spent[k])
  BY AmountsAre DEF TypeOK, Remaining

LEMMA SpendReadIs ==
  ASSUME TypeOK, NEW r \in Requests, SpendRead(r)
  PROVE  /\ At(r, "spend_get")
         /\ \E x \in Handlers :
              /\ Moves(r, x) /\ x.pc = "running" /\ x.remaining = Remaining(KeyOf[r])
              /\ SameLimit(x, h[r]) /\ x.admitted = h[r].admitted
              /\ x.council = h[r].council /\ x.cost = h[r].cost /\ x.reply = h[r].reply
<1> PICK left : left = Remaining(KeyOf[r])
  OBVIOUS
<1> PICK x : x = [h[r] EXCEPT !.pc = "running", !.remaining = left]
  OBVIOUS
<1>1. h[r] \in Handlers /\ At(r, "spend_get") /\ h' = [h EXCEPT ![r] = x]
  BY DEF SpendRead, TypeOK
<1>2. left \in Nat
  BY WorkIs, RemainingIs
<1>3. x \in Handlers
  BY <1>1, <1>2 DEF Handlers
<1> QED
  BY <1>1, <1>3 DEF Moves, Handlers, SameLimit

\* What a run leaves: a council only if one may be convened, and what it charged.
LEMMA AfterRunIs ==
  ASSUME NEW y \in Handlers, y.council = FALSE, NEW x \in AfterRun(y)
  PROVE  /\ x \in Handlers /\ x.pc = y.pc /\ SameLimit(x, y) /\ x.admitted = y.admitted
         /\ x.remaining = y.remaining /\ x.reply = y.reply
         /\ x.council => MayConvene(y) /\ x.cost <= CouncilCost
<1>1. CASE \E k \in 0 .. SingleCost : x = [y EXCEPT !.cost = k]
  BY <1>1, AmountsAre DEF Handlers, SameLimit
<1>2. CASE MayConvene(y) /\ \E k \in 0 .. CouncilCost : x = [y EXCEPT !.council = TRUE, !.cost = k]
  <2> PICK k \in 0 .. CouncilCost : x = [y EXCEPT !.council = TRUE, !.cost = k]
    BY <1>2, Zenon
  <2>4. k \in Nat /\ k <= CouncilCost
    BY AmountsAre
  <2> PICK z : z = [y EXCEPT !.council = TRUE]
    OBVIOUS
  <2>1. x \in Handlers
    <3>1. z \in Handlers
      BY DEF Handlers
    <3>2. x = [z EXCEPT !.cost = k]
      OBVIOUS
    <3> QED
      BY <2>4, <3>1, <3>2 DEF Handlers
  <2>2. x.cost = k /\ x.pc = y.pc /\ x.remaining = y.remaining /\ x.reply = y.reply
    BY DEF Handlers
  <2>3. x.now = y.now /\ x.tokens = y.tokens /\ x.allowed = y.allowed /\ x.admitted = y.admitted
    BY DEF Handlers
  <2> QED
    BY <1>2, <2>1, <2>2, <2>3, <2>4 DEF SameLimit
<1>3. \/ x \in {[y EXCEPT !.cost = k] : k \in 0 .. SingleCost}
      \/ /\ MayConvene(y)
         /\ x \in {[y EXCEPT !.council = TRUE, !.cost = k] : k \in 0 .. CouncilCost}
  BY Zenon DEF AfterRun
<1> QED
  BY <1>1, <1>2, <1>3

\* A run that answers goes on to the stores, if there are any; one that raises is a 500.
LEMMA RunEndsIs ==
  ASSUME TypeOK, HandlersKnown, NEW r \in Requests, RunEnds(r)
  PROVE  /\ At(r, "running")
         /\ \E x \in Handlers :
              /\ Moves(r, x) /\ SameLimit(x, h[r]) /\ x.admitted = h[r].admitted
              /\ x.remaining = h[r].remaining
              /\ x.council => MayConvene(h[r]) /\ x.cost <= CouncilCost
              /\ \/ /\ redis /\ x.reply = h[r].reply
                    /\ x.pc = IF IdemOf[r] # NoKey THEN "idem_set" ELSE "spend_add"
                 \/ ~redis /\ x.pc = "ended" /\ x.reply = [code |-> "200", of |-> r, retry |-> 0]
                 \/ x.pc = "ended" /\ x.reply = [code |-> "500", of |-> Nobody, retry |-> 0]
<1>1. h[r] \in Handlers /\ At(r, "running") /\ h[r].council = FALSE
  BY DEF RunEnds, RunAnswers, RunRaises, TypeOK, HandlersKnown, At
<1>2. CASE RunAnswers(r)
  <2>1. PICK y \in AfterRun(h[r]) :
          h' = [h EXCEPT ![r] = IF ~redis THEN Ended(y, "200", r)
                 ELSE [y EXCEPT !.pc = IF IdemOf[r] # NoKey THEN "idem_set" ELSE "spend_add"]]
    BY <1>2 DEF RunAnswers
  <2>2. /\ y \in Handlers /\ SameLimit(y, h[r]) /\ y.admitted = h[r].admitted
        /\ y.remaining = h[r].remaining /\ y.reply = h[r].reply
        /\ y.council => MayConvene(h[r]) /\ y.cost <= CouncilCost
    BY <1>1, AfterRunIs
  <2>3. CASE redis
    <3> PICK place : place = IF IdemOf[r] # NoKey THEN "idem_set" ELSE "spend_add"
      OBVIOUS
    <3> PICK x : x = [y EXCEPT !.pc = place]
      OBVIOUS
    <3>1. place \in OnRedis \union {"new", "running", "ended"}
      BY DEF OnRedis
    <3>2. x \in Handlers /\ x.pc = place
      BY <2>2, <3>1 DEF Handlers
    <3>3. SameLimit(x, y) /\ SameRun(x, y) /\ x.admitted = y.admitted /\ x.reply = y.reply
      BY <2>2 DEF Handlers, SameLimit, SameRun
    <3>4. h' = [h EXCEPT ![r] = x]
      BY <2>1, <2>3
    <3> QED
      BY <1>1, <2>2, <2>3, <3>2, <3>3, <3>4 DEF Moves, SameLimit, SameRun
  <2>4. CASE ~redis
    <3> PICK x : x = Ended(y, "200", r)
      OBVIOUS
    <3>1. /\ x \in Handlers /\ x.pc = "ended" /\ x.reply = [code |-> "200", of |-> r, retry |-> 0]
          /\ SameLimit(x, y) /\ x.admitted = y.admitted /\ SameRun(x, y)
      BY <2>2, ReplyIs
    <3>2. h' = [h EXCEPT ![r] = x]
      BY <2>1, <2>4
    <3> QED
      BY <1>1, <2>2, <2>4, <3>1, <3>2 DEF Moves, SameLimit, SameRun
  <2> QED
    BY <2>3, <2>4
<1>3. CASE RunRaises(r)
  <2>1. PICK y \in AfterRun(h[r]) : h' = [h EXCEPT ![r] = Ended(y, "500", Nobody)]
    BY <1>3 DEF RunRaises
  <2>2. /\ y \in Handlers /\ SameLimit(y, h[r]) /\ y.admitted = h[r].admitted
        /\ y.remaining = h[r].remaining /\ y.reply = h[r].reply
        /\ y.council => MayConvene(h[r]) /\ y.cost <= CouncilCost
    BY <1>1, AfterRunIs
  <2> PICK x : x = Ended(y, "500", Nobody)
    OBVIOUS
  <2>3. /\ x \in Handlers /\ x.pc = "ended" /\ x.reply = [code |-> "500", of |-> Nobody, retry |-> 0]
        /\ SameLimit(x, y) /\ x.admitted = y.admitted /\ SameRun(x, y)
    BY <2>2, ReplyIs
  <2> QED
    BY <1>1, <2>1, <2>2, <2>3 DEF Moves, SameLimit, SameRun
<1> QED
  BY <1>2, <1>3 DEF RunEnds

\* A handler that fails or dies tells nobody's answer; what it sent may have been written.
LEMMA AbortedIs ==
  ASSUME TypeOK, HandlersKnown, NEW r \in Requests, Aborted(r)
  PROVE  /\ h[r].pc \in OnRedis \union {"running"}
         /\ bucket' = bucket \/ (At(r, "bucket_set") /\ bucket' = BucketOf(r))
         /\ stored' = stored \/ (At(r, "idem_set") /\ stored' = StoreOf(r))
         /\ spent' = spent \/ (At(r, "spend_add") /\ spent' = SpendOf(r))
         /\ \E x \in Handlers :
              /\ Moves(r, x) /\ SameLimit(x, h[r]) /\ x.admitted = h[r].admitted
              /\ x.pc = "ended" /\ x.reply.code \in {"none", "500"} /\ x.reply.of = Nobody
              /\ ~At(r, "running") => SameRun(x, h[r])
<1>1. h[r] \in Handlers /\ h[r].pc \in OnRedis \union {"running"}
  BY DEF Aborted, TypeOK
<1>2. /\ bucket' = bucket \/ (At(r, "bucket_set") /\ bucket' = BucketOf(r))
      /\ stored' = stored \/ (At(r, "idem_set") /\ stored' = StoreOf(r))
      /\ spent' = spent \/ (At(r, "spend_add") /\ spent' = SpendOf(r))
  BY DEF Aborted
<1>3. PICK y \in (IF At(r, "running") THEN AfterRun(h[r]) ELSE {h[r]}), code \in {"none", "500"} :
        h' = [h EXCEPT ![r] = Ended(y, code, Nobody)]
  BY DEF Aborted
<1>4. /\ y \in Handlers /\ SameLimit(y, h[r]) /\ y.admitted = h[r].admitted
      /\ ~At(r, "running") => SameRun(y, h[r])
  <2>1. CASE At(r, "running")
    <3>1. h[r].council = FALSE
      BY <2>1 DEF HandlersKnown, At
    <3> QED
      BY <1>1, <1>3, <2>1, <3>1, AfterRunIs
  <2>2. CASE ~At(r, "running")
    BY <1>1, <1>3, <2>2 DEF SameLimit, SameRun
  <2> QED
    BY <2>1, <2>2
<1> PICK x : x = Ended(y, code, Nobody)
  OBVIOUS
<1>5. /\ x \in Handlers /\ x.pc = "ended" /\ x.reply = [code |-> code, of |-> Nobody, retry |-> 0]
      /\ SameLimit(x, y) /\ x.admitted = y.admitted /\ SameRun(x, y)
  BY <1>4, ReplyIs
<1>6. x.reply.code \in {"none", "500"} /\ x.reply.of = Nobody
  BY <1>5
<1>7. Moves(r, x)
  BY <1>3, <1>5 DEF Moves
<1> QED
  BY <1>1, <1>2, <1>4, <1>5, <1>6, <1>7 DEF SameLimit, SameRun

LEMMA IdemWrittenIs ==
  ASSUME TypeOK, HandlersKnown, NEW r \in Requests, IdemWritten(r)
  PROVE  /\ At(r, "idem_set") /\ stored' = StoreOf(r)
         /\ \E x \in Handlers :
              /\ Moves(r, x) /\ x.pc = "spend_add"
              /\ SameLimit(x, h[r]) /\ x.admitted = h[r].admitted
              /\ SameRun(x, h[r]) /\ x.reply = h[r].reply
  BY GoesTo DEF IdemWritten, OnRedis

LEMMA SpendAddedIs ==
  ASSUME TypeOK, HandlersKnown, NEW r \in Requests, SpendAdded(r)
  PROVE  /\ At(r, "spend_add") /\ spent' = SpendOf(r)
         /\ \E x \in Handlers :
              /\ Moves(r, x) /\ x.pc = "ended" /\ x.reply = [code |-> "200", of |-> r, retry |-> 0]
              /\ SameLimit(x, h[r]) /\ x.admitted = h[r].admitted /\ SameRun(x, h[r])
<1>1. h[r] \in Handlers /\ h' = [h EXCEPT ![r] = Ended(h[r], "200", r)]
  BY DEF SpendAdded, TypeOK
<1> QED
  BY <1>1, ReplyIs DEF SpendAdded, Moves

-----------------------------------------------------------------------------
(* The invariant, part by part.                                              *)

LEMMA MovesIs ==
  ASSUME TypeOK, NEW r \in Requests, NEW x, Moves(r, x)
  PROVE  /\ h' \in [Requests -> Handlers] /\ h'[r] = x
         /\ \A q \in Requests : q # r => h'[q] = h[q]
<1> PICK H : H = Handlers
  OBVIOUS
<1> QED
  BY DEF Moves, TypeOK

LEMMA InitInv == Init => Inv
<1> SUFFICES ASSUME Init PROVE Inv
  OBVIOUS
<1>1. h = [r \in Requests |-> Fresh] /\ \A r \in Requests : h[r] = Fresh
  BY DEF Init
<1>2. Fresh \in Handlers
  <2>1. 0 \in Levels
    BY AmountsAre DEF Levels
  <2>2. work \in Workloads
    BY DEF Init
  <2>3. 0 \in 0 .. MaxClock
    BY <2>2, KeysAssumption DEF MaxClock
  <2> QED
    BY <2>1, <2>3 DEF Fresh, Handlers, Replies, NoReply
<1>3. TypeOK
  <2>1. work \in Workloads
    BY DEF Init
  <2>2. MaxClock \in Nat
    BY <2>1, KeysAssumption DEF MaxClock
  <2>3. [tokens |-> Burst * Token, ts |-> 0] \in [tokens : Levels, ts : 0 .. MaxClock]
    BY <2>2, AmountsAre DEF Levels
  <2> QED
    BY <1>1, <1>2, <2>1, <2>2, <2>3 DEF Init, TypeOK
<1>4. /\ Fresh.pc = "new" /\ Fresh.admitted = FALSE /\ Fresh.cost = 0 /\ Fresh.council = FALSE
      /\ Fresh.reply = NoReply /\ NoReply.of = Nobody /\ NoReply.code = "none"
  BY DEF Fresh, NoReply
<1>5. HandlersKnown
  BY <1>1, <1>4 DEF HandlersKnown, OnRedis, AtBucket
<1>6. PriorEnded /\ RefusalKnown
  BY <1>1, <1>4 DEF PriorEnded, RefusalKnown
<1>7. StoreKnown
  BY <1>1, <1>4 DEF Init, StoreKnown, Repeats
<1>8. BucketKnown
  <2> SUFFICES ASSUME NEW k \in Keys
               PROVE  /\ bucket[k].ts <= clock
                      /\ \A r \in RequestsOf(k) :
                           h[r].pc = "new" /\ ~h[r].admitted
                      /\ \A a, b \in Nat : a <= b =>
                           Cardinality(Through(k, a, b)) * Token <= Burst * Token + Rate * (b - a)
                      /\ \A a \in Nat : a <= bucket[k].ts =>
                           Cardinality(Through(k, a, bucket[k].ts)) * Token + bucket[k].tokens
                             <= Burst * Token + Rate * (bucket[k].ts - a)
    BY DEF BucketKnown
  <2>1. bucket[k].ts = 0 /\ bucket[k].tokens = Burst * Token /\ clock = 0
    BY DEF Init
  <2>2. \A r \in RequestsOf(k) : h[r].pc = "new" /\ ~h[r].admitted
    BY <1>1, <1>4 DEF RequestsOf
  <2>3. \A a, b \in Nat : Through(k, a, b) = {}
    BY <2>2 DEF Through
  <2> PICK limit \in Nat : limit = Burst * Token
    BY AmountsAre
  <2>4. Cardinality({}) * Token = 0
    BY FS_EmptySet, AmountsAre
  <2>5. \A a, b \in Nat : a <= b => Rate * (b - a) \in Nat
    BY AmountsAre, ProductIsNat
  <2>6. \A a, b \in Nat : Cardinality(Through(k, a, b)) * Token = 0
    BY <2>3, <2>4
  <2>7. \A a, b \in Nat : a <= b =>
          Cardinality(Through(k, a, b)) * Token <= limit + Rate * (b - a)
    BY <2>5, <2>6
  <2>8. \A a \in Nat : a <= bucket[k].ts =>
          Cardinality(Through(k, a, bucket[k].ts)) * Token + bucket[k].tokens
            <= limit + Rate * (bucket[k].ts - a)
    <3> SUFFICES ASSUME NEW a \in Nat, a <= 0
                 PROVE  Cardinality(Through(k, a, 0)) * Token + limit <= limit + Rate * (0 - a)
      BY <2>1
    <3>1. a = 0 /\ Cardinality(Through(k, a, 0)) * Token = 0
      BY <2>6
    <3>2. Rate * (0 - a) \in Nat
      BY <2>5, <3>1
    <3> QED
      BY <3>1, <3>2
  <2> QED
    BY <2>1, <2>2, <2>7, <2>8
<1>9. LedgerKnown
  <2> SUFFICES ASSUME NEW k \in Keys
               PROVE  /\ Total({r \in RequestsOf(k) : h[r].reply.of = r}) <= spent[k]
                      /\ spent[k] <= Total({r \in RequestsOf(k) : h[r].pc = "ended"})
    BY DEF LedgerKnown
  <2>1. /\ {r \in RequestsOf(k) : h[r].reply.of = r} = {}
        /\ {r \in RequestsOf(k) : h[r].pc = "ended"} = {}
    BY <1>1, <1>4, KeysAssumption DEF RequestsOf
  <2>2. Total({}) = 0 /\ spent[k] = 0
    BY SumEmpty DEF Total, Init
  <2> QED
    BY <2>1, <2>2
<1>10. DayKnown
  BY <1>1, <1>4 DEF DayKnown, RequestsOf
<1> QED
  BY <1>3, <1>5, <1>6, <1>7, <1>8, <1>9, <1>10 DEF Inv

\* What a handler does to the stores, it does at the await they answer.
LEMMA StoresMove ==
  ASSUME NEW r \in Requests, Step(r)
  PROVE  /\ UNCHANGED env
         /\ bucket' = bucket \/ (At(r, "bucket_set") /\ bucket' = BucketOf(r))
         /\ stored' = stored \/ (At(r, "idem_set") /\ stored' = StoreOf(r))
         /\ spent' = spent \/ (At(r, "spend_add") /\ spent' = SpendOf(r))
<1>1. CASE Aborted(r)
  BY <1>1 DEF Aborted
<1>2. CASE Receive(r) \/ BucketRead(r) \/ IdemRead(r) \/ SpendRead(r) \/ RunEnds(r)
  BY <1>2 DEF Receive, BucketRead, IdemRead, SpendRead, RunEnds, RunAnswers, RunRaises, stores
<1>3. CASE BucketWritten(r)
  BY <1>3 DEF BucketWritten
<1>4. CASE IdemWritten(r)
  BY <1>4 DEF IdemWritten
<1>5. CASE SpendAdded(r)
  BY <1>5 DEF SpendAdded
<1> QED
  BY <1>1, <1>2, <1>3, <1>4, <1>5 DEF Step, RedisAnswers

LEMMA StepMoves ==
  ASSUME TypeOK, HandlersKnown, NEW r \in Requests, Step(r)
  PROVE  \E x : Moves(r, x)
  BY ReceiveIs, BucketReadIs, BucketWrittenIs, IdemReadIs, SpendReadIs, RunEndsIs,
     IdemWrittenIs, SpendAddedIs, AbortedIs DEF Step, RedisAnswers

LEMMA TypeStep ==
  ASSUME TypeOK, HandlersKnown, Next
  PROVE  TypeOK'
<1>1. CASE Tick
  <2>1. MaxClock' = MaxClock /\ Handlers' = Handlers /\ UNCHANGED <<work, redis, stores, h>>
    BY <1>1 DEF Tick, MaxClock, Handlers
  <2>2. clock' \in 0 .. MaxClock
    BY <1>1, WorkIs DEF Tick, TypeOK
  <2> QED
    BY <2>1, <2>2 DEF TypeOK, stores
<1>2. ASSUME NEW r \in Requests, Step(r)
      PROVE  TypeOK'
  <2>1. /\ UNCHANGED env
        /\ bucket' = bucket \/ bucket' = BucketOf(r)
        /\ stored' = stored \/ stored' = StoreOf(r)
        /\ spent' = spent \/ spent' = SpendOf(r)
    BY <1>2, StoresMove
  <2>2. h' \in [Requests -> Handlers]
    BY <1>2, StepMoves, MovesIs
  <2>6. KeyOf[r] \in Keys /\ h[r].tokens \in Levels /\ h[r].now \in 0 .. MaxClock /\ h[r].cost \in Nat
    BY WorkIs DEF TypeOK, Handlers
  <2>7. BucketOf(r) \in [Keys -> [tokens : Levels, ts : 0 .. MaxClock]]
    BY <2>6 DEF BucketOf, TypeOK
  <2>8. SpendOf(r) \in [Keys -> Nat]
    BY <2>6 DEF SpendOf, TypeOK
  <2>9. StoreOf(r) \in [IdemKeys -> Requests \union {Nobody}]
    BY DEF StoreOf, TypeOK
  <2>10. MaxClock' = MaxClock /\ Handlers' = Handlers
    BY <2>1 DEF env, MaxClock, Handlers
  <2> QED
    BY <2>1, <2>2, <2>7, <2>8, <2>9, <2>10 DEF env, TypeOK
<1> QED
  BY <1>1, <1>2 DEF Next

LEMMA EnvKept ==
  ASSUME UNCHANGED work
  PROVE  /\ KeyOf' = KeyOf /\ IdemOf' = IdemOf /\ Prior' = Prior
         /\ \A k : RequestsOf(k)' = RequestsOf(k) /\ \A i : Repeats(i)' = Repeats(i)
         /\ \A S : InTurn(S)' <=> InTurn(S)
         /\ \A q, r : NextAfter(r, q)' <=> NextAfter(r, q)
  BY DEF KeyOf, IdemOf, Prior, RequestsOf, Repeats, InTurn, NextAfter

LEMMA PriorStep ==
  ASSUME TypeOK, HandlersKnown, PriorEnded, Next
  PROVE  PriorEnded'
<1>1. CASE Tick
  BY <1>1 DEF Tick, PriorEnded, Prior
<1>2. ASSUME NEW r \in Requests, Step(r)
      PROVE  PriorEnded'
  <2>1. Prior' = Prior
    BY <1>2, StoresMove DEF env, Prior
  <2> PICK x : Moves(r, x)
    BY <1>2, StepMoves
  <2>2. h'[r] = x /\ \A q \in Requests : q # r => h'[q] = h[q]
    BY MovesIs
  <2>3. h[r].pc # "ended"
    BY <1>2 DEF Step, Receive, RedisAnswers, BucketRead, BucketWritten, IdemRead, SpendRead,
                IdemWritten, SpendAdded, RunEnds, RunAnswers, RunRaises, Aborted, At, OnRedis
  <2>4. h[r].pc = "new" => \A q \in Prior[r] : h[q].pc = "ended"
    <3>1. ~At(r, "new") => h[r].pc # "new"
      BY DEF At
    <3>2. Receive(r) => \A q \in Prior[r] : h[q].pc = "ended"
      BY DEF Receive, At
    <3>3. h[r].pc = "new" => Receive(r)
      BY <1>2 DEF Step, RedisAnswers, BucketRead, BucketWritten, IdemRead, SpendRead,
                  IdemWritten, SpendAdded, RunEnds, RunAnswers, RunRaises, Aborted, At, OnRedis
    <3> QED
      BY <3>2, <3>3
  <2>5. \A p \in Requests : Prior[p] \subseteq Requests
    BY WorkIs
  <2>6. ASSUME NEW p \in Requests, h'[p].pc # "new", NEW q \in Prior[p]
        PROVE  h'[q].pc = "ended"
    <3>1. h[q].pc = "ended"
      BY <2>2, <2>4, <2>6 DEF PriorEnded
    <3> QED
      BY <2>2, <2>3, <2>5, <3>1
  <2> QED
    BY <2>1, <2>6 DEF PriorEnded
<1> QED
  BY <1>1, <1>2 DEF Next

LEMMA HandlersStep ==
  ASSUME TypeOK, HandlersKnown, Next
  PROVE  HandlersKnown'
<1> DEFINE Known(r) ==
      /\ h'[r].pc \in OnRedis => redis
      /\ h'[r].pc # "new" => h'[r].now <= clock
      /\ h'[r].pc \in {"idem_get", "idem_set"} => IdemOf[r] # NoKey
      /\ h'[r].pc \in AtBucket => ~h'[r].admitted
      /\ h'[r].pc = "bucket_set" /\ ~h'[r].allowed => h'[r].tokens < Token
      /\ h'[r].pc \notin {"idem_set", "spend_add", "ended"} => h'[r].cost = 0 /\ h'[r].council = FALSE
      /\ h'[r].pc # "ended" => h'[r].reply = NoReply
      /\ h'[r].reply.of # Nobody <=> h'[r].reply.code = "200"
      /\ h'[r].reply.code = "429" => redis
<1>1. CASE Tick
  <2>1. UNCHANGED <<work, redis, h>> /\ clock' = clock + 1 /\ IdemOf' = IdemOf
    BY <1>1 DEF Tick, IdemOf
  <2>2. \A r \in Requests : h[r].now \in Nat /\ clock \in Nat
    BY WorkIs DEF TypeOK, Handlers
  <2> QED
    BY <2>1, <2>2 DEF HandlersKnown
<1>2. ASSUME NEW r \in Requests, Step(r)
      PROVE  HandlersKnown'
  <2>1. UNCHANGED <<work, redis, clock>> /\ IdemOf' = IdemOf
    BY <1>2, StoresMove DEF env, IdemOf
  <2>2. \A q \in Requests : q # r => h'[q] = h[q]
    BY <1>2, StepMoves, MovesIs
  <2>3. Known(r)
    <3>0. /\ h[r].pc \in OnRedis => redis
          /\ h[r].pc # "new" => h[r].now <= clock
          /\ h[r].pc \in {"idem_get", "idem_set"} => IdemOf[r] # NoKey
          /\ h[r].pc \in AtBucket => ~h[r].admitted
          /\ h[r].pc \notin {"idem_set", "spend_add", "ended"} =>
               h[r].cost = 0 /\ h[r].council = FALSE
          /\ h[r].pc # "ended" => h[r].reply = NoReply
          /\ h[r].reply.of # Nobody <=> h[r].reply.code = "200"
      BY DEF HandlersKnown
    <3>10. clock \in Nat /\ Nobody \notin Requests /\ NoReply.of = Nobody /\ NoReply.code = "none"
      BY WorkIs DEF TypeOK, NoReply
    <3>1. CASE Receive(r)
      <4> PICK x \in Handlers :
            /\ Moves(r, x) /\ x.pc = (IF redis THEN "bucket_get" ELSE "running") /\ x.now = clock
            /\ x.tokens = h[r].tokens /\ x.allowed = h[r].allowed /\ x.admitted = h[r].admitted
            /\ SameRun(x, h[r]) /\ x.reply = h[r].reply
        BY <3>1, ReceiveIs
      <4>1. h'[r] = x
        BY MovesIs
      <4>2. At(r, "new")
        BY <3>1 DEF Receive
      <4> QED
        BY <3>0, <3>10, <4>1, <4>2 DEF At, OnRedis, AtBucket, SameRun, SameLimit
    <3>2. CASE BucketRead(r)
      <4> PICK x \in Handlers :
            /\ Moves(r, x) /\ x.pc = "bucket_set" /\ x.now = h[r].now
            /\ x.allowed <=> Refilled(bucket[KeyOf[r]], x.now) >= Token
            /\ Refilled(bucket[KeyOf[r]], x.now) = x.tokens + (IF x.allowed THEN Token ELSE 0)
            /\ x.admitted = h[r].admitted /\ SameRun(x, h[r]) /\ x.reply = h[r].reply
        BY <3>2, BucketReadIs
      <4>1. h'[r] = x
        BY MovesIs
      <4>2. h[r].pc = "bucket_get"
        BY <3>2, BucketReadIs DEF At
      <4>3. x.tokens \in Nat /\ Token \in Nat /\ (~x.allowed => x.tokens < Token)
        <5>1. x.tokens \in Nat /\ Token \in Nat
          BY AmountsAre DEF Handlers
        <5>2. ~x.allowed => Refilled(bucket[KeyOf[r]], x.now) = x.tokens + 0
          OBVIOUS
        <5> QED
          BY <5>1, <5>2
      <4> QED
        BY <3>0, <3>10, <4>1, <4>2, <4>3 DEF OnRedis, AtBucket, SameRun
    <3>3. CASE BucketWritten(r)
      <4> PICK x \in Handlers :
            /\ Moves(r, x) /\ SameLimit(x, h[r]) /\ SameRun(x, h[r])
            /\ \/ /\ h[r].allowed /\ x.admitted /\ x.reply = h[r].reply
                  /\ x.pc = IF IdemOf[r] = NoKey THEN "spend_get" ELSE "idem_get"
               \/ /\ ~h[r].allowed /\ x.admitted = h[r].admitted /\ x.pc = "ended"
                  /\ x.reply = [code |-> "429", of |-> Nobody, retry |-> RetryAfter(h[r].tokens)]
        BY <3>3, BucketWrittenIs
      <4>1. h'[r] = x
        BY MovesIs
      <4>2. h[r].pc = "bucket_set"
        BY <3>3, BucketWrittenIs DEF At
      <4> QED
        BY <3>0, <3>10, <4>1, <4>2 DEF At, OnRedis, AtBucket, SameRun, SameLimit
    <3>4. CASE IdemRead(r)
      <4> PICK x \in Handlers :
            /\ Moves(r, x) /\ SameLimit(x, h[r]) /\ SameRun(x, h[r]) /\ x.admitted = h[r].admitted
            /\ \/ /\ stored[IdemOf[r]] # Nobody /\ x.pc = "ended"
                  /\ x.reply = [code |-> "200", of |-> stored[IdemOf[r]], retry |-> 0]
               \/ stored[IdemOf[r]] = Nobody /\ x.pc = "spend_get" /\ x.reply = h[r].reply
        BY <3>4, IdemReadIs
      <4>1. h'[r] = x
        BY MovesIs
      <4>2. h[r].pc = "idem_get"
        BY <3>4, IdemReadIs DEF At
      <4> QED
        BY <3>0, <3>10, <4>1, <4>2 DEF At, OnRedis, AtBucket, SameRun, SameLimit
    <3>5. CASE SpendRead(r)
      <4> PICK x \in Handlers :
            /\ Moves(r, x) /\ x.pc = "running" /\ x.remaining = Remaining(KeyOf[r])
            /\ SameLimit(x, h[r]) /\ x.admitted = h[r].admitted
            /\ x.council = h[r].council /\ x.cost = h[r].cost /\ x.reply = h[r].reply
        BY <3>5, SpendReadIs
      <4>1. h'[r] = x
        BY MovesIs
      <4>2. h[r].pc = "spend_get"
        BY <3>5, SpendReadIs DEF At
      <4> QED
        BY <3>0, <3>10, <4>1, <4>2 DEF At, OnRedis, AtBucket, SameRun, SameLimit
    <3>6. CASE RunEnds(r)
      <4> PICK x \in Handlers :
            /\ Moves(r, x) /\ SameLimit(x, h[r]) /\ x.admitted = h[r].admitted
            /\ x.remaining = h[r].remaining
            /\ x.council => MayConvene(h[r]) /\ x.cost <= CouncilCost
            /\ \/ /\ redis /\ x.reply = h[r].reply
                  /\ x.pc = IF IdemOf[r] # NoKey THEN "idem_set" ELSE "spend_add"
               \/ ~redis /\ x.pc = "ended" /\ x.reply = [code |-> "200", of |-> r, retry |-> 0]
               \/ x.pc = "ended" /\ x.reply = [code |-> "500", of |-> Nobody, retry |-> 0]
        BY <3>6, RunEndsIs
      <4>1. h'[r] = x
        BY MovesIs
      <4>2. h[r].pc = "running"
        BY <3>6, RunEndsIs DEF At
      <4> QED
        BY <3>0, <3>10, <4>1, <4>2 DEF At, OnRedis, AtBucket, SameRun, SameLimit
    <3>7. CASE IdemWritten(r)
      <4> PICK x \in Handlers :
            /\ Moves(r, x) /\ x.pc = "spend_add"
            /\ SameLimit(x, h[r]) /\ x.admitted = h[r].admitted
            /\ SameRun(x, h[r]) /\ x.reply = h[r].reply
        BY <3>7, IdemWrittenIs
      <4>1. h'[r] = x
        BY MovesIs
      <4>2. h[r].pc = "idem_set"
        BY <3>7, IdemWrittenIs DEF At
      <4> QED
        BY <3>0, <3>10, <4>1, <4>2 DEF At, OnRedis, AtBucket, SameRun, SameLimit
    <3>8. CASE SpendAdded(r)
      <4> PICK x \in Handlers :
            /\ Moves(r, x) /\ x.pc = "ended" /\ x.reply = [code |-> "200", of |-> r, retry |-> 0]
            /\ SameLimit(x, h[r]) /\ x.admitted = h[r].admitted /\ SameRun(x, h[r])
        BY <3>8, SpendAddedIs
      <4>1. h'[r] = x
        BY MovesIs
      <4>2. h[r].pc = "spend_add"
        BY <3>8, SpendAddedIs DEF At
      <4> QED
        BY <3>0, <3>10, <4>1, <4>2 DEF At, OnRedis, AtBucket, SameRun, SameLimit
    <3>9. CASE Aborted(r)
      <4> PICK x \in Handlers :
            /\ Moves(r, x) /\ SameLimit(x, h[r]) /\ x.admitted = h[r].admitted
            /\ x.pc = "ended" /\ x.reply.code \in {"none", "500"} /\ x.reply.of = Nobody
            /\ ~At(r, "running") => SameRun(x, h[r])
        BY <3>9, AbortedIs
      <4>1. h'[r] = x
        BY MovesIs
      <4>2. h[r].pc \in OnRedis \union {"running"}
        BY <3>9, AbortedIs DEF At, OnRedis
      <4> QED
        BY <3>0, <3>10, <4>1, <4>2 DEF At, OnRedis, AtBucket, SameRun, SameLimit
    <3> QED
      BY <1>2, <3>1, <3>2, <3>3, <3>4, <3>5, <3>6, <3>7, <3>8, <3>9 DEF Step, RedisAnswers
  <2>4. \A q \in Requests : Known(q)
    BY <2>2, <2>3 DEF HandlersKnown
  <2> QED
    BY <2>1, <2>4 DEF HandlersKnown
<1> QED
  BY <1>1, <1>2 DEF Next

\* Where a handler that has Redis goes, and from where.
Flows(r, x) ==
  /\ h[r].pc # "ended" /\ x.pc # "new"
  /\ x.pc = "bucket_get" => At(r, "new")
  /\ x.pc = "bucket_set" => At(r, "bucket_get")
  /\ x.pc = "spend_get" =>
       (At(r, "bucket_set") /\ IdemOf[r] = NoKey) \/ (At(r, "idem_get") /\ stored[IdemOf[r]] = Nobody)
  /\ x.pc = "running" => At(r, "spend_get") /\ x.remaining = Remaining(KeyOf[r]) /\ UNCHANGED spent
  /\ x.pc = "idem_set" => At(r, "running")
  /\ x.pc = "spend_add" =>
       (At(r, "running") /\ IdemOf[r] = NoKey) \/ (At(r, "idem_set") /\ stored' = StoreOf(r))
  /\ x.reply.code = "200" =>
       \/ At(r, "idem_get") /\ x.reply.of = stored[IdemOf[r]]
       \/ At(r, "spend_add") /\ x.reply.of = r /\ spent' = SpendOf(r)
  /\ At(r, "spend_add") => x.pc = "ended"
  /\ At(r, "idem_set") => x.pc \in {"spend_add", "ended"}
  /\ ~At(r, "running") => x.council = h[r].council /\ x.cost = h[r].cost
  /\ At(r, "running") /\ x.pc # "ended" /\ x.council => MayConvene(h[r]) /\ x.cost <= CouncilCost
  /\ x.pc \in {"idem_set", "spend_add"} => x.remaining = h[r].remaining /\ UNCHANGED spent

LEMMA Flow ==
  ASSUME TypeOK, HandlersKnown, redis, NEW r \in Requests, Step(r)
  PROVE  \E x \in Handlers : Moves(r, x) /\ Flows(r, x)
<1>0. /\ h[r].pc # "ended" => h[r].reply = NoReply
      /\ NoReply.code = "none"
  BY DEF HandlersKnown, NoReply
<1>1. CASE Receive(r)
  <2> PICK x \in Handlers :
          /\ Moves(r, x) /\ x.pc = (IF redis THEN "bucket_get" ELSE "running") /\ x.now = clock
          /\ x.tokens = h[r].tokens /\ x.allowed = h[r].allowed /\ x.admitted = h[r].admitted
          /\ SameRun(x, h[r]) /\ x.reply = h[r].reply
    BY <1>1, ReceiveIs
  <2>1. h[r].pc = "new"
    BY <1>1 DEF Receive, At
  <2> QED
    BY <1>0, <1>1, <2>1 DEF Flows, At, OnRedis, SameRun, SameLimit
<1>2. CASE BucketRead(r)
  <2> PICK x \in Handlers :
          /\ Moves(r, x) /\ x.pc = "bucket_set" /\ x.now = h[r].now
          /\ x.allowed <=> Refilled(bucket[KeyOf[r]], x.now) >= Token
          /\ Refilled(bucket[KeyOf[r]], x.now) = x.tokens + (IF x.allowed THEN Token ELSE 0)
          /\ x.admitted = h[r].admitted /\ SameRun(x, h[r]) /\ x.reply = h[r].reply
    BY <1>2, BucketReadIs
  <2>1. h[r].pc = "bucket_get"
    BY <1>2 DEF BucketRead, At
  <2> QED
    BY <1>0, <1>2, <2>1 DEF Flows, At, OnRedis, SameRun, SameLimit
<1>3. CASE BucketWritten(r)
  <2> PICK x \in Handlers :
          /\ Moves(r, x) /\ SameLimit(x, h[r]) /\ SameRun(x, h[r])
          /\ \/ /\ h[r].allowed /\ x.admitted /\ x.reply = h[r].reply
                /\ x.pc = IF IdemOf[r] = NoKey THEN "spend_get" ELSE "idem_get"
             \/ /\ ~h[r].allowed /\ x.admitted = h[r].admitted /\ x.pc = "ended"
                /\ x.reply = [code |-> "429", of |-> Nobody, retry |-> RetryAfter(h[r].tokens)]
    BY <1>3, BucketWrittenIs
  <2>1. h[r].pc = "bucket_set"
    BY <1>3 DEF BucketWritten, At
  <2> QED
    BY <1>0, <1>3, <2>1 DEF Flows, At, OnRedis, SameRun, SameLimit
<1>4. CASE IdemRead(r)
  <2> PICK x \in Handlers :
          /\ Moves(r, x) /\ SameLimit(x, h[r]) /\ SameRun(x, h[r]) /\ x.admitted = h[r].admitted
          /\ \/ /\ stored[IdemOf[r]] # Nobody /\ x.pc = "ended"
                /\ x.reply = [code |-> "200", of |-> stored[IdemOf[r]], retry |-> 0]
             \/ stored[IdemOf[r]] = Nobody /\ x.pc = "spend_get" /\ x.reply = h[r].reply
    BY <1>4, IdemReadIs
  <2>1. h[r].pc = "idem_get"
    BY <1>4 DEF IdemRead, At
  <2> QED
    BY <1>0, <1>4, <2>1 DEF Flows, At, OnRedis, SameRun, SameLimit
<1>5. CASE SpendRead(r)
  <2> PICK x \in Handlers :
          /\ Moves(r, x) /\ x.pc = "running" /\ x.remaining = Remaining(KeyOf[r])
          /\ SameLimit(x, h[r]) /\ x.admitted = h[r].admitted
          /\ x.council = h[r].council /\ x.cost = h[r].cost /\ x.reply = h[r].reply
    BY <1>5, SpendReadIs
  <2>1. h[r].pc = "spend_get"
    BY <1>5 DEF SpendRead, At
  <2> QED
    BY <1>0, <1>5, <2>1 DEF Flows, At, OnRedis, SameRun, SameLimit, SpendRead, stores
<1>6. CASE RunEnds(r)
  <2> PICK x \in Handlers :
          /\ Moves(r, x) /\ SameLimit(x, h[r]) /\ x.admitted = h[r].admitted
          /\ x.remaining = h[r].remaining
          /\ x.council => MayConvene(h[r]) /\ x.cost <= CouncilCost
          /\ \/ /\ redis /\ x.reply = h[r].reply
                /\ x.pc = IF IdemOf[r] # NoKey THEN "idem_set" ELSE "spend_add"
             \/ ~redis /\ x.pc = "ended" /\ x.reply = [code |-> "200", of |-> r, retry |-> 0]
             \/ x.pc = "ended" /\ x.reply = [code |-> "500", of |-> Nobody, retry |-> 0]
    BY <1>6, RunEndsIs
  <2>1. h[r].pc = "running"
    BY <1>6 DEF RunEnds, At, RunAnswers, RunRaises
  <2> QED
    BY <1>0, <1>6, <2>1 DEF Flows, At, OnRedis, SameRun, SameLimit, RunEnds, RunAnswers, RunRaises, stores
<1>7. CASE IdemWritten(r)
  <2> PICK x \in Handlers :
          /\ Moves(r, x) /\ x.pc = "spend_add"
          /\ SameLimit(x, h[r]) /\ x.admitted = h[r].admitted
          /\ SameRun(x, h[r]) /\ x.reply = h[r].reply
    BY <1>7, IdemWrittenIs
  <2>1. h[r].pc = "idem_set"
    BY <1>7 DEF IdemWritten, At
  <2> QED
    BY <1>0, <1>7, <2>1 DEF Flows, At, OnRedis, SameRun, SameLimit, IdemWritten
<1>8. CASE SpendAdded(r)
  <2> PICK x \in Handlers :
          /\ Moves(r, x) /\ x.pc = "ended" /\ x.reply = [code |-> "200", of |-> r, retry |-> 0]
          /\ SameLimit(x, h[r]) /\ x.admitted = h[r].admitted /\ SameRun(x, h[r])
    BY <1>8, SpendAddedIs
  <2>1. h[r].pc = "spend_add"
    BY <1>8 DEF SpendAdded, At
  <2> QED
    BY <1>0, <1>8, <2>1 DEF Flows, At, OnRedis, SameRun, SameLimit, SpendAdded
<1>9. CASE Aborted(r)
  <2> PICK x \in Handlers :
          /\ Moves(r, x) /\ SameLimit(x, h[r]) /\ x.admitted = h[r].admitted
          /\ x.pc = "ended" /\ x.reply.code \in {"none", "500"} /\ x.reply.of = Nobody
          /\ ~At(r, "running") => SameRun(x, h[r])
    BY <1>9, AbortedIs
  <2>1. h[r].pc \in OnRedis \union {"running"}
    BY <1>9 DEF Aborted
  <2> QED
    BY <1>0, <1>9, <2>1 DEF Flows, At, OnRedis, SameRun, SameLimit
<1> QED
  BY <1>1, <1>2, <1>3, <1>4, <1>5, <1>6, <1>7, <1>8, <1>9 DEF Step, RedisAnswers

\* Of requests made in turn, only one is under way.
LEMMA Alone ==
  ASSUME PriorEnded, NEW S, S \subseteq Requests, InTurn(S), NEW r \in S, NEW q \in S, q # r,
         h[r].pc \notin {"new", "ended"}
  PROVE  h[q].pc \in {"new", "ended"}
<1>1. q \in Prior[r] \/ r \in Prior[q]
  BY DEF InTurn
<1> QED
  BY <1>1 DEF PriorEnded

LEMMA StoreStep ==
  ASSUME TypeOK, HandlersKnown, PriorEnded, StoreKnown, Next
  PROVE  StoreKnown'
<1>1. CASE Tick
  BY <1>1 DEF Tick, StoreKnown, stores, Repeats, InTurn, IdemOf, Prior
<1>2. ASSUME NEW r \in Requests, Step(r)
      PROVE  StoreKnown'
  <2>1. /\ UNCHANGED <<work, redis>> /\ IdemOf' = IdemOf
        /\ stored' = stored \/ (At(r, "idem_set") /\ stored' = StoreOf(r))
    BY <1>2, StoresMove DEF env, IdemOf
  <2> SUFFICES ASSUME redis, NEW i \in IdemKeys
               PROVE  /\ stored'[i] # Nobody =>
                           IdemOf[stored'[i]] = i /\ h'[stored'[i]].pc \in {"spend_add", "ended"}
                      /\ InTurn(Repeats(i)) => \A p \in Repeats(i) :
                           /\ h'[p].pc \in {"spend_get", "running", "idem_set"} => stored'[i] = Nobody
                           /\ h'[p].pc = "spend_add" => stored'[i] = p
                           /\ h'[p].reply.code = "200" => h'[p].reply.of = stored'[i]
    BY <2>1, EnvKept DEF StoreKnown
  <2> PICK x \in Handlers : Moves(r, x) /\ Flows(r, x)
    BY <1>2, Flow
  <2>2. h'[r] = x /\ \A q \in Requests : q # r => h'[q] = h[q]
    BY MovesIs
  <2>3. /\ stored[i] \in Requests \union {Nobody} /\ Nobody \notin Requests
        /\ At(r, "idem_set") => IdemOf[r] \in IdemKeys
    BY WorkIs DEF TypeOK, HandlersKnown, At
  <2>4. /\ stored[i] # Nobody => IdemOf[stored[i]] = i /\ h[stored[i]].pc \in {"spend_add", "ended"}
        /\ InTurn(Repeats(i)) => \A p \in Repeats(i) :
             /\ h[p].pc \in {"spend_get", "running", "idem_set"} => stored[i] = Nobody
             /\ h[p].pc = "spend_add" => stored[i] = p
             /\ h[p].reply.code = "200" => h[p].reply.of = stored[i]
    BY DEF StoreKnown
  <2>5. stored'[i] = stored[i] \/ (At(r, "idem_set") /\ IdemOf[r] = i /\ stored'[i] = r)
    BY <2>1, <2>3 DEF StoreOf, TypeOK
  <2>6. stored'[i] # Nobody =>
          IdemOf[stored'[i]] = i /\ h'[stored'[i]].pc \in {"spend_add", "ended"}
    <3>1. CASE stored'[i] = stored[i]
      BY <2>2, <2>3, <2>4, <3>1 DEF Flows, At
    <3>2. CASE At(r, "idem_set") /\ IdemOf[r] = i /\ stored'[i] = r
      BY <2>2, <3>2 DEF Flows
    <3> QED
      BY <2>5, <3>1, <3>2
  <2>7. ASSUME InTurn(Repeats(i)), NEW p \in Repeats(i)
        PROVE  /\ h'[p].pc \in {"spend_get", "running", "idem_set"} => stored'[i] = Nobody
               /\ h'[p].pc = "spend_add" => stored'[i] = p
               /\ h'[p].reply.code = "200" => h'[p].reply.of = stored'[i]
    <3>1. p \in Requests /\ IdemOf[p] = i /\ Repeats(i) \subseteq Requests
      BY DEF Repeats
    <3>2. CASE p = r
      <4>1. /\ h[r].pc \in {"spend_get", "running", "idem_set"} => stored[i] = Nobody
            /\ h[r].pc = "spend_add" => stored[i] = r
        BY <2>4, <2>7, <3>2
      <4>2. i # NoKey
        BY WorkIs
      <4>3. At(r, "idem_set") /\ stored' = StoreOf(r) => stored'[i] = r
        BY <3>1, <3>2 DEF StoreOf, TypeOK
      <4>4. ~At(r, "idem_set") => stored'[i] = stored[i]
        BY <2>5
      <4> QED
        BY <2>2, <3>1, <3>2, <4>1, <4>2, <4>3, <4>4 DEF Flows, At
    <3>3. CASE p # r
      <4>1. h'[p] = h[p]
        BY <2>2, <3>1, <3>3
      <4>2. CASE stored'[i] = stored[i]
        BY <2>4, <2>7, <4>1, <4>2
      <4>3. CASE At(r, "idem_set") /\ IdemOf[r] = i /\ stored'[i] = r
        <5>1. r \in Repeats(i) /\ h[r].pc = "idem_set"
          BY <4>3 DEF Repeats, At
        <5>2. h[p].pc \in {"new", "ended"}
          BY <2>7, <3>1, <3>3, <5>1, Alone
        <5>3. stored[i] = Nobody
          BY <2>4, <2>7, <5>1
        <5>4. h[p].reply.code # "200"
          BY <2>4, <2>7, <3>1, <5>3 DEF HandlersKnown
        <5> QED
          BY <4>1, <5>2, <5>4
      <4> QED
        BY <2>5, <4>2, <4>3
    <3> QED
      BY <3>2, <3>3
  <2> QED
    BY <2>6, <2>7
<1> QED
  BY <1>1, <1>2 DEF Next

\* Cutting the sums before and after a step at the handler that made it.
LEMMA TotalMoves ==
  ASSUME TypeOK, TypeOK', NEW S, S \subseteq Requests, NEW r \in Requests,
         \A q \in Requests : q # r => h'[q].cost = h[q].cost
  PROVE  /\ Total(S \ {r}) \in Nat /\ h[r].cost \in Nat /\ h'[r].cost \in Nat
         /\ r \in S => Total(S) = Total(S \ {r}) + h[r].cost
                       /\ Total(S)' = Total(S \ {r}) + h'[r].cost
         /\ r \notin S => Total(S) = Total(S \ {r}) /\ Total(S)' = Total(S \ {r})
<1> PICK f, g : f = [q \in Requests |-> h[q].cost] /\ g = [q \in Requests |-> h'[q].cost]
  OBVIOUS
<1>1. \A q \in Requests : f[q] = h[q].cost /\ f[q] \in Nat /\ g[q] = h'[q].cost /\ g[q] \in Nat
  BY DEF TypeOK, Handlers
<1>2. IsFiniteSet(S) /\ IsFiniteSet(S \ {r})
  BY KeysAssumption, FS_Subset
<1>3. /\ \A T : Total(T) = SumFunctionOnSet(f, T)
      /\ Total(S)' = SumFunctionOnSet(g, S)
  BY DEF Total
<1>4. SumFunctionOnSet(f, S \ {r}) \in Nat
  BY <1>1, <1>2, SumTyped
<1>5. SumFunctionOnSet(f, S \ {r}) = SumFunctionOnSet(g, S \ {r})
  BY <1>1, <1>2, SumSame
<1>6. CASE r \in S
  <2>1. SumFunctionOnSet(f, S) = f[r] + SumFunctionOnSet(f, S \ {r})
    BY <1>1, <1>2, <1>6, SumWithout
  <2>2. SumFunctionOnSet(g, S) = g[r] + SumFunctionOnSet(g, S \ {r})
    BY <1>1, <1>2, <1>6, SumWithout
  <2> QED
    BY <1>1, <1>3, <1>4, <1>5, <1>6, <2>1, <2>2
<1>7. CASE r \notin S
  <2>1. S \ {r} = S
    BY <1>7
  <2> QED
    BY <1>1, <1>3, <1>4, <1>5, <1>7, <2>1
<1> QED
  BY <1>6, <1>7

LEMMA LedgerStep ==
  ASSUME TypeOK, TypeOK', HandlersKnown, HandlersKnown', StoreKnown, LedgerKnown, Next
  PROVE  LedgerKnown'
<1>1. CASE Tick
  <2>1. UNCHANGED <<work, redis, spent, h>>
    BY <1>1 DEF Tick, stores
  <2> QED
    BY <2>1, EnvKept DEF LedgerKnown, Total
<1>2. ASSUME NEW r \in Requests, Step(r)
      PROVE  LedgerKnown'
  <2>1. /\ UNCHANGED <<work, redis>> /\ KeyOf' = KeyOf /\ (\A k : RequestsOf(k)' = RequestsOf(k))
        /\ spent' = spent \/ (At(r, "spend_add") /\ spent' = SpendOf(r))
    BY <1>2, StoresMove, EnvKept DEF env
  <2> SUFFICES ASSUME redis, NEW k \in Keys, NEW told, NEW over,
                      told = {q \in RequestsOf(k) : h'[q].reply.of = q},
                      over = {q \in RequestsOf(k) : h'[q].pc = "ended"}
               PROVE  Total(told)' <= spent'[k] /\ spent'[k] <= Total(over)'
    <3>1. ASSUME redis, NEW k \in Keys
          PROVE  /\ Total({q \in RequestsOf(k) : h[q].reply.of = q})' <= spent'[k]
                 /\ spent'[k] <= Total({q \in RequestsOf(k) : h[q].pc = "ended"})'
      <4> PICK told, over : /\ told = {q \in RequestsOf(k) : h'[q].reply.of = q}
                            /\ over = {q \in RequestsOf(k) : h'[q].pc = "ended"}
        OBVIOUS
      <4>1. Total(told)' <= spent'[k] /\ spent'[k] <= Total(over)'
        BY <3>1
      <4>2. /\ {q \in RequestsOf(k) : h[q].reply.of = q}' = told
            /\ {q \in RequestsOf(k) : h[q].pc = "ended"}' = over
        BY <2>1
      <4> QED
        BY <4>1, <4>2
    <3> QED
      BY <2>1, <3>1 DEF LedgerKnown
  <2> PICK x \in Handlers : Moves(r, x) /\ Flows(r, x)
    BY <1>2, Flow
  <2>2. h'[r] = x /\ (\A q \in Requests : q # r => h'[q] = h[q])
    BY MovesIs
  <2> PICK wasTold, wasOver : /\ wasTold = {q \in RequestsOf(k) : h[q].reply.of = q}
                              /\ wasOver = {q \in RequestsOf(k) : h[q].pc = "ended"}
    OBVIOUS
  <2>3. Total(wasTold) <= spent[k] /\ spent[k] <= Total(wasOver) /\ spent[k] \in Nat
    BY DEF LedgerKnown, TypeOK
  <2>4. /\ RequestsOf(k) \subseteq Requests
        /\ told \subseteq Requests /\ over \subseteq Requests
        /\ wasTold \subseteq Requests /\ wasOver \subseteq Requests
    BY DEF RequestsOf
  <2>5. r \notin wasOver /\ r \notin wasTold
    <3>1. h[r].pc # "ended" /\ h[r].reply.of = Nobody
      BY DEF Flows, HandlersKnown, NoReply
    <3> QED
      BY <3>1, KeysAssumption
  <2>6. told \ {r} = wasTold \ {r} /\ over \ {r} = wasOver \ {r}
    BY <2>2, <2>4
  <2> PICK a, o : a = Total(wasTold \ {r}) /\ o = Total(wasOver \ {r})
    OBVIOUS
  <2>7. /\ a \in Nat /\ o \in Nat /\ h[r].cost \in Nat /\ x.cost \in Nat
        /\ a <= spent[k] /\ spent[k] <= o
        /\ Total(told)' = a + (IF r \in told THEN x.cost ELSE 0)
        /\ Total(over)' = o + (IF r \in over THEN x.cost ELSE 0)
    <3>1. \A q \in Requests : q # r => h'[q].cost = h[q].cost
      BY <2>2
    <3>2. /\ a \in Nat /\ Total(wasTold) = a /\ o \in Nat /\ Total(wasOver) = o
          /\ h[r].cost \in Nat /\ h'[r].cost \in Nat
      BY <2>4, <2>5, <3>1, TotalMoves
    <3>3. /\ r \in told => Total(told)' = Total(told \ {r}) + h'[r].cost
          /\ r \notin told => Total(told)' = Total(told \ {r})
      BY <2>4, <3>1, TotalMoves
    <3>4. /\ r \in over => Total(over)' = Total(over \ {r}) + h'[r].cost
          /\ r \notin over => Total(over)' = Total(over \ {r})
      BY <2>4, <3>1, TotalMoves
    <3>5. Total(told \ {r}) = a /\ Total(over \ {r}) = o
      BY <2>6
    <3>6. h'[r].cost = x.cost /\ a <= spent[k] /\ spent[k] <= o
      BY <2>2, <2>3, <3>2
    <3>7. Total(told)' = a + (IF r \in told THEN x.cost ELSE 0)
      BY <3>2, <3>3, <3>5, <3>6
    <3>8. Total(over)' = o + (IF r \in over THEN x.cost ELSE 0)
      BY <3>2, <3>4, <3>5, <3>6
    <3> QED
      BY <3>2, <3>6, <3>7, <3>8
  <2>8. CASE KeyOf[r] # k
    <3>1. r \notin told /\ r \notin over
      BY <2>8 DEF RequestsOf
    <3>2. spent'[k] = spent[k]
      BY <2>1, <2>8 DEF SpendOf, TypeOK
    <3> QED
      BY <2>3, <2>7, <3>1, <3>2
  <2>9. CASE KeyOf[r] = k
    <3>1. r \in over <=> x.pc = "ended"
      BY <2>2, <2>9 DEF RequestsOf
    <3>2. spent'[k] = spent[k] \/ (At(r, "spend_add") /\ spent'[k] = spent[k] + h[r].cost)
      BY <2>1, <2>9 DEF SpendOf, TypeOK
    <3>3. At(r, "spend_add") => x.pc = "ended" /\ x.cost = h[r].cost
      BY DEF Flows, At
    <3>4. r \in told => At(r, "spend_add") /\ spent'[k] = spent[k] + h[r].cost
      <4> SUFFICES ASSUME r \in told
                   PROVE  At(r, "spend_add") /\ spent'[k] = spent[k] + h[r].cost
        OBVIOUS
      <4>1. x.reply.of = r /\ r # Nobody
        BY <2>2, KeysAssumption
      <4>2. x.reply.code = "200"
        BY <2>2, <4>1 DEF HandlersKnown
      <4>3. ~(At(r, "idem_get") /\ stored[IdemOf[r]] = r)
        BY <4>1, WorkIs DEF StoreKnown, HandlersKnown, At
      <4>4. At(r, "spend_add") /\ spent' = SpendOf(r)
        BY <4>1, <4>2, <4>3 DEF Flows
      <4> QED
        BY <2>9, <4>4 DEF SpendOf, TypeOK
    <3> PICK was, now, mine, all, some : /\ was = spent[k] /\ now = spent'[k] /\ mine = x.cost
                                         /\ all = Total(over)' /\ some = Total(told)'
      OBVIOUS
    <3>5. now = was \/ (now = was + mine /\ r \in over)
      BY <3>1, <3>2, <3>3
    <3>6. r \in told => now = was + mine
      BY <3>3, <3>4
    <3>7. a + (IF r \in told THEN mine ELSE 0) <= now /\ now <= o + (IF r \in over THEN mine ELSE 0)
      BY <2>3, <2>7, <3>5, <3>6
    <3> QED
      BY <2>7, <3>7
  <2> QED
    BY <2>8, <2>9
<1> QED
  BY <1>1, <1>2 DEF Next

LEMMA DayStep ==
  ASSUME TypeOK, HandlersKnown, PriorEnded, DayKnown, Next
  PROVE  DayKnown'
<1>1. CASE Tick
  <2>1. UNCHANGED <<work, redis, spent, h>>
    BY <1>1 DEF Tick, stores
  <2> QED
    BY <2>1, EnvKept DEF DayKnown, Remaining
<1>2. ASSUME NEW r \in Requests, Step(r)
      PROVE  DayKnown'
  <2>1. /\ UNCHANGED <<work, redis>> /\ KeyOf' = KeyOf
        /\ spent' = spent \/ (At(r, "spend_add") /\ spent' = SpendOf(r))
    BY <1>2, StoresMove, EnvKept DEF env
  <2> SUFFICES ASSUME redis, NEW k \in Keys, InTurn(RequestsOf(k)), NEW p \in RequestsOf(k),
                      h'[p].pc \in {"running", "idem_set", "spend_add"}
               PROVE  /\ h'[p].remaining = Remaining(k)'
                      /\ h'[p].pc # "running" /\ h'[p].council =>
                           EstCost <= h'[p].remaining /\ h'[p].cost <= CouncilCost
    BY <2>1, EnvKept DEF DayKnown
  <2> PICK x \in Handlers : Moves(r, x) /\ Flows(r, x)
    BY <1>2, Flow
  <2>2. h'[r] = x /\ (\A q \in Requests : q # r => h'[q] = h[q])
    BY MovesIs
  <2>3. p \in Requests /\ KeyOf[p] = k /\ RequestsOf(k) \subseteq Requests
    BY DEF RequestsOf
  <2>4. Remaining(k) \in Nat /\ Unlimited \notin Nat
    BY RemainingIs, AmountsAssumption
  <2>5. h[p].pc \in {"running", "idem_set", "spend_add"} =>
          /\ h[p].remaining = Remaining(k)
          /\ h[p].pc # "running" /\ h[p].council =>
               EstCost <= h[p].remaining /\ h[p].cost <= CouncilCost
    BY DEF DayKnown
  <2>6. CASE p = r
    <3>1. spent' = spent /\ Remaining(k)' = Remaining(k)
      BY <2>2, <2>6 DEF Flows, Remaining
    <3>2. CASE x.pc = "running"
      BY <2>2, <2>3, <2>6, <3>1, <3>2 DEF Flows
    <3>3. CASE x.pc \in {"idem_set", "spend_add"}
      <4>1. h[r].pc \in {"running", "idem_set"} /\ x.remaining = h[r].remaining
        BY <3>3 DEF Flows, At
      <4>2. h[r].remaining = Remaining(k)
        BY <2>5, <2>6, <4>1
      <4>3. x.council => EstCost <= x.remaining /\ x.cost <= CouncilCost
        <5>1. CASE At(r, "running")
          BY <2>4, <3>3, <4>1, <4>2, <5>1 DEF Flows, MayConvene
        <5>2. CASE At(r, "idem_set")
          BY <2>5, <2>6, <4>1, <4>2, <5>2 DEF Flows, At
        <5> QED
          BY <4>1, <5>1, <5>2 DEF At
      <4> QED
        BY <2>2, <2>6, <3>1, <4>1, <4>2, <4>3
    <3> QED
      BY <2>2, <2>6, <3>2, <3>3
  <2>7. CASE p # r
    <3>1. h'[p] = h[p]
      BY <2>2, <2>3, <2>7
    <3>2. spent'[k] = spent[k]
      <4>1. ASSUME At(r, "spend_add"), KeyOf[r] = k
            PROVE  FALSE
        <5>1. r \in RequestsOf(k) /\ h[r].pc \notin {"new", "ended"}
          BY <4>1 DEF RequestsOf, At
        <5>2. h[p].pc \in {"new", "ended"}
          BY <2>3, <2>7, <5>1, Alone
        <5> QED
          BY <3>1, <5>2
      <4> QED
        BY <2>1, <4>1 DEF SpendOf, TypeOK
    <3>3. Remaining(k)' = Remaining(k)
      BY <3>2 DEF Remaining
    <3> QED
      BY <2>5, <3>1, <3>3
  <2> QED
    BY <2>6, <2>7
<1> QED
  BY <1>1, <1>2 DEF Next

-----------------------------------------------------------------------------
(* The token bucket.                                                         *)

\* What a handler does about its bucket.
Limits(r, x) ==
  /\ h[r].pc # "ended" /\ x.pc # "new"
  /\ x.pc = "bucket_get" => At(r, "new") /\ x.now = clock
  /\ x.pc = "bucket_set" =>
       /\ At(r, "bucket_get") /\ (x.allowed <=> Refilled(bucket[KeyOf[r]], x.now) >= Token)
       /\ Refilled(bucket[KeyOf[r]], x.now) = x.tokens + (IF x.allowed THEN Token ELSE 0)
  /\ h[r].pc # "new" => x.now = h[r].now
  /\ At(r, "bucket_set") => x.pc \notin AtBucket /\ x.allowed = h[r].allowed /\ x.tokens = h[r].tokens
  /\ ~At(r, "bucket_set") => x.admitted = h[r].admitted /\ x.reply.code # "429"
  /\ h[r].admitted => x.admitted
  /\ x.admitted /\ ~h[r].admitted => h[r].allowed /\ bucket' = BucketOf(r)
  /\ x.reply.code = "429" =>
       /\ ~h[r].allowed /\ bucket' = BucketOf(r)
       /\ x.reply.retry = RetryAfter(h[r].tokens)

LEMMA Limited ==
  ASSUME TypeOK, HandlersKnown, NEW r \in Requests, Step(r)
  PROVE  \E x \in Handlers : Moves(r, x) /\ Limits(r, x)
<1>0. /\ h[r].pc # "ended" => h[r].reply = NoReply
      /\ NoReply.code = "none"
      /\ h[r].pc \in AtBucket => ~h[r].admitted
  BY DEF HandlersKnown, NoReply
<1>1. CASE Receive(r)
  <2> PICK x \in Handlers :
          /\ Moves(r, x) /\ x.pc = (IF redis THEN "bucket_get" ELSE "running") /\ x.now = clock
          /\ x.tokens = h[r].tokens /\ x.allowed = h[r].allowed /\ x.admitted = h[r].admitted
          /\ SameRun(x, h[r]) /\ x.reply = h[r].reply
    BY <1>1, ReceiveIs
  <2>1. h[r].pc = "new"
    BY <1>1 DEF Receive, At
  <2> QED
    BY <1>0, <1>1, <2>1 DEF Limits, At, AtBucket, OnRedis, SameRun, SameLimit
<1>2. CASE BucketRead(r)
  <2> PICK x \in Handlers :
          /\ Moves(r, x) /\ x.pc = "bucket_set" /\ x.now = h[r].now
          /\ x.allowed <=> Refilled(bucket[KeyOf[r]], x.now) >= Token
          /\ Refilled(bucket[KeyOf[r]], x.now) = x.tokens + (IF x.allowed THEN Token ELSE 0)
          /\ x.admitted = h[r].admitted /\ SameRun(x, h[r]) /\ x.reply = h[r].reply
    BY <1>2, BucketReadIs
  <2>1. h[r].pc = "bucket_get"
    BY <1>2 DEF BucketRead, At
  <2> QED
    BY <1>0, <1>2, <2>1 DEF Limits, At, AtBucket, OnRedis, SameRun, SameLimit
<1>3. CASE BucketWritten(r)
  <2> PICK x \in Handlers :
          /\ Moves(r, x) /\ SameLimit(x, h[r]) /\ SameRun(x, h[r])
          /\ \/ /\ h[r].allowed /\ x.admitted /\ x.reply = h[r].reply
                /\ x.pc = IF IdemOf[r] = NoKey THEN "spend_get" ELSE "idem_get"
             \/ /\ ~h[r].allowed /\ x.admitted = h[r].admitted /\ x.pc = "ended"
                /\ x.reply = [code |-> "429", of |-> Nobody, retry |-> RetryAfter(h[r].tokens)]
    BY <1>3, BucketWrittenIs
  <2>1. h[r].pc = "bucket_set"
    BY <1>3 DEF BucketWritten, At
  <2> QED
    BY <1>0, <1>3, <2>1 DEF Limits, At, AtBucket, OnRedis, SameRun, SameLimit, BucketWritten
<1>4. CASE IdemRead(r)
  <2> PICK x \in Handlers :
          /\ Moves(r, x) /\ SameLimit(x, h[r]) /\ SameRun(x, h[r]) /\ x.admitted = h[r].admitted
          /\ \/ /\ stored[IdemOf[r]] # Nobody /\ x.pc = "ended"
                /\ x.reply = [code |-> "200", of |-> stored[IdemOf[r]], retry |-> 0]
             \/ stored[IdemOf[r]] = Nobody /\ x.pc = "spend_get" /\ x.reply = h[r].reply
    BY <1>4, IdemReadIs
  <2>1. h[r].pc = "idem_get"
    BY <1>4 DEF IdemRead, At
  <2> QED
    BY <1>0, <1>4, <2>1 DEF Limits, At, AtBucket, OnRedis, SameRun, SameLimit
<1>5. CASE SpendRead(r)
  <2> PICK x \in Handlers :
          /\ Moves(r, x) /\ x.pc = "running" /\ x.remaining = Remaining(KeyOf[r])
          /\ SameLimit(x, h[r]) /\ x.admitted = h[r].admitted
          /\ x.council = h[r].council /\ x.cost = h[r].cost /\ x.reply = h[r].reply
    BY <1>5, SpendReadIs
  <2>1. h[r].pc = "spend_get"
    BY <1>5 DEF SpendRead, At
  <2> QED
    BY <1>0, <1>5, <2>1 DEF Limits, At, AtBucket, OnRedis, SameRun, SameLimit
<1>6. CASE RunEnds(r)
  <2> PICK x \in Handlers :
          /\ Moves(r, x) /\ SameLimit(x, h[r]) /\ x.admitted = h[r].admitted
          /\ x.remaining = h[r].remaining
          /\ x.council => MayConvene(h[r]) /\ x.cost <= CouncilCost
          /\ \/ /\ redis /\ x.reply = h[r].reply
                /\ x.pc = IF IdemOf[r] # NoKey THEN "idem_set" ELSE "spend_add"
             \/ ~redis /\ x.pc = "ended" /\ x.reply = [code |-> "200", of |-> r, retry |-> 0]
             \/ x.pc = "ended" /\ x.reply = [code |-> "500", of |-> Nobody, retry |-> 0]
    BY <1>6, RunEndsIs
  <2>1. h[r].pc = "running"
    BY <1>6 DEF RunEnds, At, RunAnswers, RunRaises
  <2> QED
    BY <1>0, <1>6, <2>1 DEF Limits, At, AtBucket, OnRedis, SameRun, SameLimit
<1>7. CASE IdemWritten(r)
  <2> PICK x \in Handlers :
          /\ Moves(r, x) /\ x.pc = "spend_add"
          /\ SameLimit(x, h[r]) /\ x.admitted = h[r].admitted
          /\ SameRun(x, h[r]) /\ x.reply = h[r].reply
    BY <1>7, IdemWrittenIs
  <2>1. h[r].pc = "idem_set"
    BY <1>7 DEF IdemWritten, At
  <2> QED
    BY <1>0, <1>7, <2>1 DEF Limits, At, AtBucket, OnRedis, SameRun, SameLimit
<1>8. CASE SpendAdded(r)
  <2> PICK x \in Handlers :
          /\ Moves(r, x) /\ x.pc = "ended" /\ x.reply = [code |-> "200", of |-> r, retry |-> 0]
          /\ SameLimit(x, h[r]) /\ x.admitted = h[r].admitted /\ SameRun(x, h[r])
    BY <1>8, SpendAddedIs
  <2>1. h[r].pc = "spend_add"
    BY <1>8 DEF SpendAdded, At
  <2> QED
    BY <1>0, <1>8, <2>1 DEF Limits, At, AtBucket, OnRedis, SameRun, SameLimit
<1>9. CASE Aborted(r)
  <2> PICK x \in Handlers :
          /\ Moves(r, x) /\ SameLimit(x, h[r]) /\ x.admitted = h[r].admitted
          /\ x.pc = "ended" /\ x.reply.code \in {"none", "500"} /\ x.reply.of = Nobody
          /\ ~At(r, "running") => SameRun(x, h[r])
    BY <1>9, AbortedIs
  <2>1. h[r].pc \in OnRedis \union {"running"}
    BY <1>9 DEF Aborted
  <2> QED
    BY <1>0, <1>9, <2>1 DEF Limits, At, AtBucket, OnRedis, SameRun, SameLimit
<1> QED
  BY <1>1, <1>2, <1>3, <1>4, <1>5, <1>6, <1>7, <1>8, <1>9 DEF Step, RedisAnswers

LEMMA ThroughIs ==
  ASSUME TypeOK, NEW k, NEW a, NEW b
  PROVE  /\ IsFiniteSet(Through(k, a, b)) /\ Cardinality(Through(k, a, b)) \in Nat
         /\ Cardinality(Through(k, a, b)) * Token \in Nat
<1>1. Through(k, a, b) \subseteq Requests
  BY DEF Through, RequestsOf
<1>2. IsFiniteSet(Through(k, a, b)) /\ Cardinality(Through(k, a, b)) \in Nat
  BY <1>1, KeysAssumption, FS_Subset, FS_CardinalityType
<1>3. Token \in Nat
  BY AmountsAre
<1> QED
  BY ONLY <1>2, <1>3, ProductIsNat

\* What the bucket holds at time n is paid for as well.
LEMMA Paid ==
  ASSUME TypeOK, NEW k \in Keys, NEW n \in Nat, bucket[k].ts <= n,
         \A r \in RequestsOf(k) : h[r].admitted => h[r].now <= bucket[k].ts,
         \A a \in Nat : a <= bucket[k].ts =>
           Cardinality(Through(k, a, bucket[k].ts)) * Token + bucket[k].tokens
             <= Burst * Token + Rate * (bucket[k].ts - a),
         NEW a \in Nat, a <= n
  PROVE  Cardinality(Through(k, a, n)) * Token + Refilled(bucket[k], n)
           <= Burst * Token + Rate * (n - a)
<1> PICK ts, held, full, limit :
      /\ ts = bucket[k].ts /\ held = bucket[k].tokens
      /\ full = Refilled(bucket[k], n) /\ limit = Burst * Token
  OBVIOUS
<1>1. ts \in Nat /\ held \in Levels /\ held \in Nat /\ limit \in Nat /\ Rate \in Nat
  BY WorkIs, AmountsAre DEF TypeOK
<1>2. full \in Nat /\ full <= limit /\ full <= held + Rate * (n - ts)
  BY <1>1, AmountsAre, RefilledIs
<1>3. \A r \in RequestsOf(k) : h[r].now \in Nat
  BY WorkIs DEF RequestsOf, TypeOK, Handlers
<1>4. CASE a <= ts
  <2>1. Through(k, a, n) = Through(k, a, ts)
    BY <1>1, <1>3, <1>4 DEF Through
  <2> PICK mine \in Nat : mine = Cardinality(Through(k, a, ts)) * Token
    BY ThroughIs
  <2>2. mine + held <= limit + Rate * (ts - a)
    BY <1>4
  <2>5. ts <= n
    OBVIOUS
  <2> PICK x, y : x = ts - a /\ y = n - ts
    OBVIOUS
  <2>6. x \in Nat /\ y \in Nat
    BY ONLY <1>1, <1>4, <2>5, n \in Nat, a \in Nat, x = ts - a, y = n - ts
  <2>3. Rate * (n - a) = Rate * (ts - a) + Rate * (n - ts)
    <3>1. n - a = x + y
      BY <1>1
    <3> QED
      BY <1>1, <2>6, <3>1, Distributes
  <2>4. Rate * (ts - a) \in Nat /\ Rate * (n - ts) \in Nat
    <3>1. Rate * x \in Nat /\ Rate * y \in Nat
      BY ONLY <1>1, <2>6, ProductIsNat
    <3> QED
      BY <3>1
  <2> QED
    BY <1>1, <1>2, <2>1, <2>2, <2>3, <2>4
<1>5. CASE a > ts
  <2>1. Through(k, a, n) = {}
    BY <1>1, <1>3, <1>5 DEF Through
  <2>2. Cardinality(Through(k, a, n)) * Token = 0
    BY <2>1, FS_EmptySet, AmountsAre
  <2>3. Rate * (n - a) \in Nat
    <3> PICK x \in Nat : x = n - a
      BY <1>1
    <3>1. Rate * x \in Nat
      BY ONLY <1>1, ProductIsNat
    <3> QED
      BY <3>1
  <2> QED
    BY <1>1, <1>2, <2>2, <2>3
<1> QED
  BY <1>1, <1>4, <1>5

LEMMA BucketStep ==
  ASSUME TypeOK, TypeOK', HandlersKnown, PriorEnded, BucketKnown, Next
  PROVE  BucketKnown'
<1>1. CASE Tick
  <2>1. UNCHANGED <<work, redis, bucket, h>> /\ clock' = clock + 1
    BY <1>1 DEF Tick, stores
  <2>2. clock \in Nat /\ \A k \in Keys : bucket[k].ts \in Nat
    BY WorkIs DEF TypeOK
  <2>3. \A k, a, b : Through(k, a, b)' = Through(k, a, b)
    BY <2>1, EnvKept DEF Through
  <2> SUFFICES ASSUME redis, NEW k \in Keys
      PROVE  /\ bucket[k].ts <= clock + 1
             /\ InTurn(RequestsOf(k)) =>
                  /\ \A p \in RequestsOf(k) :
                       /\ h[p].pc \in {"bucket_get", "bucket_set"} => bucket[k].ts <= h[p].now
                       /\ h[p].admitted => h[p].now <= bucket[k].ts
                       /\ h[p].pc = "bucket_set" =>
                            Refilled(bucket[k], h[p].now)
                              = h[p].tokens + (IF h[p].allowed THEN Token ELSE 0)
                  /\ \A a, b \in Nat : a <= b =>
                       Cardinality(Through(k, a, b)) * Token <= Burst * Token + Rate * (b - a)
                  /\ \A a \in Nat : a <= bucket[k].ts =>
                       Cardinality(Through(k, a, bucket[k].ts)) * Token + bucket[k].tokens
                         <= Burst * Token + Rate * (bucket[k].ts - a)
    BY <2>1, <2>3, EnvKept DEF BucketKnown
  <2>4. bucket[k].ts <= clock
    BY DEF BucketKnown
  <2>5. bucket[k].ts <= clock + 1
    BY ONLY <2>2, <2>4, k \in Keys
  <2> QED
    BY <2>5, Zenon DEF BucketKnown
<1>2. ASSUME NEW r \in Requests, Step(r)
      PROVE  BucketKnown'
  <2>1. /\ UNCHANGED <<work, redis, clock>> /\ KeyOf' = KeyOf
        /\ bucket' = bucket \/ (At(r, "bucket_set") /\ bucket' = BucketOf(r))
    BY <1>2, StoresMove, EnvKept DEF env
  <2> SUFFICES ASSUME redis, NEW k \in Keys
      PROVE  /\ bucket'[k].ts <= clock
             /\ InTurn(RequestsOf(k)) =>
                  /\ \A p \in RequestsOf(k) :
                       /\ h'[p].pc \in {"bucket_get", "bucket_set"} => bucket'[k].ts <= h'[p].now
                       /\ h'[p].admitted => h'[p].now <= bucket'[k].ts
                       /\ h'[p].pc = "bucket_set" =>
                            Refilled(bucket'[k], h'[p].now)
                              = h'[p].tokens + (IF h'[p].allowed THEN Token ELSE 0)
                  /\ \A a, b \in Nat : a <= b =>
                       Cardinality(Through(k, a, b)') * Token <= Burst * Token + Rate * (b - a)
                  /\ \A a \in Nat : a <= bucket'[k].ts =>
                       Cardinality(Through(k, a, bucket[k].ts)') * Token + bucket'[k].tokens
                         <= Burst * Token + Rate * (bucket'[k].ts - a)
    BY <2>1, EnvKept DEF BucketKnown, Through
  <2> PICK x \in Handlers : Moves(r, x) /\ Limits(r, x)
    BY <1>2, Limited
  <2>2. h'[r] = x /\ \A q \in Requests : q # r => h'[q] = h[q]
    BY MovesIs
  <2>3. RequestsOf(k) \subseteq Requests /\ \A p \in RequestsOf(k) : KeyOf[p] = k
    BY DEF RequestsOf
  <2>4. /\ bucket[k].ts <= clock /\ bucket[k].ts \in Nat /\ clock \in Nat
        /\ \A p \in Requests : h[p].now \in Nat /\ (h[p].pc # "new" => h[p].now <= clock)
    BY WorkIs DEF BucketKnown, TypeOK, Handlers, HandlersKnown
  <2>5. ASSUME bucket'[k] = bucket[k], KeyOf[r] = k => (x.admitted <=> h[r].admitted)
        PROVE  /\ bucket'[k].ts <= clock
               /\ InTurn(RequestsOf(k)) =>
                    /\ \A p \in RequestsOf(k) :
                         /\ h'[p].pc \in {"bucket_get", "bucket_set"} => bucket[k].ts <= h'[p].now
                         /\ h'[p].admitted => h'[p].now <= bucket[k].ts
                         /\ h'[p].pc = "bucket_set" =>
                              Refilled(bucket[k], h'[p].now)
                                = h'[p].tokens + (IF h'[p].allowed THEN Token ELSE 0)
                    /\ \A a, b \in Nat : a <= b =>
                         Cardinality(Through(k, a, b)') * Token <= Burst * Token + Rate * (b - a)
                    /\ \A a \in Nat : a <= bucket[k].ts =>
                         Cardinality(Through(k, a, bucket[k].ts)') * Token + bucket[k].tokens
                           <= Burst * Token + Rate * (bucket[k].ts - a)
    <3>1. \A a, b : Through(k, a, b)' = Through(k, a, b)
      <4>1. ASSUME NEW p \in RequestsOf(k)
            PROVE  /\ h'[p].admitted <=> h[p].admitted
                   /\ h[p].admitted => h'[p].now = h[p].now
        <5>1. h[p].admitted => h[p].pc # "new"
          BY <2>3 DEF HandlersKnown, AtBucket
        <5> QED
          BY <2>2, <2>3, <2>5, <5>1 DEF Limits
      <4> QED
        BY <2>1, <4>1, EnvKept DEF Through
    <3>2. ASSUME InTurn(RequestsOf(k)), NEW p \in RequestsOf(k)
          PROVE  /\ h'[p].pc \in {"bucket_get", "bucket_set"} => bucket[k].ts <= h'[p].now
                 /\ h'[p].admitted => h'[p].now <= bucket[k].ts
                 /\ h'[p].pc = "bucket_set" =>
                      Refilled(bucket[k], h'[p].now)
                        = h'[p].tokens + (IF h'[p].allowed THEN Token ELSE 0)
      <4>1. /\ h[p].pc \in {"bucket_get", "bucket_set"} => bucket[k].ts <= h[p].now
            /\ h[p].admitted => h[p].now <= bucket[k].ts /\ h[p].pc # "new"
            /\ h[p].pc = "bucket_set" =>
                 Refilled(bucket[k], h[p].now) = h[p].tokens + (IF h[p].allowed THEN Token ELSE 0)
        BY <2>3, <3>2 DEF BucketKnown, HandlersKnown, AtBucket
      <4>2. CASE p = r
        <5>1. KeyOf[r] = k /\ h'[p] = x
          BY <2>2, <2>3, <4>2
        <5>2. x.pc \in {"bucket_get", "bucket_set"} => bucket[k].ts <= x.now
          BY <2>4, <4>1, <4>2 DEF Limits, At
        <5>3. x.admitted => x.now <= bucket[k].ts
          BY <2>5, <4>1, <4>2, <5>1 DEF Limits
        <5>4. x.pc = "bucket_set" =>
                Refilled(bucket[k], x.now) = x.tokens + (IF x.allowed THEN Token ELSE 0)
          BY <5>1 DEF Limits
        <5> QED
          BY <5>1, <5>2, <5>3, <5>4
      <4>3. CASE p # r
        BY <2>2, <2>3, <4>1, <4>3
      <4> QED
        BY <4>2, <4>3
    <3> QED
      BY <2>4, <2>5, <3>1, <3>2 DEF BucketKnown
  <2>6. CASE KeyOf[r] = k /\ At(r, "bucket_set") /\ bucket' = BucketOf(r)
    <3> PICK n \in Nat : n = h[r].now
      BY <2>4
    <3>1. /\ bucket'[k].ts = n /\ bucket'[k].tokens = h[r].tokens /\ n <= clock
          /\ r \in RequestsOf(k)
      BY <2>4, <2>6 DEF BucketOf, TypeOK, At, RequestsOf
    <3>2. /\ x.now = n /\ x.pc \notin AtBucket
          /\ h[r].pc = "bucket_set" /\ ~h[r].admitted /\ (x.admitted => h[r].allowed)
      BY <2>6 DEF Limits, At, HandlersKnown, AtBucket
    <3>3. ASSUME InTurn(RequestsOf(k))
          PROVE  /\ bucket[k].ts <= n
                 /\ \A p \in RequestsOf(k) : h[p].admitted => h[p].now <= bucket[k].ts
                 /\ Refilled(bucket[k], n) = h[r].tokens + (IF h[r].allowed THEN Token ELSE 0)
                 /\ \A p \in RequestsOf(k) : p # r => h[p].pc \in {"new", "ended"}
      <4>1. \A p \in RequestsOf(k) : p # r => h[p].pc \in {"new", "ended"}
        BY <2>3, <3>1, <3>2, <3>3, Alone
      <4> QED
        BY <3>1, <3>2, <3>3, <4>1 DEF BucketKnown
    <3>4. ASSUME InTurn(RequestsOf(k)), NEW p \in RequestsOf(k)
          PROVE  h'[p].pc \notin {"bucket_get", "bucket_set"} /\ (h'[p].admitted => h'[p].now <= n)
      <4>1. CASE p = r
        BY <2>2, <3>2, <4>1 DEF AtBucket
      <4>2. CASE p # r
        BY <2>2, <2>3, <2>4, <3>3, <3>4, <4>2
      <4> QED
        BY <4>1, <4>2
    <3>5. ASSUME NEW a \in Nat, NEW b \in Nat
          PROVE  Cardinality(Through(k, a, b)') =
                   Cardinality(Through(k, a, b)) + (IF x.admitted /\ n \in a .. b THEN 1 ELSE 0)
      <4> PICK now, was : now = Through(k, a, b)' /\ was = Through(k, a, b)
        OBVIOUS
      <4>1. /\ \A p : p \in was <=> p \in RequestsOf(k) /\ h[p].admitted /\ h[p].now \in a .. b
            /\ \A p : p \in now <=> p \in RequestsOf(k) /\ h'[p].admitted /\ h'[p].now \in a .. b
        BY <2>1, EnvKept DEF Through
      <4>2. r \notin was /\ IsFiniteSet(was) /\ Cardinality(was) \in Nat
        BY <3>2, <4>1, ThroughIs
      <4>3. CASE x.admitted /\ n \in a .. b
        <5>1. now = was \union {r}
          BY <2>2, <2>3, <3>1, <3>2, <4>1, <4>3
        <5> QED
          BY <4>2, <4>3, <5>1, FS_AddElement
      <4>4. CASE ~(x.admitted /\ n \in a .. b)
        <5>1. now = was
          BY <2>2, <2>3, <3>1, <3>2, <4>1, <4>4
        <5> QED
          BY <4>2, <4>4, <5>1
      <4> QED
        BY <4>3, <4>4
    <3>10. h[r].tokens \in Nat /\ Token \in Nat /\ Burst * Token \in Nat /\ Rate \in Nat
      BY AmountsAre DEF TypeOK, Handlers
    <3>6. ASSUME InTurn(RequestsOf(k)), NEW a \in Nat, a <= n
          PROVE  Cardinality(Through(k, a, n)) * Token
                   + h[r].tokens + (IF h[r].allowed THEN Token ELSE 0)
                   <= Burst * Token + Rate * (n - a)
      <4>1. Cardinality(Through(k, a, n)) * Token + Refilled(bucket[k], n)
              <= Burst * Token + Rate * (n - a)
        BY <3>3, <3>6, Paid DEF BucketKnown
      <4> PICK full : full = h[r].tokens + (IF h[r].allowed THEN Token ELSE 0)
        OBVIOUS
      <4>2. /\ Refilled(bucket[k], n) = full
            /\ Cardinality(Through(k, a, n)) * Token \in Nat
            /\ h[r].tokens \in Nat /\ Token \in Nat
        BY <3>3, <3>6, ThroughIs, AmountsAre DEF TypeOK, Handlers
      <4> QED
        BY <4>1, <4>2
    <3>7. ASSUME NEW a \in Nat, NEW b \in Nat
          PROVE  Cardinality(Through(k, a, b)') * Token = Cardinality(Through(k, a, b)) * Token
                   + (IF x.admitted /\ n \in a .. b THEN Token ELSE 0)
      <4> PICK c \in Nat : c = Cardinality(Through(k, a, b))
        BY ThroughIs
      <4>1. c * Token + Token = (c + 1) * Token /\ c * Token \in Nat /\ Token \in Nat
        BY AmountsAre, Distributes, ProductIsNat
      <4> QED
        BY <3>5, <4>1
    <3>8. ASSUME InTurn(RequestsOf(k)), NEW a \in Nat, a <= n
          PROVE  Cardinality(Through(k, a, n)') * Token + h[r].tokens
                   <= Burst * Token + Rate * (n - a)
      <4> PICK c : c = Cardinality(Through(k, a, n)) * Token
        OBVIOUS
      <4> PICK limit : limit = Burst * Token + Rate * (n - a)
        OBVIOUS
      <4>1. c \in Nat /\ h[r].tokens \in Nat /\ Token \in Nat /\ limit \in Int
        <5> PICK y \in Nat : y = n - a
          BY <3>8
        <5>1. Rate * y \in Nat
          BY ONLY <3>10, ProductIsNat
        <5>2. c \in Nat
          BY ThroughIs
        <5> QED
          BY <3>10, <5>1, <5>2
      <4>2. c + h[r].tokens + (IF h[r].allowed THEN Token ELSE 0) <= limit
        BY <3>6, <3>8
      <4>3. Cardinality(Through(k, a, n)') * Token = c + (IF x.admitted THEN Token ELSE 0)
        BY <3>7, <3>8
      <4> QED
        BY <3>2, <4>1, <4>2, <4>3
    <3>9. ASSUME InTurn(RequestsOf(k)), NEW a \in Nat, NEW b \in Nat, a <= b
          PROVE  Cardinality(Through(k, a, b)') * Token <= Burst * Token + Rate * (b - a)
      <4>1. Cardinality(Through(k, a, b)) * Token <= Burst * Token + Rate * (b - a)
        BY <3>9 DEF BucketKnown
      <4>2. CASE ~(x.admitted /\ n \in a .. b)
        <5>1. Cardinality(Through(k, a, b)) * Token \in Nat
          BY ThroughIs
        <5> QED
          BY <3>7, <4>1, <4>2, <5>1
      <4>3. CASE x.admitted /\ n \in a .. b
        <5>1. a <= n /\ n <= b
          BY <4>3
        <5>2. Through(k, a, b)' = Through(k, a, n)'
          <6>1. \A p \in RequestsOf(k) : h'[p].admitted => (h'[p].now \in a .. b <=> h'[p].now \in a .. n)
            <7>1. \A p \in RequestsOf(k) : h'[p].now \in Nat
              BY <2>2, <2>3, <2>4, WorkIs DEF Handlers
            <7> QED
              BY <3>4, <3>9, <5>1, <7>1
          <6> QED
            BY <2>1, <6>1, EnvKept DEF Through
        <5> PICK c : c = Cardinality(Through(k, a, n)') * Token
          OBVIOUS
        <5>3. c + h[r].tokens <= Burst * Token + Rate * (n - a)
          BY <3>8, <3>9, <5>1
        <5>4. c \in Int /\ h[r].tokens \in Nat
          <6>1. Cardinality(Through(k, a, n)) * Token \in Nat
            BY ThroughIs
          <6> QED
            BY <3>7, <3>10, <6>1
        <5>5. Rate * (n - a) <= Rate * (b - a) /\ Rate * (n - a) \in Nat /\ Rate * (b - a) \in Nat
          <6> PICK y \in Nat, z \in Nat : y = n - a /\ z = b - a
            BY <5>1
          <6>1. y <= z /\ Rate \in Nat
            BY <5>1, AmountsAre
          <6>2. Rate * y \in Nat /\ Rate * z \in Nat
            BY ONLY <6>1, ProductIsNat
          <6>3. y * Rate <= z * Rate /\ y * Rate = Rate * y /\ z * Rate = Rate * z
            BY ONLY <6>1, FactorGrows, Distributes
          <6> QED
            BY <6>2, <6>3
        <5> QED
          BY <5>2, <5>3, <5>4, <5>5, AmountsAre
      <4> QED
        BY <4>2, <4>3
    <3> QED
      BY <3>1, <3>4, <3>8, <3>9
  <2>7. CASE ~(KeyOf[r] = k /\ At(r, "bucket_set") /\ bucket' = BucketOf(r))
    <3>1. bucket'[k] = bucket[k] /\ (KeyOf[r] = k => (x.admitted <=> h[r].admitted))
      BY <2>1, <2>7 DEF BucketOf, TypeOK, Limits
    <3> QED
      BY <2>5, <3>1
  <2> QED
    BY <2>6, <2>7
<1> QED
  BY <1>1, <1>2 DEF Next

\* A bucket that was found too empty holds a token when the seconds told have passed.
LEMMA WaitPays ==
  ASSUME Burst > 0, Rate > 0, NEW b, b.tokens \in Levels, b.ts \in Nat, b.tokens < Token,
         NEW t \in Nat, t >= b.ts + Second * RetryAfter(b.tokens)
  PROVE  Refilled(b, t) >= Token
<1> PICK wait, tokens, ts : wait = Second * RetryAfter(b.tokens) /\ tokens = b.tokens /\ ts = b.ts
  OBVIOUS
<1>1. tokens \in Nat /\ Token \in Nat /\ Rate \in Nat /\ ts \in Nat /\ Burst \in Nat
  BY AmountsAre
<1>2. wait \in Nat /\ wait * Rate \in Nat /\ wait * Rate >= Token - tokens
  <2>1. RetryAfter(tokens) \in Nat /\ wait * Rate >= Token - tokens
    BY <1>1, RetryAfterIs
  <2>2. Second \in Nat
    BY AmountsAre
  <2>3. wait \in Nat
    BY <2>1, <2>2, ProductIsNat
  <2>4. wait * Rate \in Nat
    BY ONLY <1>1, <2>3, ProductIsNat
  <2> QED
    BY <2>1, <2>3, <2>4
<1> PICK gone \in Nat : gone = t - ts
  BY <1>1, <1>2
<1>3. Rate * gone >= wait * Rate /\ Rate * gone \in Nat
  <2>1. wait <= gone
    BY <1>1, <1>2
  <2>2. wait * Rate <= gone * Rate /\ gone * Rate = Rate * gone
    BY ONLY <1>1, <1>2, <2>1, FactorGrows, Distributes
  <2>3. Rate * gone \in Nat
    BY ONLY <1>1, ProductIsNat
  <2> QED
    BY <1>2, <2>2, <2>3
<1>4. Refilled(b, t) = Burst * Token \/ Refilled(b, t) = tokens + Rate * gone
  BY <1>1, <1>2, RefilledIs
<1>5. Burst * Token >= Token
  <2>1. 1 * Token <= Burst * Token
    BY ONLY <1>1, Burst > 0, FactorGrows
  <2> QED
    BY <1>1, <2>1
<1> QED
  BY <1>1, <1>2, <1>3, <1>4, <1>5

LEMMA RefusalStep ==
  ASSUME TypeOK, TypeOK', HandlersKnown, PriorEnded, RefusalKnown, Next
  PROVE  RefusalKnown'
<1>1. CASE Tick
  <2>1. UNCHANGED <<work, bucket, h>>
    BY <1>1 DEF Tick, stores
  <2> QED
    BY <2>1, EnvKept DEF RefusalKnown, Waited
<1>2. ASSUME NEW s \in Requests, Step(s)
      PROVE  RefusalKnown'
  <2>1. /\ UNCHANGED work /\ KeyOf' = KeyOf
        /\ bucket' = bucket \/ (At(s, "bucket_set") /\ bucket' = BucketOf(s))
    BY <1>2, StoresMove, EnvKept DEF env
  <2> SUFFICES ASSUME NEW r \in Requests, NEW q \in Requests, NextAfter(r, q),
                      h'[r].reply.code = "429"
      PROVE  /\ h'[r].tokens < Token /\ h'[r].reply.retry = RetryAfter(h'[r].tokens)
             /\ h'[q].pc \in AtBucket =>
                  bucket'[KeyOf[r]] = [tokens |-> h'[r].tokens, ts |-> h'[r].now]
             /\ Burst > 0 /\ Rate > 0 /\ h'[q].now >= h'[r].now + Second * h'[r].reply.retry =>
                  (h'[q].pc = "bucket_set" => h'[q].allowed) /\ h'[q].reply.code # "429"
    BY <2>1, EnvKept DEF RefusalKnown, Waited
  <2> PICK x \in Handlers : Moves(s, x) /\ Limits(s, x)
    BY <1>2, Limited
  <2>2. h'[s] = x /\ \A p \in Requests : p # s => h'[p] = h[p]
    BY MovesIs
  <2>3. /\ r \in Prior[q] /\ KeyOf[q] = KeyOf[r] /\ KeyOf[r] \in Keys
        /\ h[q].pc # "new" => h[r].pc = "ended"
        /\ h[s].pc # "ended" /\ h[s].reply.code # "429"
    BY WorkIs DEF NextAfter, PriorEnded, Limits, HandlersKnown, NoReply
  <2>4. CASE s = r
    <3>1. /\ x.reply.code = "429" /\ At(s, "bucket_set") /\ ~h[s].allowed
          /\ bucket' = BucketOf(s) /\ x.reply.retry = RetryAfter(h[s].tokens)
          /\ x.tokens = h[s].tokens /\ x.now = h[s].now
      BY <2>2, <2>4 DEF Limits, At
    <3>2. h[s].tokens < Token
      BY <3>1 DEF HandlersKnown, At
    <3>3. bucket'[KeyOf[r]] = [tokens |-> x.tokens, ts |-> x.now]
      BY <2>3, <2>4, <3>1 DEF BucketOf, TypeOK
    <3>4. q # r /\ h[q].pc = "new" /\ h'[q] = h[q]
      BY <2>2, <2>3, <2>4, <3>1 DEF At
    <3>5. h[q].reply.code # "429"
      BY <3>4 DEF HandlersKnown, NoReply
    <3> QED
      BY <2>2, <2>4, <3>1, <3>2, <3>3, <3>4, <3>5
  <2>5. CASE s # r
    <3>1. h'[r] = h[r] /\ h[r].reply.code = "429" /\ h[r].pc = "ended"
      BY <2>2, <2>5 DEF HandlersKnown, NoReply
    <3>2. /\ h[r].tokens < Token /\ h[r].reply.retry = RetryAfter(h[r].tokens)
          /\ h[q].pc \in AtBucket => bucket[KeyOf[r]] = [tokens |-> h[r].tokens, ts |-> h[r].now]
          /\ Burst > 0 /\ Rate > 0 /\ h[q].now >= h[r].now + Second * h[r].reply.retry =>
               (h[q].pc = "bucket_set" => h[q].allowed) /\ h[q].reply.code # "429"
      BY <3>1 DEF RefusalKnown, Waited
    <3>3. CASE s = q
      <4>1. x.pc \in AtBucket => h[q].pc \in AtBucket /\ bucket' = bucket
        BY <2>1, <3>3 DEF Limits, AtBucket, At
      <4>2. ASSUME Burst > 0, Rate > 0, x.now >= h[r].now + Second * h[r].reply.retry,
                   x.pc = "bucket_set"
            PROVE  x.allowed
        <5>1. At(q, "bucket_get") /\ (x.allowed <=> Refilled(bucket[KeyOf[q]], x.now) >= Token)
          BY <3>3, <4>2 DEF Limits
        <5> PICK b : b = bucket[KeyOf[r]]
          OBVIOUS
        <5>2. b = [tokens |-> h[r].tokens, ts |-> h[r].now]
          BY <3>2, <5>1 DEF At, AtBucket
        <5>3. b.tokens = h[r].tokens /\ b.ts = h[r].now
          BY <5>2
        <5>4. b.tokens \in Levels /\ b.ts \in Nat /\ x.now \in Nat
          BY <2>3, WorkIs DEF TypeOK, Handlers
        <5>5. x.now >= b.ts + Second * RetryAfter(b.tokens)
          BY <3>2, <4>2, <5>3
        <5>6. Refilled(b, x.now) >= Token
          BY <3>2, <4>2, <5>3, <5>4, <5>5, WaitPays
        <5> QED
          BY <2>3, <5>1, <5>6
      <4>3. ASSUME Burst > 0, Rate > 0, x.now >= h[r].now + Second * h[r].reply.retry
            PROVE  x.reply.code # "429"
        <5> SUFFICES ASSUME x.reply.code = "429" PROVE FALSE
          OBVIOUS
        <5>1. At(q, "bucket_set") /\ ~h[q].allowed /\ x.now = h[q].now
          BY <3>3 DEF Limits, At
        <5> QED
          BY <3>2, <4>3, <5>1 DEF At
      <4> QED
        BY <2>2, <3>1, <3>2, <3>3, <4>1, <4>2, <4>3
    <3>4. CASE s # q
      <4>1. h'[q] = h[q]
        BY <2>2, <3>4
      <4>2. h[q].pc \in AtBucket => bucket'[KeyOf[r]] = bucket[KeyOf[r]]
        <5> SUFFICES ASSUME h[q].pc \in AtBucket, At(s, "bucket_set"), KeyOf[s] = KeyOf[r]
                     PROVE  FALSE
          BY <2>1, <2>3 DEF BucketOf, TypeOK
        <5>1. s \in Prior[r] \/ q \in Prior[s]
          BY <2>5, <3>4 DEF NextAfter, RequestsOf
        <5>2. s \in Prior[r] => h[s].pc = "ended"
          BY <3>1 DEF PriorEnded
        <5>3. q \in Prior[s] => h[q].pc = "ended"
          BY DEF PriorEnded, At
        <5> QED
          BY <2>3, <5>1, <5>2, <5>3 DEF AtBucket
      <4> QED
        BY <3>1, <3>2, <4>1, <4>2
    <3> QED
      BY <3>3, <3>4
  <2> QED
    BY <2>4, <2>5
<1> QED
  BY <1>1, <1>2 DEF Next

-----------------------------------------------------------------------------
(* The theorems.                                                             *)

LEMMA NextInv ==
  ASSUME Inv, [Next]_vars
  PROVE  Inv'
<1>1. CASE Next
  <2>1. TypeOK' /\ HandlersKnown' /\ PriorEnded'
    BY <1>1, TypeStep, HandlersStep, PriorStep DEF Inv
  <2>2. StoreKnown' /\ BucketKnown' /\ RefusalKnown' /\ LedgerKnown' /\ DayKnown'
    BY <1>1, <2>1, StoreStep, BucketStep, RefusalStep, LedgerStep, DayStep DEF Inv
  <2> QED
    BY <2>1, <2>2 DEF Inv
<1>2. CASE UNCHANGED vars
  <2>1. UNCHANGED <<work, redis, clock, bucket, spent, stored, h>>
    BY <1>2 DEF vars, env, stores
  <2>2. \A k, a, b : Through(k, a, b)' = Through(k, a, b)
    BY <2>1, EnvKept DEF Through
  <2>3. \A S : Total(S)' = Total(S)
    BY <2>1 DEF Total
  <2>4. TypeOK'
    BY <2>1 DEF Inv, TypeOK, MaxClock, Handlers
  <2>5. HandlersKnown' /\ PriorEnded' /\ StoreKnown'
    BY <2>1, EnvKept DEF Inv, HandlersKnown, PriorEnded, StoreKnown
  <2>6. BucketKnown' /\ RefusalKnown'
    BY <2>1, <2>2, EnvKept DEF Inv, BucketKnown, RefusalKnown, Waited
  <2>7. LedgerKnown' /\ DayKnown'
    BY <2>1, <2>3, EnvKept DEF Inv, LedgerKnown, DayKnown, Remaining
  <2> QED
    BY <2>4, <2>5, <2>6, <2>7 DEF Inv
<1> QED
  BY <1>1, <1>2

LEMMA Invariance == Spec => []Inv
<1>1. Init => Inv
  BY InitInv
<1>2. Inv /\ [Next]_vars => Inv'
  BY NextInv
<1> QED
  BY <1>1, <1>2, PTL DEF Spec

\* Every variable keeps its type: the bucket of a client never holds more than the burst, nor
\* less than nothing, whoever reads and writes it.
THEOREM ApiTypeCorrect == Spec => []TypeOK
<1>1. Inv => TypeOK
  BY DEF Inv
<1> QED
  BY <1>1, Invariance, PTL

\* A request that is repeated in turn under one Idempotency-Key is answered by one run,
\* whichever of its repeats failed or died, and between which writes.
THEOREM ApiOneAnswerPerKey == Spec => []OneAnswerPerKey
<1>1. Inv => OneAnswerPerKey
  <2> SUFFICES ASSUME Inv, redis, NEW i \in IdemKeys, InTurn(Repeats(i)),
                      NEW q \in Repeats(i), NEW r \in Repeats(i),
                      h[q].reply.code = "200", h[r].reply.code = "200"
               PROVE  h[q].reply.of = h[r].reply.of
    BY DEF OneAnswerPerKey, OneAnswer
  <2>1. h[q].reply.of = stored[i] /\ h[r].reply.of = stored[i]
    BY DEF Inv, StoreKnown
  <2> QED
    BY <2>1
<1> QED
  BY <1>1, Invariance, PTL

\* However many handlers add to the spend of a client at once, the ledger holds what the
\* answered runs charged, and no more than all of them did.
THEOREM ApiAnsweredRunsRecorded == Spec => []AnsweredRunsRecorded
<1>1. Inv => AnsweredRunsRecorded
  <2> SUFFICES ASSUME Inv, redis, NEW k \in Keys
               PROVE  /\ Total({r \in RequestsOf(k) : h[r].reply.of = r}) <= spent[k]
                      /\ spent[k] <= Total(RequestsOf(k))
    BY DEF AnsweredRunsRecorded
  <2> PICK over, cost : /\ over = {r \in RequestsOf(k) : h[r].pc = "ended"}
                        /\ cost = [r \in Requests |-> h[r].cost]
    OBVIOUS
  <2>1. /\ Total({r \in RequestsOf(k) : h[r].reply.of = r}) <= spent[k]
        /\ spent[k] <= Total(over) /\ spent[k] \in Nat
    BY DEF Inv, LedgerKnown, TypeOK
  <2>2. RequestsOf(k) \subseteq Requests /\ IsFiniteSet(RequestsOf(k)) /\ IsFiniteSet(over)
    BY KeysAssumption, FS_Subset DEF RequestsOf
  <2>3. \A r \in Requests : cost[r] \in Nat
    BY DEF Inv, TypeOK, Handlers
  <2>4. Total(over) <= Total(RequestsOf(k))
    BY <2>2, <2>3, SumGrows DEF Total
  <2>5. Total(over) \in Nat /\ Total(RequestsOf(k)) \in Nat
    BY <2>2, <2>3, SumTyped DEF Total
  <2> QED
    BY <2>1, <2>4, <2>5
<1> QED
  BY <1>1, Invariance, PTL

\* In no stretch of time does the limiter let more of a client's requests through than the
\* burst and the refill of that time, as long as the client makes them in turn.
THEOREM ApiBurstToCapacity == Spec => []BurstToCapacity
<1>1. Inv => BurstToCapacity
  <2> SUFFICES ASSUME Inv, redis, NEW k \in Keys, InTurn(RequestsOf(k)),
                      NEW a \in 0 .. clock, NEW b \in 0 .. clock, a <= b
               PROVE  Cardinality(Through(k, a, b)) * Token <= Burst * Token + Rate * (b - a)
    BY DEF BurstToCapacity, WithinBurst, Through
  <2>1. a \in Nat /\ b \in Nat
    BY WorkIs DEF Inv, TypeOK
  <2> QED
    BY <2>1 DEF Inv, BucketKnown
<1> QED
  BY <1>1, Invariance, PTL

\* A client that was refused, and waits the seconds of Retry-After before its next request,
\* is not refused again: rounding and the refill agree.
THEOREM ApiRetryAfterHonest == Spec => []RetryAfterHonest
<1>1. Inv => RetryAfterHonest
  BY DEF Inv, RefusalKnown, RetryAfterHonest, Waited
<1> QED
  BY <1>1, Invariance, PTL

\* A council convened within the budget of the day takes the ledger beyond it by no more than
\* its estimate missed, as long as the client makes its requests in turn.
THEOREM ApiCouncilsFitTheDay == Spec => CouncilsFitTheDay
<1>1. ASSUME Inv, Next, NEW r \in Requests, EstCost > 0, At(r, "spend_add"), h'[r].pc = "ended",
             h[r].council, spent' # spent, InTurn(RequestsOf(KeyOf[r]))
      PROVE  spent'[KeyOf[r]] + EstCost <= DailyCap + CouncilCost
  <2>1. PICK s \in Requests : Step(s)
    BY <1>1 DEF Next, Tick, At
  <2>2. s = r
    BY <1>1, <2>1, StepMoves, MovesIs DEF Inv, At
  <2>3. spent' = SpendOf(r)
    BY <1>1, <2>1, <2>2, StoresMove
  <2> PICK k \in Keys : k = KeyOf[r]
    BY <1>1, WorkIs DEF Inv
  <2>4. redis /\ r \in RequestsOf(k)
    BY <1>1 DEF Inv, HandlersKnown, At, OnRedis, RequestsOf
  <2>5. EstCost <= Remaining(k) /\ h[r].cost <= CouncilCost
    BY <1>1, <2>4 DEF Inv, DayKnown, At
  <2>6. Remaining(k) = DailyCap - spent[k]
    BY <1>1, <2>5, RemainingIs, AmountsAre DEF Inv
  <2>7. spent'[k] = spent[k] + h[r].cost /\ spent[k] \in Nat /\ h[r].cost \in Nat
    BY <1>1, <2>3 DEF Inv, SpendOf, TypeOK, Handlers
  <2> QED
    BY <2>5, <2>6, <2>7, AmountsAre
<1>2. Inv /\ [Next]_vars =>
        [\A r \in Requests :
           EstCost > 0 /\ At(r, "spend_add") /\ h'[r].pc = "ended" /\ h[r].council /\ spent' # spent
           /\ InTurn(RequestsOf(KeyOf[r]))
             => spent'[KeyOf[r]] + EstCost <= DailyCap + CouncilCost]_vars
  BY <1>1
<1> QED
  BY <1>2, Invariance, PTL DEF Spec, CouncilsFitTheDay
=============================================================================
