--------------------------- MODULE RunScopeProofs ---------------------------
(***************************************************************************)
(* Theorems of RunScope, for any number of runs at once, of children in a  *)
(* gather and of stages: spans nest, every run is one trace, its cost list *)
(* and the counter agree with it, and no context leaks into another task.  *)
(***************************************************************************)
EXTENDS RunScope, SequenceTheorems, FiniteSetTheorems, TLAPS

-----------------------------------------------------------------------------
(* The inductive invariant: the context of a task that is at work, spelled   *)
(* out from where its run is, and which spans there are by then.             *)

Live(r)   == at[r] \in {"solo", "gather", "cancelled"}
Active(t) == task[t] \in {"calling", "charged"}
Idle(t)   == task[t] \in {"none", "done"}

\* The span a call of task t has, and that of the stage it is made in.
Call(t)  == CallSpan(t, stage[t[1]])
Scene(r) == StageSpan(r, stage[r])

\* What a task of run r has on its stack outside its calls, and what it has now.
Base(r)    == IF Scene(r) \in open THEN <<RequestSpan(r), Scene(r)>> ELSE <<RequestSpan(r)>>
StackOf(t) == IF Active(t) THEN Append(Base(t[1]), Call(t)) ELSE Base(t[1])

Own(r, stack) == [stack |-> stack, sink |-> r, cid |-> r]

\* The context of the run's task while it runs, and of its children while they work.
ContextsKnown ==
  /\ \A r \in Runs :
       ctx[Main(r)] = IF at[r] \in {"new", "ended"} THEN NoContext ELSE Own(r, StackOf(Main(r)))
  /\ \A t \in Tasks : ~Idle(t) => Live(t[1]) /\ ctx[t] = Own(t[1], StackOf(t))

\* The shape a span of a run has.
Named(s) ==
  /\ s.kind = "request" => s = RequestSpan(s.run)
  /\ s.kind = "stage" => s = StageSpan(s.run, s.n)
  /\ s.kind = "llm" => <<s.run, s.task>> \in Tasks

\* The spans started so far are those of the stages so far, and a call that has not begun
\* has none.
SpansKnown ==
  /\ \A s \in DOMAIN parent :
       Named(s) /\ at[s.run] # "new" /\ (s.kind # "request" => s.n \in 1 .. stage[s.run])
  /\ \A t \in Tasks : task[t] = "ready" => Call(t) \notin DOMAIN parent
  /\ \A r \in Runs : Live(r) => stage[r] >= 1
  /\ \A r \in Runs : Live(r) /\ Scene(r) \in DOMAIN parent => Scene(r) \in open

\* The open spans are those of the runs, of their current stages and of the calls under way.
OpenKnown ==
  /\ \A r \in Runs : RequestSpan(r) \in open <=> at[r] \notin {"new", "ended"}
  /\ \A s \in open : s.kind = "stage" => Live(s.run) /\ s.n = stage[s.run]
  /\ \A s \in open : s.kind = "llm" => s.n = stage[s.run] /\ Active(<<s.run, s.task>>)
  /\ \A t \in Tasks : Active(t) => Call(t) \in open

\* Only a call that was charged is priced.
PricesKnown ==
  /\ IsFiniteSet(priced)
  /\ \A t \in Tasks : task[t] = "calling" => Call(t) \notin priced

Inv == TypeOK /\ OneTracePerRun /\ CostsAgree
       /\ ContextsKnown /\ SpansKnown /\ OpenKnown /\ PricesKnown

-----------------------------------------------------------------------------
(* Lemmas about tasks, spans and stacks.                                     *)

LEMMA TaskIs ==
  /\ \A t \in Tasks : t[1] \in Runs /\ t[2] \in 0 .. Width[t[1]] /\ t = <<t[1], t[2]>>
  /\ \A r \in Runs : Main(r) \in Tasks /\ Main(r)[1] = r /\ Main(r)[2] = 0
  /\ \A r \in Runs : \A t \in Children(r) : t \in Tasks /\ t[1] = r /\ t # Main(r)
  /\ \A q, r \in Runs : Main(q) = Main(r) => q = r
<1>1. \A r \in Runs : Width[r] \in Nat \ {0}
  BY ScopeAssumption
<1>2. \A t : t \in Tasks <=> \E r \in Runs : t \in {r} \X (0 .. Width[r])
  BY DEF Tasks
<1> QED
  BY <1>1, <1>2 DEF Main, Children

LEMMA SpanIs ==
  /\ \A r \in Runs : RequestSpan(r) \in Spans
  /\ \A r \in Runs : \A n \in Nat : StageSpan(r, n) \in Spans
  /\ \A t \in Tasks : \A n \in Nat : CallSpan(t, n) \in Spans
<1>1. \A t \in Tasks : t[1] \in Runs /\ t[2] \in Nat
  BY TaskIs, ScopeAssumption
<1> QED
  BY <1>1 DEF RequestSpan, StageSpan, CallSpan, Spans, Kinds

\* No two calls, and no two tasks, share a span.
LEMMA CallsDiffer ==
  ASSUME NEW t \in Tasks, NEW u \in Tasks, NEW m, NEW n, CallSpan(t, m) = CallSpan(u, n)
  PROVE  t = u /\ m = n
<1>1. t[1] = u[1] /\ t[2] = u[2] /\ m = n
  BY DEF CallSpan
<1> QED
  BY <1>1, TaskIs

LEMMA Pushed ==
  ASSUME NEW S, NEW s \in Seq(S), NEW x \in S
  PROVE  /\ Append(s, x) \in Seq(S) /\ Append(s, x) # <<>>
         /\ Last(Append(s, x)) = x /\ Front(Append(s, x)) = s
<1>1. /\ Append(s, x) \in Seq(S) /\ Append(s, x) # <<>> /\ Len(Append(s, x)) = Len(s) + 1
      /\ \A i \in 1 .. Len(s) : Append(s, x)[i] = s[i]
      /\ Append(s, x)[Len(s) + 1] = x
  BY AppendProperties
<1>2. Len(s) \in Nat /\ s = [i \in 1 .. Len(s) |-> s[i]]
  OBVIOUS
<1>3. Front(Append(s, x)) = SubSeq(Append(s, x), 1, Len(s))
  BY <1>1, <1>2 DEF Front
<1>4. SubSeq(Append(s, x), 1, Len(s)) = s
  BY <1>1, <1>2
<1> QED
  BY <1>1, <1>2, <1>3, <1>4 DEF Last

LEMMA Paired ==
  ASSUME NEW x \in Spans, NEW y \in Spans
  PROVE  Append(<<x>>, y) = <<x, y>>
<1> DEFINE s == <<x>>
<1>1. <<x, y>> \in Seq(Spans) /\ Len(<<x, y>>) = 2 /\ <<x, y>>[1] = x /\ <<x, y>>[2] = y
  OBVIOUS
<1>2. s \in Seq(Spans) /\ Len(s) = 1 /\ s[1] = x
  OBVIOUS
<1> HIDE DEF s
<1>3. /\ Append(s, y) \in Seq(Spans) /\ Len(Append(s, y)) = Len(s) + 1
      /\ \A i \in 1 .. Len(s) : Append(s, y)[i] = s[i]
      /\ Append(s, y)[Len(s) + 1] = y
  <2> PICK u : u = s
    OBVIOUS
  <2>1. u \in Seq(Spans)
    BY <1>2
  <2>2. /\ Append(u, y) \in Seq(Spans) /\ Len(Append(u, y)) = Len(u) + 1
        /\ \A i \in 1 .. Len(u) : Append(u, y)[i] = u[i]
        /\ Append(u, y)[Len(u) + 1] = y
    BY <2>1, AppendProperties
  <2> QED
    BY <2>2
<1> PICK one : one = Len(s)
  OBVIOUS
<1>4. /\ Append(s, y) \in Seq(Spans) /\ Len(Append(s, y)) = 2
      /\ Append(s, y)[1] = x /\ Append(s, y)[2] = y
  <2>1. one = 1 /\ one + 1 = 2 /\ 1 \in 1 .. one
    BY <1>2
  <2> QED
    BY <1>2, <1>3, <2>1, Zenon
<1> PICK long : long = <<x, y>>
  OBVIOUS
<1>5. \A i \in 1 .. 2 : Append(s, y)[i] = long[i]
  BY <1>1, <1>4
<1> QED
  BY <1>1, <1>4, <1>5, SeqEqual DEF s

\* The stack of a request and one stage, once the stage is left, and of a request.
LEMMA Popped ==
  ASSUME NEW x \in Spans, NEW y \in Spans
  PROVE  Front(<<x, y>>) = <<x>> /\ Front(<<x>>) = <<>>
<1> DEFINE s == <<x>>
<1>1. s \in Seq(Spans)
  OBVIOUS
<1>2. Append(s, y) = <<x, y>>
  BY Paired
<1>3. Front(Append(s, y)) = s
  <2> HIDE DEF s
  <2> QED
    BY <1>1, Pushed
<1>4. Front(<<x>>) = <<>>
  BY DEF Front
<1> QED
  BY <1>2, <1>3, <1>4

LEMMA BaseIs ==
  ASSUME TypeOK, NEW r \in Runs
  PROVE  /\ Base(r) \in Seq(Spans) /\ Base(r) # <<>>
         /\ Scene(r) \in Spans /\ RequestSpan(r) \in Spans
         /\ Last(Base(r)) = IF Scene(r) \in open THEN Scene(r) ELSE RequestSpan(r)
<1>1. Scene(r) \in Spans /\ RequestSpan(r) \in Spans
  <2>1. stage[r] \in Nat
    BY ScopeAssumption DEF TypeOK
  <2> QED
    BY <2>1, SpanIs DEF Scene
<1>2. CASE Scene(r) \in open
  <2>1. Base(r) = <<RequestSpan(r), Scene(r)>>
    BY <1>2 DEF Base
  <2> QED
    BY <1>1, <1>2, <2>1 DEF Last
<1>3. CASE Scene(r) \notin open
  <2>1. Base(r) = <<RequestSpan(r)>>
    BY <1>3 DEF Base
  <2> QED
    BY <1>1, <1>3, <2>1 DEF Last
<1> QED
  BY <1>2, <1>3

LEMMA SetAt ==
  ASSUME NEW D, NEW C, NEW f \in [D -> C], NEW m \in D, NEW v \in C
  PROVE  /\ [f EXCEPT ![m] = v] \in [D -> C] /\ [f EXCEPT ![m] = v][m] = v
         /\ \A d \in D : d # m => [f EXCEPT ![m] = v][d] = f[d]
  OBVIOUS

\* The context variables are set one at a time.
LEMMA OwnIs ==
  ASSUME NEW r, NEW old, NEW new
  PROVE  /\ [Own(r, old) EXCEPT !.stack = new] = Own(r, new)
         /\ Own(r, old).stack = old /\ Own(r, old).sink = r /\ Own(r, old).cid = r
  BY DEF Own

LEMMA OwnTyped ==
  ASSUME NEW r \in Runs, NEW stack \in Seq(Spans)
  PROVE  Own(r, stack)
           \in [stack : Seq(Spans), sink : Runs \union {Nobody}, cid : Runs \union {Nobody}]
  BY DEF Own

LEMMA CallIs ==
  ASSUME TypeOK, NEW t \in Tasks
  PROVE  /\ t[1] \in Runs /\ Call(t) \in Spans /\ stage[t[1]] \in Nat
         /\ Call(t).run = t[1] /\ Call(t).kind = "llm" /\ Call(t).n = stage[t[1]]
         /\ Call(t).task = t[2]
<1>1. t[1] \in Runs /\ stage[t[1]] \in Nat
  BY TaskIs, ScopeAssumption DEF TypeOK
<1> QED
  BY <1>1, SpanIs DEF Call, CallSpan

-----------------------------------------------------------------------------
(* Every action preserves the invariant.                                     *)

LEMMA InitInv == Init => Inv
<1> SUFFICES ASSUME Init PROVE Inv
  OBVIOUS
<1>1. TypeOK
  <2>1. NoContext \in [stack : Seq(Spans), sink : Runs \union {Nobody}, cid : Runs \union {Nobody}]
    BY DEF NoContext
  <2>2. DOMAIN parent = {}
    BY DEF Init
  <2>3. \A r \in Runs : stage[r] \in 0 .. MaxStages[r]
    BY ScopeAssumption DEF Init
  <2> QED
    BY <2>1, <2>2, <2>3 DEF Init, TypeOK
<1>2. DOMAIN parent = {} /\ OneTracePerRun
  BY DEF Init, OneTracePerRun
<1>3. CostsAgree /\ PricesKnown
  <2>1. \A r \in Runs : {s \in priced : s.run = r} = {}
    BY DEF Init
  <2> QED
    BY <2>1, FS_EmptySet DEF Init, CostsAgree, PricesKnown
<1>4. ContextsKnown
  BY TaskIs DEF Init, ContextsKnown, Idle
<1>5. SpansKnown
  BY <1>2, TaskIs DEF Init, SpansKnown, Live
<1>6. OpenKnown
  BY TaskIs DEF Init, OpenKnown, Active
<1> QED
  BY <1>1, <1>2, <1>3, <1>4, <1>5, <1>6 DEF Inv

LEMMA CancelStep ==
  ASSUME Inv, NEW r \in Runs, Cancel(r)
  PROVE  Inv'
<1>1. /\ at[r] \in {"solo", "gather"} /\ at' = [at EXCEPT ![r] = "cancelled"]
      /\ UNCHANGED <<stage, task, ctx, parent, open, priced, bill, told, counter>>
  BY DEF Cancel, Busy
<1>2. TypeOK'
  BY <1>1 DEF Inv, TypeOK
<1>3. /\ at'[r] = "cancelled" /\ \A q \in Runs : q # r => at'[q] = at[q]
  BY <1>1 DEF Inv, TypeOK
<1>4. \A q \in Runs : /\ Live(q)' = Live(q) /\ Base(q)' = Base(q) /\ Scene(q)' = Scene(q)
                      /\ at'[q] = "new" <=> at[q] = "new"
                      /\ at'[q] = "ended" <=> at[q] = "ended"
  BY <1>1, <1>3 DEF Live, Base, Scene
<1>5. \A t : /\ Active(t)' = Active(t) /\ Idle(t)' = Idle(t) /\ Call(t)' = Call(t)
  BY <1>1 DEF Active, Idle, Call
<1>6. \A t \in Tasks : StackOf(t)' = StackOf(t)
  BY <1>4, <1>5, TaskIs DEF StackOf
<1>7. OneTracePerRun' /\ CostsAgree' /\ PricesKnown'
  BY <1>1, <1>4, <1>5 DEF Inv, OneTracePerRun, CostsAgree, PricesKnown
<1>8. ContextsKnown'
  BY <1>1, <1>4, <1>5, <1>6, TaskIs DEF Inv, ContextsKnown
<1>9. SpansKnown'
  <2>1. \A s \in DOMAIN parent : s.run \in Runs
    BY DEF Inv, TypeOK, Spans
  <2> QED
    BY <1>1, <1>4, <1>5, <2>1 DEF Inv, SpansKnown, Named
<1>10. OpenKnown'
  <2>1. \A s \in open : s.run \in Runs
    BY DEF Inv, TypeOK, Spans
  <2> QED
    BY <1>1, <1>4, <1>5, <2>1 DEF Inv, OpenKnown
<1> QED
  BY <1>2, <1>7, <1>8, <1>9, <1>10 DEF Inv

\* A step of task t alone: nothing changes for its siblings, nor for the runs.
LEMMA TaskStep ==
  ASSUME Inv, NEW t \in Tasks, NEW new, task' = [task EXCEPT ![t] = new],
         UNCHANGED <<at, stage>>
  PROVE  /\ task'[t] = new
         /\ \A u \in Tasks : u # t => Active(u)' = Active(u) /\ Idle(u)' = Idle(u)
                                      /\ task'[u] = task[u]
         /\ \A u : Call(u)' = Call(u)
         /\ \A q : Live(q)' = Live(q) /\ Scene(q)' = Scene(q)
  BY DEF Inv, TypeOK, Active, Idle, Call, Live, Scene

LEMMA CallSkippedStep ==
  ASSUME Inv, NEW t \in Tasks, CallSkipped(t)
  PROVE  Inv'
<1>1. /\ task[t] = "ready" /\ task' = [task EXCEPT ![t] = "done"]
      /\ UNCHANGED <<at, stage, ctx, parent, open, priced, bill, told, counter>>
  BY DEF CallSkipped
<1>2. /\ task'[t] = "done"
      /\ \A u \in Tasks : u # t => Active(u)' = Active(u) /\ Idle(u)' = Idle(u)
                                   /\ task'[u] = task[u]
      /\ \A u : Call(u)' = Call(u)
      /\ \A q : Live(q)' = Live(q) /\ Scene(q)' = Scene(q)
  BY <1>1, TaskStep
<1>3. ~Active(t) /\ ~Active(t)' /\ Idle(t)'
  BY <1>1, <1>2 DEF Active, Idle
<1>4. \A u \in Tasks : StackOf(u)' = StackOf(u)
  BY <1>1, <1>2, <1>3 DEF StackOf, Base
<1>5. TypeOK'
  BY <1>1 DEF Inv, TypeOK
<1>6. OneTracePerRun' /\ CostsAgree'
  BY <1>1 DEF Inv, OneTracePerRun, CostsAgree
<1>7. PricesKnown' /\ SpansKnown'
  BY <1>1, <1>2 DEF Inv, PricesKnown, SpansKnown, Named
<1>8. ContextsKnown'
  BY <1>1, <1>2, <1>3, <1>4, TaskIs DEF Inv, ContextsKnown
<1>9. OpenKnown'
  <2>1. \A s \in open : s.kind = "llm" => <<s.run, s.task>> \in Tasks
    BY DEF Inv, TypeOK, SpansKnown, Named
  <2> QED
    BY <1>1, <1>2, <1>3, <2>1 DEF Inv, OpenKnown
<1> QED
  BY <1>5, <1>6, <1>7, <1>8, <1>9 DEF Inv

LEMMA CallBeginsStep ==
  ASSUME Inv, NEW t \in Tasks, CallBegins(t)
  PROVE  Inv'
<1> PICK r \in Runs : r = t[1]
  BY TaskIs
<1> PICK s : s = Call(t)
  OBVIOUS
<1>1. /\ task[t] = "ready" /\ task' = [task EXCEPT ![t] = "calling"]
      /\ Started(s, Top(t)) /\ open' = open \union {s} /\ ctx' = Entering(t, s)
      /\ UNCHANGED <<at, stage, priced, bill, told, counter>>
  BY DEF CallBegins, Call
<1>2. /\ task'[t] = "calling"
      /\ \A u \in Tasks : u # t => Active(u)' = Active(u) /\ Idle(u)' = Idle(u)
                                   /\ task'[u] = task[u]
      /\ \A u : Call(u)' = Call(u)
      /\ \A q : Live(q)' = Live(q) /\ Scene(q)' = Scene(q)
  BY <1>1, TaskStep
<1>3. /\ r \in Runs /\ s \in Spans /\ s.run = r /\ s.kind = "llm" /\ s.n = stage[r]
      /\ s.task = t[2] /\ stage[r] \in Nat
  BY CallIs DEF Inv
<1>4. Live(r) /\ ~Active(t) /\ ctx[t] = Own(r, Base(r)) /\ s \notin DOMAIN parent
  BY <1>1 DEF Inv, ContextsKnown, SpansKnown, Idle, Active, StackOf
<1>5. /\ Base(r) \in Seq(Spans) /\ Base(r) # <<>>
      /\ Last(Base(r)) = IF Scene(r) \in open THEN Scene(r) ELSE RequestSpan(r)
      /\ Scene(r) \in Spans /\ RequestSpan(r) \in Spans
  BY <1>3, BaseIs DEF Inv
<1>6. Top(t) = IF Scene(r) \in open THEN Scene(r) ELSE RequestSpan(r)
  BY <1>4, <1>5 DEF Top, Own
<1>7. /\ DOMAIN parent' = DOMAIN parent \union {s} /\ parent'[s] = Top(t)
      /\ \A x \in DOMAIN parent : parent'[x] = parent[x]
  BY <1>1, <1>4 DEF Started
<1>8. \A q, n : /\ StageSpan(q, n) # s /\ RequestSpan(q) # s /\ Scene(q) # s
                /\ Scene(q) \in open' <=> Scene(q) \in open
  BY <1>1, <1>3 DEF StageSpan, RequestSpan, Scene
<1>9. \A q : Base(q)' = Base(q)
  BY <1>2, <1>8 DEF Base
<1>10. /\ Active(t)' /\ StackOf(t)' = Append(Base(r), s)
       /\ \A u \in Tasks : u # t => StackOf(u)' = StackOf(u)
  BY <1>2, <1>9 DEF StackOf, Active
<1>11. /\ ctx'[t] = Own(r, Append(Base(r), s)) /\ \A u \in Tasks : u # t => ctx'[u] = ctx[u]
       /\ DOMAIN ctx' = Tasks /\ ctx' = [ctx EXCEPT ![t] = Own(r, Append(Base(r), s))]
  <2>1. [ctx[t] EXCEPT !.stack = Append(ctx[t].stack, s)] = Own(r, Append(Base(r), s))
    <3> PICK q, base, top : q = r /\ base = Base(r) /\ top = Append(base, s)
      OBVIOUS
    <3>1. [Own(q, base) EXCEPT !.stack = top] = Own(q, top) /\ Own(q, base).stack = base
      BY ONLY OwnIs, Zenon
    <3>2. ctx[t] = Own(q, base)
      BY <1>4
    <3> QED
      BY <3>1, <3>2
  <2>2. ctx' = [ctx EXCEPT ![t] = [ctx[t] EXCEPT !.stack = Append(ctx[t].stack, s)]]
    BY <1>1 DEF Entering
  <2> QED
    BY <2>1, <2>2 DEF Inv, TypeOK
<1>12. TypeOK'
  <2>1. Append(Base(r), s) \in Seq(Spans)
    BY <1>3, <1>5, Pushed
  <2>2. Own(r, Append(Base(r), s))
          \in [stack : Seq(Spans), sink : Runs \union {Nobody}, cid : Runs \union {Nobody}]
    BY <1>3, <2>1, OwnTyped
  <2>3. Top(t) \in Spans
    BY <1>5, <1>6
  <2> QED
    BY <1>1, <1>3, <1>7, <1>11, <2>2, <2>3 DEF Inv, TypeOK
<1>13. OneTracePerRun'
  <2>1. \A q, n : StageSpan(q, n) \in DOMAIN parent' <=> StageSpan(q, n) \in DOMAIN parent
    BY <1>7, <1>8
  <2>2. StageSpan(s.run, s.n) = Scene(r)
    BY <1>3 DEF Scene
  <2>3. Scene(r) \in open <=> Scene(r) \in DOMAIN parent
    BY <1>3, <1>4 DEF Inv, TypeOK, SpansKnown
  <2>4. parent'[s] = CASE s.kind = "request" -> NoSpan
                       [] s.kind = "llm" /\ StageSpan(s.run, s.n) \in DOMAIN parent'
                            -> StageSpan(s.run, s.n)
                       [] OTHER -> RequestSpan(s.run)
    BY <1>3, <1>6, <1>7, <2>1, <2>2, <2>3
  <2> QED
    BY <1>7, <2>1, <2>4 DEF Inv, OneTracePerRun
<1>14. CostsAgree'
  BY <1>1 DEF Inv, CostsAgree
<1>15. PricesKnown'
  BY <1>1, <1>2, <1>4 DEF Inv, TypeOK, PricesKnown
<1>16. ContextsKnown'
  <2>1. ctx'[t] = Own(r, StackOf(t)') /\ Live(r)'
    <3>1. ctx'[t] = Own(r, StackOf(t)')
      BY <1>10, <1>11, Zenon
    <3>2. Live(r)'
      BY <1>1, <1>4 DEF Live
    <3> QED
      BY <3>1, <3>2
  <2>2. \A u \in Tasks : ~Idle(u)' => Live(u[1])' /\ ctx'[u] = Own(u[1], StackOf(u)')
    <3> SUFFICES ASSUME NEW u \in Tasks, u # t, ~Idle(u)'
                 PROVE  Live(u[1])' /\ ctx'[u] = Own(u[1], StackOf(u)')
      BY <1>3, <2>1
    <3>1. Live(u[1]) /\ ctx[u] = Own(u[1], StackOf(u))
      BY <1>2 DEF Inv, ContextsKnown
    <3>2. Live(u[1])'
      BY <1>1, <3>1 DEF Live
    <3> QED
      BY <1>10, <1>11, <3>1, <3>2
  <2>3. \A q \in Runs : ctx'[Main(q)] = IF at'[q] \in {"new", "ended"} THEN NoContext
                                        ELSE Own(q, StackOf(Main(q))')
    <3> SUFFICES ASSUME NEW q \in Runs
                 PROVE  ctx'[Main(q)] = IF at'[q] \in {"new", "ended"} THEN NoContext
                                        ELSE Own(q, StackOf(Main(q))')
      OBVIOUS
    <3> PICK m \in Tasks : m = Main(q) /\ m[1] = q
      BY TaskIs
    <3>1. CASE m = t
      BY <1>1, <1>4, <2>1, <3>1 DEF Live
    <3>2. CASE m # t
      BY <1>1, <1>10, <1>11, <3>2 DEF Inv, ContextsKnown
    <3> QED
      BY <3>1, <3>2
  <2> QED
    BY <2>2, <2>3 DEF ContextsKnown
<1>17. SpansKnown'
  <2>1. Named(s) /\ at[r] # "new" /\ s.n \in 1 .. stage[s.run]
    <3>1. <<s.run, s.task>> = t
      BY <1>3, TaskIs
    <3> QED
      BY <1>3, <1>4, <3>1 DEF Named, Live, Inv, SpansKnown
  <2>2. \A u \in Tasks : task'[u] = "ready" => u # t /\ Call(u) # s
    BY <1>2, CallsDiffer DEF Call
  <2>3. \A x \in DOMAIN parent' : Named(x) /\ at[x.run] # "new"
                                  /\ (x.kind # "request" => x.n \in 1 .. stage[x.run])
    BY <1>3, <1>7, <2>1 DEF Inv, SpansKnown
  <2>4. \A u \in Tasks : task'[u] = "ready" => Call(u) \notin DOMAIN parent'
    BY <1>2, <1>7, <2>2 DEF Inv, SpansKnown
  <2>5. \A q \in Runs : Live(q) => stage[q] >= 1
    BY DEF Inv, SpansKnown
  <2>6. \A q \in Runs : Live(q) /\ Scene(q) \in DOMAIN parent' => Scene(q) \in open'
    BY <1>7, <1>8 DEF Inv, SpansKnown
  <2> QED
    BY <1>1, <1>2, <2>3, <2>4, <2>5, <2>6 DEF SpansKnown, Named
<1>18. OpenKnown'
  <2>1. \A x \in open : x.kind = "llm" => <<x.run, x.task>> \in Tasks
    BY DEF Inv, TypeOK, SpansKnown, Named
  <2>2. \A x \in open : x.kind = "llm" => Active(<<x.run, x.task>>)'
    BY <1>2, <1>10, <2>1 DEF Inv, OpenKnown
  <2>3. Active(<<s.run, s.task>>)'
    BY <1>2, <1>3, TaskIs DEF Active
  <2>4. \A u \in Tasks : Active(u)' => Call(u) \in open'
    BY <1>1, <1>2 DEF Inv, OpenKnown
  <2>5. \A q \in Runs : RequestSpan(q) \in open' <=> RequestSpan(q) \in open
    BY <1>1, <1>8
  <2>6. \A x \in open' : x.kind = "stage" => Live(x.run) /\ x.n = stage[x.run]
    BY <1>1, <1>3 DEF Inv, OpenKnown
  <2>7. \A x \in open' : x.kind = "llm" => x.n = stage[x.run] /\ Active(<<x.run, x.task>>)'
    <3>1. \A x \in open : x.kind = "llm" => x.n = stage[x.run] /\ Active(<<x.run, x.task>>)'
      BY <2>2 DEF Inv, OpenKnown
    <3>2. s.n = stage[s.run] /\ Active(<<s.run, s.task>>)'
      BY <1>3, <2>3
    <3> SUFFICES ASSUME NEW x \in open', x.kind = "llm"
                 PROVE  x.n = stage[x.run] /\ Active(<<x.run, x.task>>)'
      OBVIOUS
    <3>3. CASE x = s
      BY <3>2, <3>3 DEF Active
    <3>4. CASE x \in open
      BY <3>1, <3>4 DEF Active
    <3> QED
      BY <1>1, <3>3, <3>4
  <2> QED
    BY <1>1, <1>2, <2>4, <2>5, <2>6, <2>7 DEF Inv, OpenKnown
<1> QED
  BY <1>12, <1>13, <1>14, <1>15, <1>16, <1>17, <1>18 DEF Inv

LEMMA CallChargedStep ==
  ASSUME Inv, NEW t \in Tasks, CallCharged(t)
  PROVE  Inv'
<1> PICK r \in Runs : r = t[1]
  BY TaskIs
<1> PICK s : s = Call(t)
  OBVIOUS
<1>1. /\ task[t] = "calling" /\ task' = [task EXCEPT ![t] = "charged"]
      /\ priced' = priced \union {s} /\ counter' = counter + 1
      /\ bill' = [bill EXCEPT ![ctx[t].sink] = @ + 1]
      /\ UNCHANGED <<at, stage, ctx, parent, open, told>> /\ at[r] \in {"solo", "gather"}
  BY DEF CallCharged, Call, Busy
<1>2. /\ task'[t] = "charged"
      /\ \A u \in Tasks : u # t => Active(u)' = Active(u) /\ Idle(u)' = Idle(u)
                                   /\ task'[u] = task[u]
      /\ \A u : Call(u)' = Call(u)
      /\ \A q : Live(q)' = Live(q) /\ Scene(q)' = Scene(q)
  BY <1>1, TaskStep
<1>3. /\ s \in Spans /\ s.run = r /\ s.kind = "llm"
  BY CallIs DEF Inv
<1>4. /\ Active(t) /\ Active(t)' /\ ~Idle(t) /\ ~Idle(t)'
  BY <1>1, <1>2 DEF Active, Idle
<1>5. \A u \in Tasks : Active(u)' = Active(u) /\ Idle(u)' = Idle(u)
  BY <1>1, <1>2 DEF Active, Idle
<1>6. \A u \in Tasks : StackOf(u)' = StackOf(u)
  BY <1>1, <1>2, <1>5 DEF StackOf, Base
<1>7. ctx[t].sink = r
  <2>1. ctx[t] = Own(r, StackOf(t))
    BY <1>4 DEF Inv, ContextsKnown
  <2> QED
    BY <2>1 DEF Own
<1>8. s \notin priced /\ s \in open /\ s \in DOMAIN parent
  BY <1>1, <1>4 DEF Inv, TypeOK, PricesKnown, OpenKnown
<1>9. TypeOK'
  BY <1>1, <1>7, <1>8 DEF Inv, TypeOK
<1>10. OneTracePerRun'
  BY <1>1 DEF Inv, OneTracePerRun
<1>11. CostsAgree'
  <2>1. /\ IsFiniteSet(priced) /\ counter = Cardinality(priced) /\ bill \in [Runs -> Nat]
        /\ \A q \in Runs : /\ bill[q] = Cardinality({x \in priced : x.run = q})
                           /\ at[q] = "ended" => told[q] = bill[q]
    BY DEF Inv, PricesKnown, CostsAgree, TypeOK
  <2>2. counter' = Cardinality(priced')
    BY <1>1, <1>8, <2>1, FS_AddElement
  <2>3. \A q \in Runs : bill'[q] = Cardinality({x \in priced' : x.run = q})
    <3>1. bill'[r] = bill[r] + 1 /\ \A q \in Runs : q # r => bill'[q] = bill[q]
      BY <1>1, <1>7, <2>1
    <3>2. \A q \in Runs : q # r => {x \in priced' : x.run = q} = {x \in priced : x.run = q}
      BY <1>1, <1>3
    <3> DEFINE mine == {x \in priced : x.run = r}
    <3>3. {x \in priced' : x.run = r} = mine \union {s}
      BY <1>1, <1>3
    <3>4. IsFiniteSet(mine) /\ s \notin mine
      BY <1>8, <2>1, FS_Subset
    <3>5. Cardinality(mine \union {s}) = Cardinality(mine) + 1
      BY <3>4, FS_AddElement
    <3>6. bill'[r] = Cardinality({x \in priced' : x.run = r})
      BY <2>1, <3>1, <3>3, <3>5
    <3> QED
      BY <2>1, <3>1, <3>2, <3>6
  <2>4. \A q \in Runs : at'[q] = "ended" => told'[q] = bill'[q]
    BY <1>1, <1>7, <2>1
  <2> QED
    BY <2>2, <2>3, <2>4 DEF CostsAgree
<1>12. PricesKnown'
  <2>1. IsFiniteSet(priced')
    BY <1>1, FS_AddElement DEF Inv, PricesKnown
  <2>2. \A u \in Tasks : task'[u] = "calling" => u # t /\ Call(u) # s
    BY <1>2, CallsDiffer DEF Call
  <2> QED
    BY <1>1, <1>2, <2>1, <2>2 DEF Inv, PricesKnown
<1>13. ContextsKnown'
  BY <1>1, <1>2, <1>5, <1>6, TaskIs DEF Inv, ContextsKnown
<1>14. SpansKnown'
  BY <1>1, <1>2 DEF Inv, SpansKnown, Named
<1>15. OpenKnown'
  <2>1. \A x \in open : x.kind = "llm" => <<x.run, x.task>> \in Tasks
    BY DEF Inv, TypeOK, SpansKnown, Named
  <2> QED
    BY <1>1, <1>2, <1>5, <2>1 DEF Inv, OpenKnown
<1> QED
  BY <1>9, <1>10, <1>11, <1>12, <1>13, <1>14, <1>15 DEF Inv

LEMMA CallLeavesStep ==
  ASSUME Inv, NEW t \in Tasks, CallLeaves(t)
  PROVE  Inv'
<1> PICK r \in Runs : r = t[1]
  BY TaskIs
<1> PICK s : s = Call(t)
  OBVIOUS
<1>1. /\ task[t] \in {"calling", "charged"} /\ task' = [task EXCEPT ![t] = "done"]
      /\ open' = open \ {s} /\ ctx' = Leaving(t)
      /\ UNCHANGED <<at, stage, parent, priced, bill, told, counter>>
  BY DEF CallLeaves, Call
<1>2. /\ task'[t] = "done"
      /\ \A u \in Tasks : u # t => Active(u)' = Active(u) /\ Idle(u)' = Idle(u)
                                   /\ task'[u] = task[u]
      /\ \A u : Call(u)' = Call(u)
      /\ \A q : Live(q)' = Live(q) /\ Scene(q)' = Scene(q)
  BY <1>1, TaskStep
<1>3. /\ s \in Spans /\ s.run = r /\ s.kind = "llm" /\ s.task = t[2]
  BY CallIs DEF Inv
<1>4. /\ Active(t) /\ ~Active(t)' /\ ~Idle(t) /\ Idle(t)'
  BY <1>1, <1>2 DEF Active, Idle
<1>5. Live(r) /\ ctx[t] = Own(r, Append(Base(r), s))
  BY <1>4 DEF Inv, ContextsKnown, StackOf
<1>6. \A q, n : /\ StageSpan(q, n) # s /\ RequestSpan(q) # s /\ Scene(q) # s
                /\ Scene(q) \in open' <=> Scene(q) \in open
  BY <1>1, <1>3 DEF StageSpan, RequestSpan, Scene
<1>7. \A q : Base(q)' = Base(q)
  BY <1>2, <1>6 DEF Base
<1>8. StackOf(t)' = Base(r) /\ \A u \in Tasks : u # t => StackOf(u)' = StackOf(u)
  BY <1>2, <1>4, <1>7 DEF StackOf
<1>9. Base(r) \in Seq(Spans) /\ Front(Append(Base(r), s)) = Base(r)
  BY <1>3, BaseIs, Pushed DEF Inv
<1>10. ctx' = [ctx EXCEPT ![t] = Own(r, Base(r))]
  <2> PICK base, top : base = Base(r) /\ top = Append(base, s)
    OBVIOUS
  <2>1. [Own(r, top) EXCEPT !.stack = base] = Own(r, base) /\ Own(r, top).stack = top
    BY ONLY OwnIs, Zenon
  <2>2. ctx' = [ctx EXCEPT ![t] = [ctx[t] EXCEPT !.stack = Front(ctx[t].stack)]]
    BY <1>1 DEF Leaving
  <2>3. ctx[t] = Own(r, top) /\ Front(top) = base
    BY <1>5, <1>9
  <2>4. Front(ctx[t].stack) = base
    BY <2>1, <2>3
  <2>5. [ctx[t] EXCEPT !.stack = Front(ctx[t].stack)] = Own(r, base)
    BY <2>1, <2>3, <2>4
  <2> QED
    BY <2>2, <2>5
<1>11. ctx'[t] = Own(r, Base(r)) /\ \A u \in Tasks : u # t => ctx'[u] = ctx[u]
  BY <1>10 DEF Inv, TypeOK
<1>12. TypeOK'
  <2>1. Own(r, Base(r)) \in [stack : Seq(Spans), sink : Runs \union {Nobody}, cid : Runs \union {Nobody}]
    BY <1>9, OwnTyped
  <2> QED
    BY <1>1, <1>10, <2>1 DEF Inv, TypeOK
<1>13. OneTracePerRun' /\ CostsAgree'
  BY <1>1 DEF Inv, OneTracePerRun, CostsAgree
<1>14. PricesKnown'
  BY <1>1, <1>2 DEF Inv, PricesKnown
<1>15. ContextsKnown'
  <2>1. \A u \in Tasks : ~Idle(u)' => Live(u[1])' /\ ctx'[u] = Own(u[1], StackOf(u)')
    BY <1>2, <1>4, <1>8, <1>11 DEF Inv, ContextsKnown
  <2>2. \A q \in Runs : ctx'[Main(q)] = IF at'[q] \in {"new", "ended"} THEN NoContext
                                        ELSE Own(q, StackOf(Main(q))')
    <3> SUFFICES ASSUME NEW q \in Runs
                 PROVE  ctx'[Main(q)] = IF at'[q] \in {"new", "ended"} THEN NoContext
                                        ELSE Own(q, StackOf(Main(q))')
      OBVIOUS
    <3> PICK m \in Tasks : m = Main(q) /\ m[1] = q
      BY TaskIs
    <3>1. CASE m = t
      BY <1>1, <1>5, <1>8, <1>11, <3>1 DEF Live
    <3>2. CASE m # t
      BY <1>1, <1>8, <1>11, <3>2 DEF Inv, ContextsKnown
    <3> QED
      BY <3>1, <3>2
  <2> QED
    BY <2>1, <2>2 DEF ContextsKnown
<1>16. SpansKnown'
  BY <1>1, <1>2, <1>6 DEF Inv, SpansKnown, Named
<1>17. OpenKnown'
  <2>1. \A x \in open : x.kind = "llm" => <<x.run, x.task>> \in Tasks /\ x = Call(<<x.run, x.task>>)
    <3> SUFFICES ASSUME NEW x \in open, x.kind = "llm"
                 PROVE  <<x.run, x.task>> \in Tasks /\ x = Call(<<x.run, x.task>>)
      OBVIOUS
    <3>1. <<x.run, x.task>> \in Tasks /\ x \in Spans /\ x.n = stage[x.run]
      BY DEF Inv, TypeOK, SpansKnown, Named, OpenKnown
    <3> QED
      BY <3>1 DEF Call, CallSpan, Spans
  <2>2. \A x \in open' : x.kind = "llm" => Active(<<x.run, x.task>>)'
    <3> SUFFICES ASSUME NEW x \in open', x.kind = "llm"
                 PROVE  Active(<<x.run, x.task>>)'
      OBVIOUS
    <3>1. <<x.run, x.task>> # t /\ <<x.run, x.task>> \in Tasks /\ task[<<x.run, x.task>>] \in {"calling", "charged"}
      BY <1>1, <2>1 DEF Inv, OpenKnown, Active
    <3> QED
      BY <1>2, <3>1 DEF Active
  <2>3. \A u \in Tasks : Active(u)' => Call(u) \in open'
    <3>1. \A u \in Tasks : u # t => Call(u) # s
      BY CallsDiffer DEF Call
    <3> QED
      BY <1>1, <1>2, <1>4, <3>1 DEF Inv, OpenKnown
  <2>4. \A q \in Runs : RequestSpan(q) \in open' <=> RequestSpan(q) \in open
    BY <1>1, <1>6
  <2> QED
    BY <1>1, <1>2, <2>2, <2>3, <2>4 DEF Inv, OpenKnown
<1> QED
  BY <1>12, <1>13, <1>14, <1>15, <1>16, <1>17 DEF Inv

\* The spans of a run that is not in a stage.
LEMMA BetweenStages ==
  ASSUME Inv, NEW r \in Runs, ~Live(r)
  PROVE  /\ \A t \in Tasks : t[1] = r => Idle(t) /\ ~Active(t)
         /\ Scene(r) \notin open /\ Base(r) = <<RequestSpan(r)>>
         /\ StackOf(Main(r)) = <<RequestSpan(r)>>
<1>1. \A t \in Tasks : t[1] = r => Idle(t) /\ ~Active(t)
  BY DEF Inv, ContextsKnown, Idle, Active
<1>2. Scene(r) \notin open
  BY DEF Inv, OpenKnown, Scene, StageSpan
<1>3. Base(r) = <<RequestSpan(r)>>
  BY <1>2 DEF Base
<1>4. StackOf(Main(r)) = <<RequestSpan(r)>>
  BY <1>1, <1>3, TaskIs DEF StackOf
<1> QED
  BY <1>1, <1>2, <1>3, <1>4

LEMMA RequestSpanIs ==
  ASSUME NEW r \in Runs
  PROVE  /\ RequestSpan(r) \in Spans /\ RequestSpan(r).run = r
         /\ RequestSpan(r).kind = "request" /\ Named(RequestSpan(r))
         /\ \A q, n : StageSpan(q, n) # RequestSpan(r)
         /\ \A t, n : CallSpan(t, n) # RequestSpan(r)
         /\ \A q : q # r => RequestSpan(q) # RequestSpan(r)
  BY SpanIs DEF RequestSpan, StageSpan, CallSpan, Named

LEMMA ArriveStep ==
  ASSUME Inv, NEW r \in Runs, Arrive(r)
  PROVE  Inv'
<1> PICK s : s = RequestSpan(r)
  OBVIOUS
<1>1. /\ at[r] = "new" /\ at' = [at EXCEPT ![r] = "between"] /\ ctx' = RunContext(r)
      /\ Started(s, NoSpan) /\ open' = open \union {s}
      /\ UNCHANGED <<stage, task, priced, bill, told, counter>>
  BY DEF Arrive
<1>2. /\ s \in Spans /\ s.run = r /\ s.kind = "request" /\ Named(s)
      /\ \A q, n : StageSpan(q, n) # s /\ Scene(q) # s
      /\ \A t : Call(t) # s
      /\ \A q : q # r => RequestSpan(q) # s
  BY RequestSpanIs DEF Scene, Call
<1>3. /\ ~Live(r) /\ ~Live(r)' /\ at'[r] = "between"
      /\ \A q \in Runs : q # r => at'[q] = at[q]
      /\ \A q \in Runs : Live(q)' <=> Live(q)
  BY <1>1 DEF Inv, TypeOK, Live
<1>4. /\ \A t : Active(t)' = Active(t) /\ Idle(t)' = Idle(t) /\ Call(t)' = Call(t)
      /\ \A q : Scene(q)' = Scene(q)
  BY <1>1 DEF Active, Idle, Call, Scene
<1>5. \A q : Base(q)' = Base(q)
  BY <1>1, <1>2, <1>4 DEF Base
<1>6. \A t : StackOf(t)' = StackOf(t)
  BY <1>4, <1>5 DEF StackOf
<1>7. \A t \in Tasks : t[1] = r => Idle(t)
  BY <1>3, BetweenStages
<1>8. StackOf(Main(r)) = <<s>>
  BY <1>3, BetweenStages
<1>9. /\ DOMAIN parent' = DOMAIN parent \union {s} /\ s \notin DOMAIN parent
      /\ parent'[s] = NoSpan /\ \A x \in DOMAIN parent : parent'[x] = parent[x]
  <2>1. s \notin DOMAIN parent
    BY <1>1, <1>2 DEF Inv, SpansKnown
  <2> QED
    BY <1>1, <2>1 DEF Started
<1>10. ctx' = [ctx EXCEPT ![Main(r)] = Own(r, <<s>>)]
  BY <1>1 DEF RunContext, Own
<1>11. /\ ctx'[Main(r)] = Own(r, <<s>>)
       /\ \A t \in Tasks : t # Main(r) => ctx'[t] = ctx[t]
  BY <1>10, TaskIs DEF Inv, TypeOK
<1>12. TypeOK'
  <2>1. Own(r, <<s>>) \in [stack : Seq(Spans), sink : Runs \union {Nobody}, cid : Runs \union {Nobody}]
    <3> PICK stack : stack = <<s>>
      OBVIOUS
    <3>1. stack \in Seq(Spans)
      BY <1>2
    <3> QED
      BY <3>1, OwnTyped
  <2> QED
    BY <1>1, <1>2, <1>9, <1>10, <2>1 DEF Inv, TypeOK
<1>13. OneTracePerRun'
  <2>1. \A q, n : StageSpan(q, n) \in DOMAIN parent' <=> StageSpan(q, n) \in DOMAIN parent
    BY <1>2, <1>9
  <2> QED
    BY <1>2, <1>9, <2>1 DEF Inv, OneTracePerRun
<1>14. CostsAgree' /\ PricesKnown'
  BY <1>1, <1>3, <1>4 DEF Inv, CostsAgree, PricesKnown
<1>15. ContextsKnown'
  <2>1. \A t \in Tasks : ~Idle(t)' => Live(t[1])' /\ ctx'[t] = Own(t[1], StackOf(t)')
    BY <1>3, <1>4, <1>6, <1>7, <1>11, TaskIs DEF Inv, ContextsKnown
  <2>2. \A q \in Runs : ctx'[Main(q)] = IF at'[q] \in {"new", "ended"} THEN NoContext
                                        ELSE Own(q, StackOf(Main(q))')
    <3> SUFFICES ASSUME NEW q \in Runs
                 PROVE  ctx'[Main(q)] = IF at'[q] \in {"new", "ended"} THEN NoContext
                                        ELSE Own(q, StackOf(Main(q))')
      OBVIOUS
    <3> PICK m \in Tasks : m = Main(q) /\ m[1] = q /\ (q # r => m # Main(r))
      BY TaskIs
    <3>1. CASE q = r
      BY <1>3, <1>6, <1>8, <1>11, <3>1
    <3>2. CASE q # r
      BY <1>3, <1>6, <1>11, <3>2 DEF Inv, ContextsKnown
    <3> QED
      BY <3>1, <3>2
  <2> QED
    BY <2>1, <2>2 DEF ContextsKnown
<1>16. SpansKnown'
  <2>1. \A x \in DOMAIN parent' : Named(x) /\ at'[x.run] # "new"
                                  /\ (x.kind # "request" => x.n \in 1 .. stage[x.run])
    <3>1. \A x \in DOMAIN parent : x.run \in Runs
      BY DEF Inv, TypeOK, Spans
    <3> QED
      BY <1>2, <1>3, <1>9, <3>1 DEF Inv, SpansKnown
  <2>2. \A t \in Tasks : task'[t] = "ready" => Call(t) \notin DOMAIN parent'
    BY <1>1, <1>2, <1>9 DEF Inv, SpansKnown
  <2>3. \A q \in Runs : Live(q) => stage[q] >= 1
    BY DEF Inv, SpansKnown
  <2>4. \A q \in Runs : Live(q) /\ Scene(q) \in DOMAIN parent' => Scene(q) \in open'
    BY <1>1, <1>2, <1>9 DEF Inv, SpansKnown
  <2> QED
    BY <1>1, <1>3, <1>4, <2>1, <2>2, <2>3, <2>4 DEF SpansKnown, Named
<1>17. OpenKnown'
  <2>1. \A q \in Runs : RequestSpan(q) \in open' <=> at'[q] \notin {"new", "ended"}
    BY <1>1, <1>2, <1>3 DEF Inv, OpenKnown
  <2>2. \A x \in open : x.run \in Runs
    BY DEF Inv, TypeOK, Spans
  <2>3. \A x \in open' : x.kind \in {"stage", "llm"} => x \in open
    BY <1>1, <1>2
  <2>4. \A x \in open' : x.kind = "stage" => Live(x.run)' /\ x.n = stage'[x.run]
    BY <1>1, <1>3, <2>2, <2>3 DEF Inv, OpenKnown
  <2>5. \A x \in open' : x.kind = "llm" => x.n = stage'[x.run] /\ Active(<<x.run, x.task>>)'
    BY <1>1, <2>3 DEF Inv, OpenKnown, Active
  <2>6. \A t \in Tasks : Active(t)' => Call(t)' \in open'
    BY <1>1, <1>4 DEF Inv, OpenKnown
  <2> QED
    BY <2>1, <2>4, <2>5, <2>6 DEF OpenKnown
<1> QED
  BY <1>12, <1>13, <1>14, <1>15, <1>16, <1>17 DEF Inv

LEMMA EndStageStep ==
  ASSUME Inv, NEW r \in Runs, EndStage(r)
  PROVE  Inv'
<1> PICK s : s = Scene(r)
  OBVIOUS
<1>1. /\ Live(r) /\ at' = [at EXCEPT ![r] = IF @ = "cancelled" THEN "late" ELSE "between"]
      /\ \A t \in Tasks : t[1] = r => Idle(t)
      /\ \/ s \in open /\ open' = open \ {s} /\ ctx' = Leaving(Main(r))
         \/ s \notin open /\ UNCHANGED <<open, ctx>>
      /\ UNCHANGED <<stage, task, parent, priced, bill, told, counter>>
  BY DEF EndStage, Scene, Live, Quiet, Idle
<1>2. /\ at'[r] \in {"between", "late"} /\ ~Live(r)'
      /\ \A q \in Runs : q # r => at'[q] = at[q] /\ Live(q)' = Live(q)
  BY <1>1 DEF Inv, TypeOK, Live
<1>3. /\ s \in Spans /\ s.kind = "stage" /\ s.run = r
      /\ \A q : RequestSpan(q) # s /\ (q # r => Scene(q) # s)
      /\ \A t : Call(t) # s
  <2>1. stage[r] \in Nat
    BY ScopeAssumption DEF Inv, TypeOK
  <2>2. s \in Spans
    BY <2>1, SpanIs DEF Scene
  <2> QED
    BY <2>2 DEF Scene, StageSpan, RequestSpan, Call, CallSpan
<1>4. /\ \A t : Active(t)' = Active(t) /\ Idle(t)' = Idle(t) /\ Call(t)' = Call(t)
      /\ \A q : Scene(q)' = Scene(q)
  BY <1>1 DEF Active, Idle, Call, Scene
<1>5. /\ open' = open \ {s} /\ \A q \in Runs : q # r => Base(q)' = Base(q)
      /\ Base(r)' = <<RequestSpan(r)>>
  BY <1>1, <1>3, <1>4 DEF Base
<1>6. \A t \in Tasks : t[1] = r => ~Active(t)
  BY <1>1 DEF Idle, Active
<1>7. /\ \A t \in Tasks : t[1] # r => StackOf(t)' = StackOf(t)
      /\ StackOf(Main(r))' = <<RequestSpan(r)>> /\ StackOf(Main(r)) = Base(r)
  BY <1>4, <1>5, <1>6, TaskIs DEF StackOf
<1>8. ctx' = [ctx EXCEPT ![Main(r)] = Own(r, <<RequestSpan(r)>>)]
  <2>1. ctx[Main(r)] = Own(r, Base(r))
    BY <1>1, <1>7 DEF Inv, ContextsKnown, Live
  <2>2. CASE s \in open /\ ctx' = Leaving(Main(r))
    <3> PICK base, above : base = <<RequestSpan(r)>> /\ above = <<RequestSpan(r), s>>
      OBVIOUS
    <3>1. Base(r) = above /\ Front(above) = base
      <4>1. Base(r) = above
        BY <2>2 DEF Base
      <4>2. s \in Spans /\ RequestSpan(r) \in Spans
        BY <1>3, SpanIs
      <4> QED
        BY <4>1, <4>2, Popped
    <3>2. [Own(r, above) EXCEPT !.stack = base] = Own(r, base) /\ Own(r, above).stack = above
      BY ONLY OwnIs, Zenon
    <3>3. ctx' = [ctx EXCEPT ![Main(r)] = [ctx[Main(r)] EXCEPT !.stack = Front(ctx[Main(r)].stack)]]
      BY <2>2 DEF Leaving
    <3>4. Front(ctx[Main(r)].stack) = base
      BY <2>1, <3>1, <3>2
    <3>5. [ctx[Main(r)] EXCEPT !.stack = Front(ctx[Main(r)].stack)] = Own(r, base)
      BY <2>1, <3>1, <3>2, <3>4
    <3> QED
      BY <3>3, <3>5
  <2>3. CASE s \notin open /\ UNCHANGED ctx
    <3>1. ctx[Main(r)] = Own(r, <<RequestSpan(r)>>)
      BY <2>1, <2>3 DEF Base
    <3> QED
      BY <2>3, <3>1, TaskIs DEF Inv, TypeOK
  <2> QED
    BY <1>1, <2>2, <2>3
<1>9. /\ ctx'[Main(r)] = Own(r, <<RequestSpan(r)>>)
      /\ \A t \in Tasks : t # Main(r) => ctx'[t] = ctx[t]
  BY <1>8, TaskIs DEF Inv, TypeOK
<1>10. TypeOK'
  <2>1. Own(r, <<RequestSpan(r)>>)
          \in [stack : Seq(Spans), sink : Runs \union {Nobody}, cid : Runs \union {Nobody}]
    <3> PICK stack : stack = <<RequestSpan(r)>>
      OBVIOUS
    <3>1. stack \in Seq(Spans)
      BY SpanIs
    <3> QED
      BY <3>1, OwnTyped
  <2> QED
    BY <1>1, <1>5, <1>8, <2>1 DEF Inv, TypeOK
<1>11. OneTracePerRun' /\ PricesKnown'
  BY <1>1, <1>4 DEF Inv, OneTracePerRun, PricesKnown
<1>12. CostsAgree'
  BY <1>1, <1>2 DEF Inv, CostsAgree
<1>13. ContextsKnown'
  <2>1. \A t \in Tasks : ~Idle(t)' => Live(t[1])' /\ ctx'[t] = Own(t[1], StackOf(t)')
    BY <1>1, <1>2, <1>4, <1>7, <1>9, TaskIs DEF Inv, ContextsKnown
  <2>2. \A q \in Runs : ctx'[Main(q)] = IF at'[q] \in {"new", "ended"} THEN NoContext
                                        ELSE Own(q, StackOf(Main(q))')
    <3> SUFFICES ASSUME NEW q \in Runs
                 PROVE  ctx'[Main(q)] = IF at'[q] \in {"new", "ended"} THEN NoContext
                                        ELSE Own(q, StackOf(Main(q))')
      OBVIOUS
    <3> PICK m \in Tasks : m = Main(q) /\ m[1] = q /\ (q # r => m # Main(r))
      BY TaskIs
    <3>1. CASE q = r
      BY <1>2, <1>7, <1>9, <3>1
    <3>2. CASE q # r
      BY <1>2, <1>7, <1>9, <3>2 DEF Inv, ContextsKnown
    <3> QED
      BY <3>1, <3>2
  <2> QED
    BY <2>1, <2>2 DEF ContextsKnown
<1>14. SpansKnown'
  <2>1. \A x \in DOMAIN parent : x.run \in Runs
    BY DEF Inv, TypeOK, Spans
  <2>2. \A q \in Runs : Live(q)' /\ Scene(q) \in DOMAIN parent => Scene(q) \in open'
    BY <1>2, <1>3, <1>5 DEF Inv, SpansKnown
  <2> QED
    BY <1>1, <1>2, <1>4, <2>1, <2>2 DEF Inv, SpansKnown, Named
<1>15. OpenKnown'
  <2>1. \A q \in Runs : RequestSpan(q) \in open' <=> at'[q] \notin {"new", "ended"}
    BY <1>1, <1>2, <1>3, <1>5 DEF Inv, OpenKnown, Live
  <2>2. \A x \in open' : x.kind = "stage" => Live(x.run)' /\ x.n = stage'[x.run]
    <3> SUFFICES ASSUME NEW x \in open', x.kind = "stage"
                 PROVE  Live(x.run)' /\ x.n = stage'[x.run]
      OBVIOUS
    <3>1. /\ x \in open /\ x # s /\ x.run \in Runs /\ x.n = stage[x.run]
          /\ x = StageSpan(x.run, x.n) /\ Live(x.run)
      <4>1. x \in open /\ x # s
        BY <1>5
      <4>2. x \in DOMAIN parent /\ x.run \in Runs
        BY <4>1 DEF Inv, TypeOK, Spans
      <4>3. x = StageSpan(x.run, x.n)
        BY <4>2 DEF Inv, SpansKnown, Named
      <4>4. Live(x.run) /\ x.n = stage[x.run]
        BY <4>1 DEF Inv, OpenKnown
      <4> QED
        BY <4>1, <4>2, <4>3, <4>4
    <3>2. x.run # r
      BY <3>1 DEF Scene
    <3> QED
      BY <1>1, <1>2, <3>1, <3>2
  <2>3. \A x \in open' : x.kind = "llm" => x.n = stage'[x.run] /\ Active(<<x.run, x.task>>)'
    BY <1>1, <1>5 DEF Inv, OpenKnown, Active
  <2>4. \A t \in Tasks : Active(t)' => Call(t)' \in open'
    BY <1>3, <1>4, <1>5 DEF Inv, OpenKnown
  <2> QED
    BY <2>1, <2>2, <2>3, <2>4 DEF OpenKnown
<1> QED
  BY <1>10, <1>11, <1>12, <1>13, <1>14, <1>15 DEF Inv

LEMMA EndRunStep ==
  ASSUME Inv, NEW r \in Runs, EndRun(r)
  PROVE  Inv'
<1> PICK s : s = RequestSpan(r)
  OBVIOUS
<1>1. /\ at[r] \in {"between", "late"} /\ at' = [at EXCEPT ![r] = "ended"]
      /\ open' = open \ {s} /\ ctx' = EndContext(r) /\ told' = [told EXCEPT ![r] = bill[r]]
      /\ UNCHANGED <<stage, task, parent, priced, bill, counter>>
  BY DEF EndRun
<1>2. /\ at'[r] = "ended" /\ ~Live(r) /\ ~Live(r)'
      /\ \A q \in Runs : q # r => at'[q] = at[q]
      /\ \A q \in Runs : Live(q)' <=> Live(q)
  BY <1>1 DEF Inv, TypeOK, Live
<1>3. /\ s \in Spans /\ s.kind = "request"
      /\ \A q, n : StageSpan(q, n) # s /\ Scene(q) # s
      /\ \A t : Call(t) # s
      /\ \A q : q # r => RequestSpan(q) # s
  BY RequestSpanIs DEF Scene, Call
<1>4. /\ \A t : Active(t)' = Active(t) /\ Idle(t)' = Idle(t) /\ Call(t)' = Call(t)
      /\ \A q : Scene(q)' = Scene(q)
  BY <1>1 DEF Active, Idle, Call, Scene
<1>5. \A q : Base(q)' = Base(q)
  BY <1>1, <1>3, <1>4 DEF Base
<1>6. \A t : StackOf(t)' = StackOf(t)
  BY <1>4, <1>5 DEF StackOf
<1>7. /\ \A t \in Tasks : t[1] = r => Idle(t)
      /\ ctx[Main(r)] = Own(r, <<s>>)
  BY <1>1, <1>2, BetweenStages DEF Inv, ContextsKnown
<1>8. ctx' = [ctx EXCEPT ![Main(r)] = NoContext]
  <2>1. Front(<<s>>) = <<>>
    BY DEF Front
  <2>2. ctx[Main(r)].stack = <<s>>
    BY <1>7 DEF Own
  <2> QED
    BY <1>1, <2>1, <2>2 DEF EndContext, NoContext
<1>9. /\ ctx'[Main(r)] = NoContext
      /\ \A t \in Tasks : t # Main(r) => ctx'[t] = ctx[t]
  BY <1>8, TaskIs DEF Inv, TypeOK
<1>10. TypeOK'
  <2>1. NoContext \in [stack : Seq(Spans), sink : Runs \union {Nobody}, cid : Runs \union {Nobody}]
    BY DEF NoContext
  <2> QED
    BY <1>1, <1>8, <2>1 DEF Inv, TypeOK
<1>11. OneTracePerRun' /\ PricesKnown'
  BY <1>1, <1>4 DEF Inv, OneTracePerRun, PricesKnown
<1>12. CostsAgree'
  BY <1>1, <1>2 DEF Inv, TypeOK, CostsAgree
<1>13. ContextsKnown'
  <2>1. \A t \in Tasks : ~Idle(t)' => Live(t[1])' /\ ctx'[t] = Own(t[1], StackOf(t)')
    BY <1>2, <1>4, <1>6, <1>7, <1>9, TaskIs DEF Inv, ContextsKnown
  <2>2. \A q \in Runs : ctx'[Main(q)] = IF at'[q] \in {"new", "ended"} THEN NoContext
                                        ELSE Own(q, StackOf(Main(q))')
    <3> SUFFICES ASSUME NEW q \in Runs
                 PROVE  ctx'[Main(q)] = IF at'[q] \in {"new", "ended"} THEN NoContext
                                        ELSE Own(q, StackOf(Main(q))')
      OBVIOUS
    <3> PICK m \in Tasks : m = Main(q) /\ m[1] = q /\ (q # r => m # Main(r))
      BY TaskIs
    <3>1. CASE q = r
      BY <1>2, <1>9, <3>1
    <3>2. CASE q # r
      BY <1>2, <1>6, <1>9, <3>2 DEF Inv, ContextsKnown
    <3> QED
      BY <3>1, <3>2
  <2> QED
    BY <2>1, <2>2 DEF ContextsKnown
<1>14. SpansKnown'
  <2>1. \A x \in DOMAIN parent : x.run \in Runs
    BY DEF Inv, TypeOK, Spans
  <2>2. \A q \in Runs : Live(q)' /\ Scene(q) \in DOMAIN parent => Scene(q) \in open'
    BY <1>1, <1>2, <1>3 DEF Inv, SpansKnown
  <2> QED
    BY <1>1, <1>2, <1>4, <2>1, <2>2 DEF Inv, SpansKnown, Named
<1>15. OpenKnown'
  <2>1. \A q \in Runs : RequestSpan(q) \in open' <=> at'[q] \notin {"new", "ended"}
    BY <1>1, <1>2, <1>3 DEF Inv, OpenKnown
  <2>2. \A x \in open : x.run \in Runs
    BY DEF Inv, TypeOK, Spans
  <2>3. \A x \in open' : x.kind = "stage" => Live(x.run)' /\ x.n = stage'[x.run]
    BY <1>1, <1>2, <2>2 DEF Inv, OpenKnown
  <2>4. \A x \in open' : x.kind = "llm" => x.n = stage'[x.run] /\ Active(<<x.run, x.task>>)'
    BY <1>1 DEF Inv, OpenKnown, Active
  <2>5. \A t \in Tasks : Active(t)' => Call(t)' \in open'
    BY <1>1, <1>3, <1>4 DEF Inv, OpenKnown
  <2> QED
    BY <2>1, <2>3, <2>4, <2>5 DEF OpenKnown
<1> QED
  BY <1>10, <1>11, <1>12, <1>13, <1>14, <1>15 DEF Inv

LEMMA BeginStageStep ==
  ASSUME Inv, NEW r \in Runs, BeginStage(r)
  PROVE  Inv'
<1> PICK s : s = StageSpan(r, stage[r] + 1)
  OBVIOUS
<1> PICK traced \in BOOLEAN : \E after :
      /\ after = IF traced THEN Entering(Main(r), s) ELSE ctx
      /\ \/ traced /\ Started(s, Top(Main(r))) /\ open' = open \union {s}
         \/ ~traced /\ UNCHANGED <<parent, open>>
      /\ \/ /\ at' = [at EXCEPT ![r] = "solo"]
            /\ task' = [task EXCEPT ![Main(r)] = "ready"]
            /\ ctx' = after
         \/ /\ at' = [at EXCEPT ![r] = "gather"]
            /\ task' = [t \in Tasks |-> IF t \in Children(r) THEN "ready" ELSE task[t]]
            /\ ctx' = [t \in Tasks |-> IF t \in Children(r) THEN after[Main(r)] ELSE after[t]]
  BY DEF BeginStage
<1> PICK after :
      /\ after = IF traced THEN Entering(Main(r), s) ELSE ctx
      /\ \/ traced /\ Started(s, Top(Main(r))) /\ open' = open \union {s}
         \/ ~traced /\ UNCHANGED <<parent, open>>
      /\ \/ /\ at' = [at EXCEPT ![r] = "solo"]
            /\ task' = [task EXCEPT ![Main(r)] = "ready"]
            /\ ctx' = after
         \/ /\ at' = [at EXCEPT ![r] = "gather"]
            /\ task' = [t \in Tasks |-> IF t \in Children(r) THEN "ready" ELSE task[t]]
            /\ ctx' = [t \in Tasks |-> IF t \in Children(r) THEN after[Main(r)] ELSE after[t]]
  OBVIOUS
<1>1. /\ at[r] = "between" /\ stage[r] < MaxStages[r] /\ stage' = [stage EXCEPT ![r] = @ + 1]
      /\ UNCHANGED <<priced, bill, told, counter>>
  BY DEF BeginStage
<1>2. stage[r] \in Nat /\ MaxStages[r] \in Nat
  BY ScopeAssumption DEF Inv, TypeOK
<1>3. /\ ~Live(r) /\ Live(r)' /\ at'[r] \in {"solo", "gather"}
      /\ \A q \in Runs : q # r => at'[q] = at[q] /\ (Live(q)' <=> Live(q))
  BY <1>1 DEF Inv, TypeOK, Live
<1>4. stage'[r] = stage[r] + 1 /\ \A q \in Runs : q # r => stage'[q] = stage[q]
  BY <1>1, <1>2 DEF Inv, TypeOK
<1>5. /\ s \in Spans /\ s.kind = "stage" /\ s.run = r /\ s.n = stage[r] + 1 /\ Named(s)
      /\ Scene(r)' = s /\ s \notin DOMAIN parent /\ s \notin open
      /\ \A q : RequestSpan(q) # s
      /\ \A q, n : StageSpan(q, n) = s => q = r /\ n = stage[r] + 1
      /\ \A t, n : CallSpan(t, n) # s
  <2>1. s \in Spans
    BY <1>2, SpanIs
  <2>2. s.kind = "stage" /\ s.run = r /\ s.n = stage[r] + 1 /\ Named(s)
    BY DEF StageSpan, Named
  <2>3. s \notin DOMAIN parent
    BY <1>2, <2>2 DEF Inv, SpansKnown
  <2>4. Scene(r)' = s
    BY <1>4 DEF Scene
  <2>5. /\ \A q : RequestSpan(q) # s
        /\ \A q, n : StageSpan(q, n) = s => q = r /\ n = stage[r] + 1
        /\ \A t, n : CallSpan(t, n) # s
    BY <1>2 DEF StageSpan, RequestSpan, CallSpan
  <2> QED
    BY <2>1, <2>2, <2>3, <2>4, <2>5 DEF Inv, TypeOK
<1>6. /\ \A t \in Tasks : t[1] = r => Idle(t) /\ ~Active(t)
      /\ Base(r) = <<RequestSpan(r)>> /\ StackOf(Main(r)) = <<RequestSpan(r)>>
      /\ ctx[Main(r)] = Own(r, <<RequestSpan(r)>>)
  BY <1>1, <1>3, BetweenStages DEF Inv, ContextsKnown
<1>7. /\ \A t \in Tasks : t[1] # r => task'[t] = task[t]
      /\ \A t \in Tasks : t[1] = r => task'[t] \in {"none", "ready", "done"}
      /\ \A t \in Tasks : t[1] = r /\ t # Main(r) /\ task'[t] = "ready" => t \in Children(r)
      /\ task' \in [Tasks -> {"none", "ready", "calling", "charged", "done"}]
  <2> PICK m \in Tasks : m = Main(r) /\ m[1] = r
    BY TaskIs
  <2>1. CASE task' = [task EXCEPT ![m] = "ready"]
    BY <1>6, <2>1 DEF Inv, TypeOK, Idle
  <2>2. CASE task' = [t \in Tasks |-> IF t \in Children(r) THEN "ready" ELSE task[t]]
    BY <1>6, <2>2, TaskIs DEF Inv, TypeOK, Idle
  <2> QED
    BY <2>1, <2>2
<1>8. /\ \A t \in Tasks : t[1] = r => ~Active(t)'
      /\ \A t \in Tasks : t[1] # r => (Active(t)' <=> Active(t)) /\ (Idle(t)' <=> Idle(t))
  BY <1>7 DEF Active, Idle
<1>9. /\ \A t \in Tasks : t[1] # r => Call(t)' = Call(t)
      /\ \A q \in Runs : q # r => Scene(q)' = Scene(q)
  BY <1>4, TaskIs DEF Call, Scene
<1>10. /\ open' = IF traced THEN open \union {s} ELSE open
       /\ DOMAIN parent' = IF traced THEN DOMAIN parent \union {s} ELSE DOMAIN parent
       /\ traced => parent'[s] = RequestSpan(r)
       /\ \A x \in DOMAIN parent : parent'[x] = parent[x]
  <2>1. Top(Main(r)) = RequestSpan(r)
    <3>1. ctx[Main(r)].stack = <<RequestSpan(r)>>
      BY <1>6 DEF Own
    <3> QED
      BY <3>1 DEF Top, Last
  <2> QED
    BY <1>5, <2>1 DEF Started
<1> PICK base : base = IF traced THEN <<RequestSpan(r), s>> ELSE <<RequestSpan(r)>>
  OBVIOUS
<1>11. Base(r)' = base /\ \A q \in Runs : q # r => Base(q)' = Base(q)
  BY <1>5, <1>9, <1>10 DEF Base, Scene
<1>12. /\ \A t \in Tasks : t[1] = r => StackOf(t)' = base
       /\ \A t \in Tasks : t[1] # r => StackOf(t)' = StackOf(t)
  BY <1>8, <1>9, <1>11, TaskIs DEF StackOf
<1>13. base \in Seq(Spans)
  BY <1>5, SpanIs
<1>14. after = [ctx EXCEPT ![Main(r)] = Own(r, base)]
  <2>1. CASE traced
    <3> PICK old : old = <<RequestSpan(r)>>
      OBVIOUS
    <3>1. [Own(r, old) EXCEPT !.stack = base] = Own(r, base) /\ Own(r, old).stack = old
      BY ONLY OwnIs, Zenon
    <3>2. Append(old, s) = base
      BY <1>5, <2>1, SpanIs, Paired
    <3>3. after = [ctx EXCEPT ![Main(r)] = [ctx[Main(r)] EXCEPT !.stack = Append(ctx[Main(r)].stack, s)]]
      BY <2>1 DEF Entering
    <3>4. Append(ctx[Main(r)].stack, s) = base
      BY <1>6, <3>1, <3>2
    <3>5. [ctx[Main(r)] EXCEPT !.stack = Append(ctx[Main(r)].stack, s)] = Own(r, base)
      BY <1>6, <3>1, <3>4
    <3> QED
      BY <3>3, <3>5
  <2>2. CASE ~traced
    BY <1>6, <2>2, TaskIs DEF Inv, TypeOK
  <2> QED
    BY <2>1, <2>2
<1>15. /\ ctx'[Main(r)] = Own(r, base)
       /\ \A t \in Children(r) : task'[t] = "ready" => ctx'[t] = Own(r, base)
       /\ \A t \in Tasks : t[1] # r => ctx'[t] = ctx[t]
       /\ ctx' \in [Tasks -> [stack : Seq(Spans), sink : Runs \union {Nobody},
                              cid : Runs \union {Nobody}]]
  <2>1. Own(r, base) \in [stack : Seq(Spans), sink : Runs \union {Nobody}, cid : Runs \union {Nobody}]
    BY <1>13, OwnTyped
  <2>2. /\ after \in [Tasks -> [stack : Seq(Spans), sink : Runs \union {Nobody},
                                cid : Runs \union {Nobody}]]
        /\ after[Main(r)] = Own(r, base)
        /\ \A t \in Tasks : t[1] # r => after[t] = ctx[t]
    <3> PICK C, v, m : /\ C = [stack : Seq(Spans), sink : Runs \union {Nobody},
                               cid : Runs \union {Nobody}]
                       /\ v = Own(r, base) /\ m = Main(r)
      OBVIOUS
    <3>1. ctx \in [Tasks -> C] /\ v \in C
      BY <2>1 DEF Inv, TypeOK
    <3>2. m \in Tasks /\ \A t \in Tasks : t[1] # r => t # m
      BY TaskIs
    <3>3. /\ [ctx EXCEPT ![m] = v] \in [Tasks -> C] /\ [ctx EXCEPT ![m] = v][m] = v
          /\ \A t \in Tasks : t # m => [ctx EXCEPT ![m] = v][t] = ctx[t]
      BY ONLY <3>1, <3>2, SetAt
    <3>4. after = [ctx EXCEPT ![m] = v]
      BY <1>14
    <3>5. after \in [Tasks -> C] /\ after[m] = v /\ \A t \in Tasks : t # m => after[t] = ctx[t]
      BY ONLY <3>3, <3>4
    <3> QED
      BY <3>2, <3>5
  <2>3. CASE ctx' = after /\ task' = [task EXCEPT ![Main(r)] = "ready"]
    <3> PICK m \in Tasks : m = Main(r) /\ \A t \in Children(r) : t \in Tasks /\ t # m /\ t[1] = r
      BY TaskIs
    <3>1. \A t \in Children(r) : task'[t] # "ready"
      BY <1>6, <2>3 DEF Inv, TypeOK, Idle
    <3> QED
      BY <2>2, <2>3, <3>1
  <2>4. CASE ctx' = [t \in Tasks |-> IF t \in Children(r) THEN after[Main(r)] ELSE after[t]]
    BY <2>1, <2>2, <2>4, TaskIs
  <2> QED
    BY <2>3, <2>4
<1>16. TypeOK'
  <2>1. \A q \in Runs : stage'[q] \in 0 .. MaxStages[q]
    BY <1>1, <1>2, <1>4 DEF Inv, TypeOK
  <2>2. \A x \in DOMAIN parent' : x \in Spans /\ parent'[x] \in Spans \union {NoSpan}
    BY <1>5, <1>10, SpanIs DEF Inv, TypeOK
  <2>3. at' \in [Runs -> {"new", "between", "solo", "gather", "cancelled", "late", "ended"}]
    BY DEF Inv, TypeOK
  <2>4. open' \subseteq DOMAIN parent' /\ priced' \subseteq DOMAIN parent'
    BY <1>1, <1>10 DEF Inv, TypeOK
  <2> QED
    BY <1>1, <1>7, <1>15, <2>1, <2>2, <2>3, <2>4 DEF Inv, TypeOK
<1>17. OneTracePerRun'
  <2>1. ASSUME NEW x \in DOMAIN parent
        PROVE  StageSpan(x.run, x.n) \in DOMAIN parent' /\ x.kind = "llm"
                 <=> StageSpan(x.run, x.n) \in DOMAIN parent /\ x.kind = "llm"
    <3>1. x.kind = "llm" => x.n \in 1 .. stage[x.run]
      BY DEF Inv, SpansKnown
    <3>2. x.kind = "llm" => StageSpan(x.run, x.n) # s
      BY <1>2, <1>5, <3>1
    <3> QED
      BY <1>10, <3>2
  <2> QED
    BY <1>5, <1>10, <2>1 DEF Inv, OneTracePerRun
<1>18. CostsAgree'
  BY <1>1, <1>3 DEF Inv, CostsAgree
<1>19. PricesKnown'
  <2>1. \A t \in Tasks : task'[t] = "calling" => t[1] # r
    BY <1>7
  <2> QED
    BY <1>1, <1>7, <1>9, <2>1 DEF Inv, PricesKnown
<1>20. ContextsKnown'
  <2>1. \A t \in Tasks : ~Idle(t)' => Live(t[1])' /\ ctx'[t] = Own(t[1], StackOf(t)')
    <3> SUFFICES ASSUME NEW t \in Tasks, ~Idle(t)'
                 PROVE  Live(t[1])' /\ ctx'[t] = Own(t[1], StackOf(t)')
      OBVIOUS
    <3>1. CASE t[1] = r
      <4>1. task'[t] = "ready"
        BY <1>7, <3>1 DEF Idle
      <4>2. t = Main(r) \/ t \in Children(r)
        BY <1>7, <3>1, <4>1
      <4> QED
        BY <1>3, <1>12, <1>15, <3>1, <4>1, <4>2
    <3>2. CASE t[1] # r
      BY <1>3, <1>8, <1>12, <1>15, <3>2, TaskIs DEF Inv, ContextsKnown
    <3> QED
      BY <3>1, <3>2
  <2>2. \A q \in Runs : ctx'[Main(q)] = IF at'[q] \in {"new", "ended"} THEN NoContext
                                        ELSE Own(q, StackOf(Main(q))')
    <3> SUFFICES ASSUME NEW q \in Runs
                 PROVE  ctx'[Main(q)] = IF at'[q] \in {"new", "ended"} THEN NoContext
                                        ELSE Own(q, StackOf(Main(q))')
      OBVIOUS
    <3> PICK m \in Tasks : m = Main(q) /\ m[1] = q
      BY TaskIs
    <3>1. CASE q = r
      BY <1>3, <1>12, <1>15, <3>1
    <3>2. CASE q # r
      BY <1>3, <1>12, <1>15, <3>2 DEF Inv, ContextsKnown
    <3> QED
      BY <3>1, <3>2
  <2> QED
    BY <2>1, <2>2 DEF ContextsKnown
<1>21. SpansKnown'
  <2>1. \A x \in DOMAIN parent' : Named(x) /\ at'[x.run] # "new"
                                  /\ (x.kind # "request" => x.n \in 1 .. stage'[x.run])
    <3> SUFFICES ASSUME NEW x \in DOMAIN parent'
                 PROVE  Named(x) /\ at'[x.run] # "new"
                        /\ (x.kind # "request" => x.n \in 1 .. stage'[x.run])
      OBVIOUS
    <3>1. CASE x = s
      BY <1>2, <1>3, <1>4, <1>5, <3>1
    <3>2. CASE x # s
      <4>1. x \in DOMAIN parent /\ x.run \in Runs /\ stage[x.run] \in Nat
        BY <1>10, <3>2, ScopeAssumption DEF Inv, TypeOK, Spans
      <4>2. /\ Named(x) /\ at[x.run] # "new"
            /\ (x.kind # "request" => x.n \in 1 .. stage[x.run])
        BY <4>1 DEF Inv, SpansKnown
      <4>3. stage'[x.run] \in Nat /\ stage[x.run] <= stage'[x.run]
        BY <1>2, <1>4, <4>1
      <4> QED
        BY <1>3, <4>1, <4>2, <4>3
    <3> QED
      BY <3>1, <3>2
  <2>2. \A t \in Tasks : task'[t] = "ready" => Call(t)' \notin DOMAIN parent'
    <3> SUFFICES ASSUME NEW t \in Tasks, task'[t] = "ready"
                 PROVE  Call(t)' \notin DOMAIN parent'
      OBVIOUS
    <3>1. CASE t[1] = r
      <4> PICK c : c = CallSpan(t, stage[r] + 1)
        OBVIOUS
      <4>1. Call(t)' = c
        BY <1>4, <3>1 DEF Call
      <4>2. c # s /\ c.kind = "llm" /\ c.run = r /\ c.n = stage[r] + 1
        BY <1>5, <3>1 DEF CallSpan
      <4>3. c \notin DOMAIN parent
        BY <1>2, <4>2 DEF Inv, SpansKnown
      <4> QED
        BY <1>10, <4>1, <4>2, <4>3
    <3>2. CASE t[1] # r
      <4>1. Call(t)' = Call(t) /\ Call(t) \notin DOMAIN parent
        BY <1>7, <1>9, <3>2 DEF Inv, SpansKnown
      <4>2. Call(t) # s
        BY <1>5 DEF Call
      <4> QED
        BY <1>10, <4>1, <4>2
    <3> QED
      BY <3>1, <3>2
  <2>3. \A q \in Runs : Live(q)' => stage'[q] >= 1
    BY <1>2, <1>3, <1>4 DEF Inv, SpansKnown
  <2>4. \A q \in Runs : Live(q)' /\ Scene(q)' \in DOMAIN parent' => Scene(q)' \in open'
    <3>1. Scene(r)' \in DOMAIN parent' => Scene(r)' \in open'
      BY <1>5, <1>10
    <3>2. \A q \in Runs : q # r => Scene(q) # s
      BY <1>5 DEF Scene
    <3> QED
      BY <1>3, <1>9, <1>10, <3>1, <3>2 DEF Inv, SpansKnown
  <2> QED
    BY <2>1, <2>2, <2>3, <2>4 DEF SpansKnown, Named
<1>22. OpenKnown'
  <2>1. \A q \in Runs : RequestSpan(q) \in open' <=> at'[q] \notin {"new", "ended"}
    BY <1>1, <1>3, <1>5, <1>10 DEF Inv, OpenKnown
  <2>2. \A x \in open' : x.kind = "stage" => Live(x.run)' /\ x.n = stage'[x.run]
    <3> SUFFICES ASSUME NEW x \in open', x.kind = "stage"
                 PROVE  Live(x.run)' /\ x.n = stage'[x.run]
      OBVIOUS
    <3>1. CASE x = s
      BY <1>3, <1>4, <1>5, <3>1
    <3>2. CASE x # s
      <4>1. x \in open /\ x.run \in Runs
        BY <1>10, <3>2 DEF Inv, TypeOK, Spans
      <4>2. Live(x.run) /\ x.n = stage[x.run]
        BY <4>1 DEF Inv, OpenKnown
      <4> QED
        BY <1>3, <1>4, <4>1, <4>2
    <3> QED
      BY <3>1, <3>2
  <2>3. \A x \in open' : x.kind = "llm" => x.n = stage'[x.run] /\ Active(<<x.run, x.task>>)'
    <3> SUFFICES ASSUME NEW x \in open', x.kind = "llm"
                 PROVE  x.n = stage'[x.run] /\ Active(<<x.run, x.task>>)'
      OBVIOUS
    <3>1. x \in open
      BY <1>5, <1>10
    <3> PICK t \in Tasks : t = <<x.run, x.task>> /\ x.run \in Runs
      BY <3>1 DEF Inv, TypeOK, Spans, SpansKnown, Named
    <3>2. x.n = stage[x.run] /\ Active(t)
      BY <3>1 DEF Inv, OpenKnown, Active
    <3>3. t[1] = x.run /\ t[1] # r
      BY <1>6, <3>2
    <3>4. Active(t)'
      BY <1>8, <3>2, <3>3
    <3> QED
      BY <1>4, <3>2, <3>3, <3>4 DEF Active
  <2>4. \A t \in Tasks : Active(t)' => Call(t)' \in open'
    BY <1>8, <1>9, <1>10 DEF Inv, OpenKnown
  <2> QED
    BY <2>1, <2>2, <2>3, <2>4 DEF OpenKnown
<1> QED
  BY <1>16, <1>17, <1>18, <1>19, <1>20, <1>21, <1>22 DEF Inv

-----------------------------------------------------------------------------
(* The theorems.                                                             *)

LEMMA NextInv == Inv /\ [Next]_vars => Inv'
<1> SUFFICES ASSUME Inv, [Next]_vars PROVE Inv'
  OBVIOUS
<1>1. CASE UNCHANGED vars
  <2>1. /\ \A t : Active(t)' = Active(t) /\ Idle(t)' = Idle(t) /\ Call(t)' = Call(t)
                  /\ StackOf(t)' = StackOf(t)
        /\ \A q : Live(q)' = Live(q) /\ Scene(q)' = Scene(q)
    BY <1>1 DEF vars, Active, Idle, Call, StackOf, Base, Live, Scene
  <2>2. TypeOK' /\ OneTracePerRun' /\ CostsAgree' /\ PricesKnown'
    BY <1>1, <2>1 DEF vars, Inv, TypeOK, OneTracePerRun, CostsAgree, PricesKnown
  <2>3. ContextsKnown'
    BY <1>1, <2>1, TaskIs DEF vars, Inv, ContextsKnown
  <2>4. SpansKnown' /\ OpenKnown'
    BY <1>1, <2>1 DEF vars, Inv, SpansKnown, OpenKnown, Named, Active
  <2> QED
    BY <2>2, <2>3, <2>4 DEF Inv
<1>2. ASSUME NEW r \in Runs, Arrive(r) \/ BeginStage(r) \/ Cancel(r) \/ Goes(r)
      PROVE  Inv'
  BY <1>2, ArriveStep, BeginStageStep, CancelStep, EndStageStep, EndRunStep DEF Goes
<1>3. ASSUME NEW t \in Tasks, CallBegins(t) \/ CallCharged(t) \/ CallEnds(t)
      PROVE  Inv'
  BY <1>3, CallBeginsStep, CallChargedStep, CallSkippedStep, CallLeavesStep DEF CallEnds
<1> QED
  BY <1>1, <1>2, <1>3 DEF Next

LEMMA Invariance == Spec => []Inv
  BY InitInv, NextInv, PTL DEF Spec

\* Every variable keeps its type, whatever runs and calls are open at once.
THEOREM RunScopeTypeCorrect == Spec => []TypeOK
<1>1. Inv => TypeOK
  BY DEF Inv
<1> QED
  BY <1>1, Invariance, PTL

\* A span is ended before the one it is part of, also where the wall clock cancels the run
\* amid its calls.
THEOREM RunScopeSpansNest == Spec => []SpansNest
<1>1. Inv => SpansNest
  <2> SUFFICES ASSUME Inv, NEW s \in open, parent[s] # NoSpan
               PROVE  parent[s] \in open
    BY DEF SpansNest
  <2>1. /\ s \in DOMAIN parent /\ s.run \in Runs /\ s.kind \in Kinds /\ Named(s)
    BY DEF Inv, TypeOK, Spans, SpansKnown
  <2>2. s.kind # "request"
    BY <2>1 DEF Inv, OneTracePerRun
  <2>3. Live(s.run) /\ s.n = stage[s.run]
    <3>1. CASE s.kind = "stage"
      BY <3>1 DEF Inv, OpenKnown
    <3>2. CASE s.kind = "llm"
      <4> PICK t \in Tasks : t = <<s.run, s.task>>
        BY <2>1, <3>2 DEF Named
      <4>1. s.n = stage[s.run] /\ Active(t)
        BY <3>2 DEF Inv, OpenKnown, Active
      <4> QED
        BY <4>1 DEF Inv, ContextsKnown, Active, Idle
    <3> QED
      BY <2>1, <2>2, <3>1, <3>2 DEF Kinds
  <2>4. RequestSpan(s.run) \in open
    BY <2>1, <2>3 DEF Inv, OpenKnown, Live
  <2>5. StageSpan(s.run, s.n) \in DOMAIN parent => StageSpan(s.run, s.n) \in open
    BY <2>1, <2>3 DEF Inv, SpansKnown, Scene
  <2> QED
    BY <2>1, <2>2, <2>4, <2>5 DEF Inv, OneTracePerRun
<1> QED
  BY <1>1, Invariance, PTL

\* However many runs and calls are open at once, every call hangs under its own run.
THEOREM RunScopeOneTrace == Spec => []OneTracePerRun
<1>1. Inv => OneTracePerRun
  BY DEF Inv
<1> QED
  BY <1>1, Invariance, PTL

\* What a run reports is what its calls were charged, and the counter is the sum of the runs.
THEOREM RunScopeCostsAgree == Spec => []CostsAgree
<1>1. Inv => CostsAgree
  BY DEF Inv
<1> QED
  BY <1>1, Invariance, PTL

\* No task ever works with the cost list or the id of another run.
THEOREM RunScopeContextIsOwn == Spec => []ContextIsOwn
<1>1. Inv => ContextIsOwn
  <2> SUFFICES ASSUME Inv PROVE ContextIsOwn
    OBVIOUS
  <2>1. \A t \in Tasks : ~Idle(t) => ctx[t].sink = t[1] /\ ctx[t].cid = t[1]
    <3> SUFFICES ASSUME NEW t \in Tasks, ~Idle(t)
                 PROVE  ctx[t].sink = t[1] /\ ctx[t].cid = t[1]
      OBVIOUS
    <3> PICK r, stack : r = t[1] /\ stack = StackOf(t)
      OBVIOUS
    <3>1. ctx[t] = Own(r, stack)
      BY DEF Inv, ContextsKnown
    <3>2. Own(r, stack).sink = r /\ Own(r, stack).cid = r
      BY ONLY OwnIs, Zenon
    <3> QED
      BY <3>1, <3>2
  <2>2. \A r \in Runs : at[r] = "ended" => ctx[Main(r)] = NoContext
    BY DEF Inv, ContextsKnown
  <2> QED
    BY <2>1, <2>2 DEF ContextIsOwn, Idle
<1> QED
  BY <1>1, Invariance, PTL
=============================================================================
