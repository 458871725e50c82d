------------------------------ MODULE RunScope ------------------------------
(***************************************************************************)
(* What a run keeps in context variables: the stack of open spans          *)
(* (observability/tracing.py), the cost list its calls append to           *)
(* (gateway/client.py, cost_capture) and the correlation id that its log   *)
(* lines carry (api/app.py, telemetry/logging.py); and what is global to   *)
(* the process, the cost counter (observability/metrics.py).               *)
(*                                                                         *)
(* A request is a task.  A stage makes its calls in the task itself (one   *)
(* call at a time) or in the child tasks of a gather; a child starts with  *)
(* a copy of the context of its parent, and what it sets there is its own. *)
(* When the wall clock cancels the run, the gather still awaits its        *)
(* children, each of which leaves its with-blocks on its own.              *)
(***************************************************************************)
EXTENDS Naturals, FiniteSets, SequencesExt

CONSTANTS
  Runs,        \* requests, each a run
  Width,       \* children of a gather of each run
  MaxStages,   \* bound: stages of each run
  NoSpan,      \* a root has no parent
  Nobody       \* no run, no cost list, no correlation id

\* The tasks: the run's own is number 0, the others are children.
Tasks       == UNION {{r} \X (0 .. Width[r]) : r \in Runs}
Main(r)     == <<r, 0>>
Children(r) == {r} \X (1 .. Width[r])

\* A span of run, in its n-th stage: the request (n = 0), a stage, or a call by some task.
Kinds == {"request", "stage", "llm"}
Spans == [run : Runs, kind : Kinds, n : Nat, task : Nat]
RequestSpan(r)  == [run |-> r, kind |-> "request", n |-> 0, task |-> 0]
StageSpan(r, n) == [run |-> r, kind |-> "stage", n |-> n, task |-> 0]
CallSpan(t, n)  == [run |-> t[1], kind |-> "llm", n |-> n, task |-> t[2]]

ASSUME ScopeAssumption ==
  /\ Width \in [Runs -> Nat \ {0}]
  /\ MaxStages \in [Runs -> Nat]
  /\ Nobody \notin Runs /\ NoSpan \notin Spans

NoContext == [stack |-> <<>>, sink |-> Nobody, cid |-> Nobody]

VARIABLES
  at,        \* where a run is: "new", "between" stages, "solo" or "gather", "cancelled",
             \* "late" (partial) or "ended"
  stage,     \* the number of its stage
  task,      \* a task: "none", "ready", "calling", "charged" or "done"
  ctx,       \* the context of each task
  parent,    \* the spans started so far, and the parent each was started with
  open,      \* spans not ended yet
  priced,    \* spans whose cost has been set
  bill,      \* the length of each run's cost list
  told,      \* the cost a run reported, when it ended
  counter    \* COST, in charges

vars == <<at, stage, task, ctx, parent, open, priced, bill, told, counter>>

-----------------------------------------------------------------------------
(* The context variables.                                                    *)

Top(t) == IF ctx[t].stack = <<>> THEN NoSpan ELSE Last(ctx[t].stack)

\* Seeded fault: one stack object, shared by all tasks of a run.
Entering_Shared(t, s) ==
  [u \in Tasks |-> IF u[1] = t[1] THEN [ctx[u] EXCEPT !.stack = Append(ctx[t].stack, s)] ELSE ctx[u]]

\* The contexts once task t has put span s on its stack: a new tuple, in its own context.
Entering(t, s) == [ctx EXCEPT ![t].stack = Append(@, s)]

\* The contexts once t has reset its stack.
Leaving(t) == [ctx EXCEPT ![t].stack = Front(@)]

\* A span is started, under the span above it.
Started(s, above) == parent' = [x \in DOMAIN parent \union {s} |-> IF x = s THEN above ELSE parent[x]]

-----------------------------------------------------------------------------

Init ==
  /\ at = [r \in Runs |-> "new"]
  /\ stage = [r \in Runs |-> 0]
  /\ task = [t \in Tasks |-> "none"]
  /\ ctx = [t \in Tasks |-> NoContext]
  /\ parent = [s \in {} |-> NoSpan]
  /\ open = {}
  /\ priced = {}
  /\ bill = [r \in Runs |-> 0]
  /\ told = [r \in Runs |-> 0]
  /\ counter = 0

\* Seeded fault: the current cost list is a plain global.
RunContext_Global(r) ==
  [t \in Tasks |-> IF t = Main(r) THEN [stack |-> <<RequestSpan(r)>>, sink |-> r, cid |-> r]
                   ELSE [ctx[t] EXCEPT !.sink = r]]

\* The middleware binds the id; run takes a cost list and opens the request's span.
RunContext(r) == [ctx EXCEPT ![Main(r)] = [stack |-> <<RequestSpan(r)>>, sink |-> r, cid |-> r]]

Arrive(r) ==
  /\ at[r] = "new"
  /\ at' = [at EXCEPT ![r] = "between"]
  /\ ctx' = RunContext(r)
  /\ Started(RequestSpan(r), NoSpan)
  /\ open' = open \union {RequestSpan(r)}
  /\ UNCHANGED <<stage, task, priced, bill, told, counter>>

\* A stage begins: in a span of its own, but for the debate's; a gather creates its children
\* in it.
BeginStage(r) ==
  LET s == StageSpan(r, stage[r] + 1) IN
  /\ at[r] = "between"
  /\ stage[r] < MaxStages[r]
  /\ stage' = [stage EXCEPT ![r] = @ + 1]
  /\ \E traced \in BOOLEAN :
       LET after == IF traced THEN Entering(Main(r), s) ELSE ctx IN
       /\ \/ traced /\ Started(s, Top(Main(r))) /\ open' = open \union {s}
          \/ ~traced /\ UNCHANGED <<parent, open>>
       /\ \/ /\ at' = [at EXCEPT ![r] = "solo"]
             /\ task' = [task EXCEPT ![Main(r)] = "ready"]
             /\ ctx' = after
          \/ /\ at' = [at EXCEPT ![r] = "gather"]
             /\ task' = [t \in Tasks |-> IF t \in Children(r) THEN "ready" ELSE task[t]]
             /\ ctx' = [t \in Tasks |-> IF t \in Children(r) THEN after[Main(r)] ELSE after[t]]
  /\ UNCHANGED <<priced, bill, told, counter>>

Busy(r) == at[r] \in {"solo", "gather"}

\* complete opens a span for a candidate.
CallBegins(t) ==
  LET s == CallSpan(t, stage[t[1]]) IN
  /\ Busy(t[1])
  /\ task[t] = "ready"
  /\ task' = [task EXCEPT ![t] = "calling"]
  /\ Started(s, Top(t))
  /\ open' = open \union {s}
  /\ ctx' = Entering(t, s)
  /\ UNCHANGED <<at, stage, priced, bill, told, counter>>

\* A call that is cached, or finds its circuits open, has no span; nor has a task that is
\* cancelled before it starts.
CallSkipped(t) ==
  /\ task[t] = "ready"
  /\ task' = [task EXCEPT ![t] = "done"]
  /\ UNCHANGED <<at, stage, ctx, parent, open, priced, bill, told, counter>>

\* The provider answered: cost list, counter and span are told before the next await.
CallCharged(t) ==
  /\ Busy(t[1])
  /\ task[t] = "calling"
  /\ task' = [task EXCEPT ![t] = "charged"]
  /\ priced' = priced \union {CallSpan(t, stage[t[1]])}
  /\ counter' = counter + 1
  /\ bill' = [bill EXCEPT ![ctx[t].sink] = @ + 1]
  /\ UNCHANGED <<at, stage, ctx, parent, open, told>>

\* The answer is stored and returned, or the call fails, or it is cancelled.
CallLeaves(t) ==
  /\ task[t] \in {"calling", "charged"}
  /\ task' = [task EXCEPT ![t] = "done"]
  /\ open' = open \ {CallSpan(t, stage[t[1]])}
  /\ ctx' = Leaving(t)
  /\ UNCHANGED <<at, stage, parent, priced, bill, told, counter>>

\* The wall clock: the task is cancelled, and with it the children of the gather it awaits.
Cancel(r) ==
  /\ Busy(r)
  /\ at' = [at EXCEPT ![r] = "cancelled"]
  /\ UNCHANGED <<stage, task, ctx, parent, open, priced, bill, told, counter>>

\* Seeded fault: a cancelled gather does not wait for its children.
Quiet_Cancelled(r) ==
  at[r] = "cancelled" \/ \A t \in Tasks : t[1] = r => task[t] \in {"none", "done"}

\* All calls of the stage have ended.
Quiet(r) == \A t \in Tasks : t[1] = r => task[t] \in {"none", "done"}

\* The stage is left, on its own or by the cancellation, which ends at wait_for.
EndStage(r) ==
  LET s == StageSpan(r, stage[r]) IN
  /\ at[r] \in {"solo", "gather", "cancelled"}
  /\ Quiet(r)
  /\ at' = [at EXCEPT ![r] = IF @ = "cancelled" THEN "late" ELSE "between"]
  /\ \/ s \in open /\ open' = open \ {s} /\ ctx' = Leaving(Main(r))
     \/ s \notin open /\ UNCHANGED <<open, ctx>>
  /\ UNCHANGED <<stage, task, parent, priced, bill, told, counter>>

\* Seeded fault: the span is ended and stays on the stack.
EndContext_KeepsStack(r) == [ctx EXCEPT ![Main(r)].sink = Nobody, ![Main(r)].cid = Nobody]

\* run leaves its with-block, and the middleware clears the id.
EndContext(r) ==
  [ctx EXCEPT ![Main(r)] = [stack |-> Front(@.stack), sink |-> Nobody, cid |-> Nobody]]

\* The run ends, with a result or an exception, and reports its cost.
EndRun(r) ==
  /\ at[r] \in {"between", "late"}
  /\ at' = [at EXCEPT ![r] = "ended"]
  /\ open' = open \ {RequestSpan(r)}
  /\ ctx' = EndContext(r)
  /\ told' = [told EXCEPT ![r] = bill[r]]
  /\ UNCHANGED <<stage, task, parent, priced, bill, counter>>

CallEnds(t) == CallSkipped(t) \/ CallLeaves(t)

Goes(r) == EndStage(r) \/ EndRun(r)

Next ==
  \/ \E r \in Runs : Arrive(r) \/ BeginStage(r) \/ Cancel(r) \/ Goes(r)
  \/ \E t \in Tasks : CallBegins(t) \/ CallCharged(t) \/ CallEnds(t)

Spec == Init /\ [][Next]_vars

-----------------------------------------------------------------------------
(* Properties.                                                               *)

\* Every variable keeps its type.
TypeOK ==
  /\ at \in [Runs -> {"new", "between", "solo", "gather", "cancelled", "late", "ended"}]
  /\ stage \in [Runs -> Nat] /\ \A r \in Runs : stage[r] <= MaxStages[r]
  /\ task \in [Tasks -> {"none", "ready", "calling", "charged", "done"}]
  /\ ctx \in [Tasks -> [stack : Seq(Spans), sink : Runs \union {Nobody}, cid : Runs \union {Nobody}]]
  /\ DOMAIN parent \subseteq Spans
  /\ \A s \in DOMAIN parent : parent[s] \in Spans \union {NoSpan}
  /\ open \subseteq DOMAIN parent
  /\ priced \subseteq DOMAIN parent
  /\ bill \in [Runs -> Nat] /\ told \in [Runs -> Nat] /\ counter \in Nat

\* A span is open no longer than the span it is part of.
SpansNest == \A s \in open : parent[s] # NoSpan => parent[s] \in open

\* BUILD_SPEC.md, "one trace per request": a call hangs under the stage that makes it, or,
\* where that has no span, under its request, however many calls and runs are open at once;
\* never under the call of a sibling, nor under another run.
OneTracePerRun ==
  \A s \in DOMAIN parent :
    parent[s] = CASE s.kind = "request" -> NoSpan
                  [] s.kind = "llm" /\ StageSpan(s.run, s.n) \in DOMAIN parent
                       -> StageSpan(s.run, s.n)
                  [] OTHER -> RequestSpan(s.run)

\* client.py, "concurrent stage calls all add into one per-run total": cost list, trace and
\* counter tell of the same charges, and what an ended run reported stays true.
CostsAgree ==
  /\ counter = Cardinality(priced)
  /\ \A r \in Runs :
       /\ bill[r] = Cardinality({s \in priced : s.run = r})
       /\ at[r] = "ended" => told[r] = bill[r]

\* Whatever the order in which runs and calls end, a task at work has the list and the id of
\* its run, and a run that has ended leaves nothing in its task.
ContextIsOwn ==
  /\ \A t \in Tasks : task[t] \notin {"none", "done"} => ctx[t].sink = t[1] /\ ctx[t].cid = t[1]
  /\ \A r \in Runs : at[r] = "ended" => ctx[Main(r)] = NoContext
=============================================================================
