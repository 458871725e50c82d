---------------------------- MODULE CallContract ----------------------------
(***************************************************************************)
(* What LLMGateway.complete promises its callers, without its retries,     *)
(* breakers, fallback or cache: a call that is asked ends once, either     *)
(* with an acceptable answer that somebody has paid for, or with an        *)
(* error, or because its task was cancelled.  A call pays at most once,    *)
(* and what it has paid for stays on the ledger however it ends.  What a   *)
(* call has handed over does not change any more; one that did not return  *)
(* has handed over nothing.                                                *)
(***************************************************************************)
EXTENDS Naturals

CONSTANTS
  Calls,       \* calls of complete, each an asyncio task of its own
  Requests,    \* what a call may ask: a model and a prompt
  Answers,     \* what a provider may answer
  Acceptable,  \* Acceptable[r] \subseteq Answers: what serves request r
  NoAnswer     \* nothing handed over

VARIABLES
  status,      \* "idle", "pending", "returned", "failed" or "cancelled"
  asked,       \* the request of a call that has been asked
  bill,        \* how many answers the call has been charged for
  paid,        \* the answers some call has been charged for
  handed       \* the answer each call has handed over

vars == <<status, asked, bill, paid, handed>>

Init ==
  /\ status = [c \in Calls |-> "idle"]
  /\ asked \in [Calls -> Requests]
  /\ bill = [c \in Calls |-> 0]
  /\ paid = {}
  /\ handed = [c \in Calls |-> NoAnswer]

\* The request is fixed by the caller before the call is made.
Ask(c) ==
  /\ status[c] = "idle"
  /\ status' = [status EXCEPT ![c] = "pending"]
  /\ UNCHANGED <<asked, bill, paid, handed>>

\* A provider answers call c, and c is charged for it.
Charge(c, a) ==
  /\ bill[c] = 0
  /\ a \in Acceptable[asked[c]]
  /\ bill' = [bill EXCEPT ![c] = 1]
  /\ paid' = paid \union {a}
  /\ UNCHANGED asked

\* The charged answer still has to be handed over.
Bill(c) ==
  /\ status[c] = "pending"
  /\ \E a \in Answers : Charge(c, a)
  /\ UNCHANGED <<status, handed>>

HandOver(c, a) ==
  /\ status' = [status EXCEPT ![c] = "returned"]
  /\ handed' = [handed EXCEPT ![c] = a]

\* The call hands over an answer that serves it: its own, or one paid for before it.
Return(c) ==
  /\ status[c] = "pending"
  /\ \E a \in paid \intersect Acceptable[asked[c]] : HandOver(c, a)
  /\ UNCHANGED <<asked, bill, paid>>

\* Charged and handed over in one step.
Serve(c) ==
  /\ status[c] = "pending"
  /\ \E a \in Answers : Charge(c, a) /\ HandOver(c, a)

\* The call ends with an error, or its task is cancelled.
Abandon(c, how) ==
  /\ status[c] = "pending"
  /\ status' = [status EXCEPT ![c] = how]
  /\ UNCHANGED <<asked, bill, paid, handed>>

\* A call may also be answered, or given up, before it is ever suspended.
FailAtOnce(c) ==
  /\ status[c] = "idle"
  /\ status' = [status EXCEPT ![c] = "failed"]
  /\ UNCHANGED <<asked, bill, paid, handed>>

Next ==
  \E c \in Calls :
    \/ Ask(c) \/ Bill(c) \/ Return(c) \/ Serve(c)
    \/ Abandon(c, "failed") \/ Abandon(c, "cancelled") \/ FailAtOnce(c)

Spec == Init /\ [][Next]_vars
=============================================================================
