------------------------------- MODULE RunLog -------------------------------
(***************************************************************************)
(* What the persistence layer promises the auditor, without its tables and *)
(* transactions: an append-only log of runs.  A run is in it whole or not  *)
(* at all, the first one under an id stays, and a reader is handed what    *)
(* the log held at one moment.                                             *)
(***************************************************************************)
CONSTANTS
  Savers,    \* runs to be saved
  Readers,
  Ids,       \* correlation ids
  IdOf,      \* the id of each run
  Wanted,    \* the id each reader asks for
  Nobody,    \* no run
  Pending    \* a reader has no answer yet

VARIABLES
  kept,      \* the run under each id
  told       \* what each reader is told

vars == <<kept, told>>

Init ==
  /\ kept = [i \in Ids |-> Nobody]
  /\ told = [r \in Readers |-> Pending]

Save(s) ==
  /\ kept[IdOf[s]] = Nobody
  /\ kept' = [kept EXCEPT ![IdOf[s]] = s]
  /\ UNCHANGED told

Load(r) ==
  /\ told[r] = Pending
  /\ told' = [told EXCEPT ![r] = kept[Wanted[r]]]
  /\ UNCHANGED kept

Next == (\E s \in Savers : Save(s)) \/ (\E r \in Readers : Load(r))

Spec == Init /\ [][Next]_vars
=============================================================================
