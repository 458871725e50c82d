---------------------------- MODULE Persistence ----------------------------
(***************************************************************************)
(* SqlRepository (persistence/repository.py) over the tables of            *)
(* persistence/models.py: several runs being saved, each in a transaction  *)
(* of its own, while readers load runs by their id.                        *)
(*                                                                         *)
(* A save is suspended in                                                  *)
(*    "runs"       awaiting INSERT INTO runs,                              *)
(*    "stages"     awaiting the INSERTs of its run_stages,                 *)
(*    "proposers"  awaiting the INSERTs of its run_proposers,              *)
(*    "commit"     awaiting COMMIT,                                        *)
(* and a load in one SELECT per table.  The database is PostgreSQL at READ *)
(* COMMITTED: a statement sees what is committed when it runs, and an      *)
(* INSERT of a key that an open transaction has inserted waits for the end *)
(* of that transaction.                                                    *)
(***************************************************************************)
EXTENDS Naturals, FiniteSets

CONSTANTS
  Savers,     \* calls of save_run, each with the result of a run of its own
  Readers,    \* calls of get_run
  Ids,        \* correlation ids: X-Correlation-ID, or a fresh one
  IdOf,       \* result.correlation_id
  Wanted,     \* the run_id a reader asks for
  Stages,     \* how many stages the result lists
  Outputs,    \* how many proposer outputs come with it
  Nobody,     \* no run
  Pending, Torn   \* for the refinement: no answer yet, no answer of a run

ASSUME RunsAssumption ==
  /\ IdOf \in [Savers -> Ids]
  /\ Wanted \in [Readers -> Ids]
  /\ Stages \in [Savers -> Nat]
  /\ Outputs \in [Savers -> Nat]
ASSUME NobodyAssumption ==
  /\ Nobody \notin Savers
  /\ Torn \notin Savers \union {Nobody}
  /\ Pending \notin Savers \union {Nobody, Torn}

\* A row of run_stages or run_proposers: the run it points to, whose it is, which one.
Rows == [run_id : Ids, by : Savers, seq : Nat]

\* The i-th child carries seq i - 1.
Children(s, n) == {[run_id |-> IdOf[s], by |-> s, seq |-> i - 1] : i \in 1 .. n[s]}

\* What get_run hands out: a row of runs, and the rows that point to it.
Record(s) == [run |-> s, stages |-> Children(s, Stages), proposers |-> Children(s, Outputs)]
Missing   == [run |-> Nobody, stages |-> {}, proposers |-> {}]

Saving  == {"runs", "stages", "proposers", "commit"}
Loading == {"select_runs", "select_stages", "select_proposers"}

VARIABLES
  runs,       \* committed: the run under each primary key
  stages,     \* committed rows of run_stages
  proposers,  \* committed rows of run_proposers
  open,       \* saves whose transaction holds their key
  save,       \* where each save is: "idle", one of Saving, or how it ended
  load,       \* where each load is: "idle", one of Loading, or "done"
  got         \* what each load has selected so far

tables == <<runs, stages, proposers>>
saving == <<tables, open, save>>
vars   == <<runs, stages, proposers, open, save, load, got>>

-----------------------------------------------------------------------------
(* save_run.                                                                 *)

Init ==
  /\ runs = [i \in Ids |-> Nobody]
  /\ stages = {}
  /\ proposers = {}
  /\ open = {}
  /\ save = [s \in Savers |-> "idle"]
  /\ load = [r \in Readers |-> "idle"]
  /\ got = [r \in Readers |-> Missing]

\* The objects are built and added; the block ends, and the flush begins with the parent.
SaveRun(s) ==
  /\ save[s] = "idle"
  /\ save' = [save EXCEPT ![s] = "runs"]
  /\ UNCHANGED <<tables, open, load, got>>

\* Nobody else holds the key.
KeyFree(s) == \A t \in open \ {s} : IdOf[t] # IdOf[s]

\* Seeded fault: session.merge, which takes over the row that is there.
InsertRun_Merges(s) ==
  /\ save[s] = "runs"
  /\ KeyFree(s)
  /\ open' = open \union {s}
  /\ save' = [save EXCEPT ![s] = "stages"]
  /\ UNCHANGED <<tables, load, got>>

\* Seeded fault: the run is committed before its children.
InsertRun_Commits(s) ==
  /\ save[s] = "runs"
  /\ KeyFree(s)
  /\ runs[IdOf[s]] = Nobody
  /\ open' = open \union {s}
  /\ save' = [save EXCEPT ![s] = "stages"]
  /\ runs' = [runs EXCEPT ![IdOf[s]] = s]
  /\ UNCHANGED <<stages, proposers, load, got>>

\* INSERT INTO runs: a key that is taken is an IntegrityError, and rolls back.
InsertRun(s) ==
  /\ save[s] = "runs"
  /\ KeyFree(s)
  /\ \/ /\ runs[IdOf[s]] = Nobody
        /\ open' = open \union {s}
        /\ save' = [save EXCEPT ![s] = "stages"]
     \/ /\ runs[IdOf[s]] # Nobody
        /\ save' = [save EXCEPT ![s] = "rejected"]
        /\ UNCHANGED open
  /\ UNCHANGED <<tables, load, got>>

InsertStages(s) ==
  /\ save[s] = "stages"
  /\ save' = [save EXCEPT ![s] = "proposers"]
  /\ UNCHANGED <<tables, open, load, got>>

InsertProposers(s) ==
  /\ save[s] = "proposers"
  /\ save' = [save EXCEPT ![s] = "commit"]
  /\ UNCHANGED <<tables, open, load, got>>

\* Everything the transaction of s inserted becomes visible at once.
Committed(s) ==
  /\ runs' = [runs EXCEPT ![IdOf[s]] = s]
  /\ stages' = stages \union Children(s, Stages)
  /\ proposers' = proposers \union Children(s, Outputs)

Commit(s) ==
  /\ save[s] = "commit"
  /\ Committed(s)
  /\ open' = open \ {s}
  /\ save' = [save EXCEPT ![s] = "saved"]
  /\ UNCHANGED <<load, got>>

\* Seeded fault: the transaction is not rolled back.
SaveFails_StaysOpen(s) ==
  /\ save[s] \in Saving
  /\ save' = [save EXCEPT ![s] = "failed"]
  /\ \/ UNCHANGED tables
     \/ save[s] = "commit" /\ Committed(s)
  /\ UNCHANGED <<open, load, got>>

\* The database fails, the task is cancelled or the process dies: the transaction is rolled
\* back, unless its COMMIT was on the way and got through.
SaveFails(s) ==
  /\ save[s] \in Saving
  /\ save' = [save EXCEPT ![s] = "failed"]
  /\ open' = open \ {s}
  /\ \/ UNCHANGED tables
     \/ save[s] = "commit" /\ Committed(s)
  /\ UNCHANGED <<load, got>>

-----------------------------------------------------------------------------
(* get_run.                                                                  *)

LoadRun(r) ==
  /\ load[r] = "idle"
  /\ load' = [load EXCEPT ![r] = "select_runs"]
  /\ UNCHANGED <<saving, got>>

\* Without a row there is nothing to load for, and the answer is None.
SelectRun(r) ==
  /\ load[r] = "select_runs"
  /\ got' = [got EXCEPT ![r].run = runs[Wanted[r]]]
  /\ load' = [load EXCEPT ![r] = IF runs[Wanted[r]] = Nobody THEN "done" ELSE "select_stages"]
  /\ UNCHANGED saving

Of(rows, id) == {row \in rows : row.run_id = id}

SelectStages(r) ==
  /\ load[r] = "select_stages"
  /\ got' = [got EXCEPT ![r].stages = Of(stages, Wanted[r])]
  /\ load' = [load EXCEPT ![r] = "select_proposers"]
  /\ UNCHANGED saving

SelectProposers(r) ==
  /\ load[r] = "select_proposers"
  /\ got' = [got EXCEPT ![r].proposers = Of(proposers, Wanted[r])]
  /\ load' = [load EXCEPT ![r] = "done"]
  /\ UNCHANGED saving

\* A load that fails is made again by who wants it.
LoadFails(r) ==
  /\ load[r] \in Loading
  /\ load' = [load EXCEPT ![r] = "idle"]
  /\ got' = [got EXCEPT ![r] = Missing]
  /\ UNCHANGED saving

-----------------------------------------------------------------------------

Answers(s) == InsertRun(s) \/ InsertStages(s) \/ InsertProposers(s) \/ Commit(s)
Selects(r) == SelectRun(r) \/ SelectStages(r) \/ SelectProposers(r)

Next ==
  \/ \E s \in Savers : SaveRun(s) \/ Answers(s) \/ SaveFails(s)
  \/ \E r \in Readers : LoadRun(r) \/ Selects(r) \/ LoadFails(r)

Spec == Init /\ [][Next]_vars

\* The database answers a statement that nothing holds up.
FairSpec == Spec /\ \A s \in Savers : WF_vars(Answers(s))

-----------------------------------------------------------------------------
(* Properties.                                                               *)

\* Every variable keeps its type.
TypeOK ==
  /\ runs \in [Ids -> Savers \union {Nobody}]
  /\ stages \subseteq Rows
  /\ proposers \subseteq Rows
  /\ open \subseteq Savers
  /\ save \in [Savers -> Saving \union {"idle", "saved", "rejected", "failed"}]
  /\ load \in [Readers -> Loading \union {"idle", "done"}]
  /\ got \in [Readers -> [run : Savers \union {Nobody}, stages : SUBSET Rows,
                          proposers : SUBSET Rows]]

\* The children of a run are all there and are its own, although they have keys of their own
\* and point to an id that another run may carry too.
TraceOfOneRun ==
  \A i \in Ids :
    [run |-> runs[i], stages |-> Of(stages, i), proposers |-> Of(proposers, i)] =
      IF runs[i] = Nobody THEN Missing ELSE Record(runs[i])

\* Two saves never write under one key at once, nor over a run that is there.
OneWriterPerKey ==
  \A s \in open :
    /\ runs[IdOf[s]] = Nobody
    /\ \A t \in open : IdOf[s] = IdOf[t] => s = t

\* Every save ends, also one that waits for another of the same id.
EverySaveEnds ==
  \A s \in Savers : save[s] = "runs" ~> save[s] \in {"saved", "rejected", "failed"}

\* What a load that is at where and has selected what tells the reader: one run, whole, or none.
Told(where, what) ==
  IF where # "done" THEN Pending
  ELSE IF what = Missing THEN Nobody
  ELSE IF what = Record(what.run) THEN what.run
  ELSE Torn

\* The repository keeps the promise of RunLog.
Log ==
  INSTANCE RunLog WITH
    kept <- runs,
    told <- [r \in Readers |-> Told(load[r], got[r])]

ImplementsLog == Log!Spec

-----------------------------------------------------------------------------
(* What the documents say.                                                   *)

\* BUILD_SPEC.md, "full trace persisted": with the database up, every run is kept.
EveryRunKept == \A s \in Savers : save[s] \in {"saved", "rejected"} => runs[IdOf[s]] = s
=============================================================================
