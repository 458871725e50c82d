------------------------- MODULE PersistenceProofs -------------------------
(***************************************************************************)
(* Theorems about Persistence, for every number of runs, readers, ids,     *)
(* stages and outputs.  A transaction that is open holds its key, so the   *)
(* rows that its commit adds are the first ones of their id; and a run     *)
(* that is there stays, so what a reader selects in three statements is of *)
(* one moment.                                                             *)
(***************************************************************************)
EXTENDS Persistence, TLAPS

\* The row of an id, if there is one, is of a run of that id.
KeyOfRun == \A i \in Ids : runs[i] # Nobody => IdOf[runs[i]] = i

\* A transaction holds its key from its first INSERT to its end.
OpenWhileSaving == \A s \in Savers : s \in open <=> save[s] \in {"stages", "proposers", "commit"}

\* What a load has selected, by where it is, when seen is the run it asks for.
Selected(where, what, seen) ==
  /\ where \in {"idle", "select_runs"} => what = Missing
  /\ where = "select_stages" =>
       seen # Nobody /\ what = [run |-> seen, stages |-> {}, proposers |-> {}]
  /\ where = "select_proposers" =>
       seen # Nobody /\ what = [run |-> seen, stages |-> Children(seen, Stages), proposers |-> {}]
  /\ where = "done" => what = Missing \/ (seen # Nobody /\ what = Record(seen))

\* What a load has selected so far is what it would select now.
SelectedSoFar == \A r \in Readers : Selected(load[r], got[r], runs[Wanted[r]])

Inv == TypeOK /\ KeyOfRun /\ OpenWhileSaving /\ OneWriterPerKey /\ TraceOfOneRun /\ SelectedSoFar

-----------------------------------------------------------------------------
(* Rows.                                                                     *)

LEMMA ChildrenType ==
  ASSUME NEW s \in Savers, NEW n \in [Savers -> Nat]
  PROVE  Children(s, n) \subseteq Rows
<1>1. \A i \in 1 .. n[s] : i - 1 \in Nat
  OBVIOUS
<1> QED
  BY <1>1, RunsAssumption DEF Children, Rows

\* The children of a run point to its id, and to no other.
LEMMA ChildrenOfId ==
  ASSUME NEW s \in Savers, NEW n \in [Savers -> Nat], NEW i
  PROVE  Of(Children(s, n), i) = IF i = IdOf[s] THEN Children(s, n) ELSE {}
  BY DEF Of, Children

LEMMA OfUnion ==
  ASSUME NEW A, NEW B, NEW i
  PROVE  Of(A \union B, i) = Of(A, i) \union Of(B, i)
  BY DEF Of

\* Records are told apart by the run.
LEMMA RecordIsNotMissing ==
  ASSUME NEW s \in Savers
  PROVE  Record(s) # Missing /\ Record(s).run = s
  BY NobodyAssumption DEF Record, Missing

-----------------------------------------------------------------------------
(* The steps, as far as the invariant is concerned: a commit adds the run of *)
(* an open transaction and its children, no other step touches the tables.  *)

CommitStep == \E s \in Savers : save[s] = "commit" /\ Committed(s) /\ open' = open \ {s}
                /\ save' \in {[save EXCEPT ![s] = "saved"], [save EXCEPT ![s] = "failed"]}
                /\ UNCHANGED <<load, got>>

LEMMA InitInv == Init => Inv
<1> SUFFICES ASSUME Init PROVE Inv
  OBVIOUS
<1>1. Missing \in [run : Savers \union {Nobody}, stages : SUBSET Rows, proposers : SUBSET Rows]
  BY DEF Missing
<1>2. TypeOK
  BY <1>1 DEF Init, TypeOK, Saving, Loading
<1>3. TraceOfOneRun
  BY DEF Init, TraceOfOneRun, Of, Missing
<1> QED
  BY <1>2, <1>3, RunsAssumption DEF Init, Inv, KeyOfRun, OpenWhileSaving, OneWriterPerKey, SelectedSoFar, Selected

\* Under its own key, a transaction that commits finds nothing.
LEMMA CommitFindsNothing ==
  ASSUME Inv, NEW s \in Savers, save[s] = "commit"
  PROVE  /\ s \in open
         /\ runs[IdOf[s]] = Nobody
         /\ Of(stages, IdOf[s]) = {} /\ Of(proposers, IdOf[s]) = {}
<1>1. s \in open
  BY DEF Inv, OpenWhileSaving
<1>2. runs[IdOf[s]] = Nobody /\ IdOf[s] \in Ids
  BY <1>1, RunsAssumption DEF Inv, OneWriterPerKey
<1>3. [run |-> runs[IdOf[s]], stages |-> Of(stages, IdOf[s]), proposers |-> Of(proposers, IdOf[s])]
        = Missing
  BY <1>2 DEF Inv, TraceOfOneRun
<1> QED
  BY <1>1, <1>2, <1>3 DEF Missing

LEMMA CommitKeepsInv == Inv /\ CommitStep => Inv'
<1> SUFFICES ASSUME Inv, NEW s \in Savers, save[s] = "commit", Committed(s), open' = open \ {s},
                    save' \in {[save EXCEPT ![s] = "saved"], [save EXCEPT ![s] = "failed"]},
                    UNCHANGED <<load, got>>
             PROVE  Inv'
  BY DEF CommitStep
<1> DEFINE k == IdOf[s]
<1>1. s \in open /\ k \in Ids /\ runs[k] = Nobody /\ Of(stages, k) = {} /\ Of(proposers, k) = {}
  BY CommitFindsNothing, RunsAssumption
<1>2. Children(s, Stages) \subseteq Rows /\ Children(s, Outputs) \subseteq Rows
  BY ChildrenType, RunsAssumption
<1>3. /\ runs' = [runs EXCEPT ![k] = s]
      /\ stages' = stages \union Children(s, Stages)
      /\ proposers' = proposers \union Children(s, Outputs)
  BY DEF Committed
<1>4. runs'[k] = s /\ \A i \in Ids \ {k} : runs'[i] = runs[i]
  BY <1>1, <1>3 DEF Inv, TypeOK
<1>5. TypeOK'
  BY <1>1, <1>2, <1>3 DEF Inv, TypeOK, Saving
<1>6. KeyOfRun'
  BY <1>4 DEF Inv, KeyOfRun
<1>7. OpenWhileSaving'
  BY DEF Inv, OpenWhileSaving, TypeOK
<1>8. OneWriterPerKey'
  <2>1. \A t \in open' : IdOf[t] \in Ids \ {k}
    BY <1>1, RunsAssumption DEF Inv, OneWriterPerKey, TypeOK
  <2> QED
    BY <2>1, <1>4 DEF Inv, OneWriterPerKey
<1>9. \A i : /\ Of(stages', i) = Of(stages, i) \union Of(Children(s, Stages), i)
              /\ Of(proposers', i) = Of(proposers, i) \union Of(Children(s, Outputs), i)
  <2> TAKE i
  <2>1. Of(stages \union Children(s, Stages), i) = Of(stages, i) \union Of(Children(s, Stages), i)
    BY OfUnion
  <2>2. Of(proposers \union Children(s, Outputs), i)
          = Of(proposers, i) \union Of(Children(s, Outputs), i)
    BY OfUnion
  <2> QED
    BY <2>1, <2>2, <1>3
<1>10. \A i : /\ Of(Children(s, Stages), i) = IF i = k THEN Children(s, Stages) ELSE {}
              /\ Of(Children(s, Outputs), i) = IF i = k THEN Children(s, Outputs) ELSE {}
  BY ChildrenOfId, RunsAssumption
<1>11. \A i \in Ids \ {k} : Of(stages', i) = Of(stages, i) /\ Of(proposers', i) = Of(proposers, i)
  BY <1>9, <1>10
<1>12. Of(stages', k) = Children(s, Stages) /\ Of(proposers', k) = Children(s, Outputs)
  BY <1>1, <1>9, <1>10
<1>13. TraceOfOneRun'
  <2> SUFFICES ASSUME NEW i \in Ids
               PROVE  [run |-> runs'[i], stages |-> Of(stages', i), proposers |-> Of(proposers', i)] =
                        IF runs'[i] = Nobody THEN Missing ELSE Record(runs'[i])
    BY DEF TraceOfOneRun, Of, Record, Missing, Children
  <2>1. CASE i = k
    BY <2>1, <1>4, <1>12, NobodyAssumption DEF Record
  <2>2. CASE i # k
    BY <2>2, <1>4, <1>11 DEF Inv, TraceOfOneRun
  <2> QED
    BY <2>1, <2>2
<1>14. SelectedSoFar'
  <2>1. \A r \in Readers : runs[Wanted[r]] # Nobody => runs'[Wanted[r]] = runs[Wanted[r]]
    BY <1>1, <1>4, RunsAssumption
  <2> QED
    BY <2>1 DEF Inv, SelectedSoFar, Selected
<1> QED
  BY <1>5, <1>6, <1>7, <1>8, <1>13, <1>14 DEF Inv

\* A step of a save that leaves the tables as they are.
LEMMA SaveKeepsInv ==
  ASSUME Inv, NEW s \in Savers, UNCHANGED <<tables, load, got>>,
         \/ SaveRun(s) \/ InsertRun(s) \/ InsertStages(s) \/ InsertProposers(s)
         \/ SaveFails(s)
  PROVE  Inv'
<1>1. TypeOK'
  BY DEF Inv, TypeOK, tables, Saving, SaveRun, InsertRun, InsertStages, InsertProposers, SaveFails
<1>2. OpenWhileSaving' /\ OneWriterPerKey'
  <2>1. CASE SaveRun(s)
    BY <2>1 DEF Inv, TypeOK, OpenWhileSaving, OneWriterPerKey, tables, SaveRun
  <2>2. CASE InsertRun(s)
    BY <2>2 DEF Inv, TypeOK, OpenWhileSaving, OneWriterPerKey, tables, InsertRun, KeyFree
  <2>3. CASE InsertStages(s)
    BY <2>3 DEF Inv, TypeOK, OpenWhileSaving, OneWriterPerKey, tables, InsertStages
  <2>4. CASE InsertProposers(s)
    BY <2>4 DEF Inv, TypeOK, OpenWhileSaving, OneWriterPerKey, tables, InsertProposers
  <2>5. CASE SaveFails(s)
    BY <2>5 DEF Inv, TypeOK, OpenWhileSaving, OneWriterPerKey, tables, SaveFails
  <2> QED
    BY <2>1, <2>2, <2>3, <2>4, <2>5
<1>3. KeyOfRun' /\ TraceOfOneRun' /\ SelectedSoFar'
  <2>1. /\ runs' = runs /\ stages' = stages /\ proposers' = proposers
        /\ load' = load /\ got' = got
    BY DEF tables
  <2>2. KeyOfRun'
    BY <2>1 DEF Inv, KeyOfRun
  <2>3. TraceOfOneRun'
    BY <2>1 DEF Inv, TraceOfOneRun, Of
  <2>4. SelectedSoFar'
    BY <2>1 DEF Inv, SelectedSoFar, Selected
  <2> QED
    BY <2>2, <2>3, <2>4
<1> QED
  BY <1>1, <1>2, <1>3 DEF Inv

\* What the next SELECT of a load finds.
LEMMA SelectsFind ==
  ASSUME Inv, NEW r \in Readers
  PROVE  /\ Wanted[r] \in Ids
         /\ runs[Wanted[r]] \in Savers \union {Nobody}
         /\ runs[Wanted[r]] # Nobody =>
              /\ Of(stages, Wanted[r]) = Children(runs[Wanted[r]], Stages)
              /\ Of(proposers, Wanted[r]) = Children(runs[Wanted[r]], Outputs)
<1>1. Wanted[r] \in Ids /\ runs[Wanted[r]] \in Savers \union {Nobody}
  BY RunsAssumption DEF Inv, TypeOK
<1>2. runs[Wanted[r]] # Nobody =>
        [run |-> runs[Wanted[r]], stages |-> Of(stages, Wanted[r]),
         proposers |-> Of(proposers, Wanted[r])] = Record(runs[Wanted[r]])
  BY <1>1 DEF Inv, TraceOfOneRun
<1> QED
  BY <1>1, <1>2 DEF Record

LEMMA LoadKeepsInv ==
  ASSUME Inv, NEW r \in Readers,
         \/ LoadRun(r) \/ SelectRun(r) \/ SelectStages(r) \/ SelectProposers(r) \/ LoadFails(r)
  PROVE  Inv'
<1> DEFINE seen == runs[Wanted[r]]
<1>1. UNCHANGED <<tables, open, save>>
  BY DEF LoadRun, SelectRun, SelectStages, SelectProposers, LoadFails, saving
<1>2. UNCHANGED <<runs, stages, proposers>>
  BY <1>1 DEF tables
<1>3. KeyOfRun' /\ OpenWhileSaving' /\ OneWriterPerKey' /\ TraceOfOneRun'
  BY <1>1, <1>2 DEF Inv, KeyOfRun, OpenWhileSaving, OneWriterPerKey, TraceOfOneRun, Of, Record,
     Missing, Children
<1>4. /\ got' \in [Readers -> [run : Savers \union {Nobody}, stages : SUBSET Rows,
                               proposers : SUBSET Rows]]
      /\ load' \in [Readers -> Loading \union {"idle", "done"}]
  <2>1. Of(stages, Wanted[r]) \subseteq Rows /\ Of(proposers, Wanted[r]) \subseteq Rows
    BY DEF Inv, TypeOK, Of
  <2>2. seen \in Savers \union {Nobody}
    BY SelectsFind
  <2> QED
    BY <2>1, <2>2 DEF Inv, TypeOK, Loading, Missing, LoadRun, SelectRun, SelectStages,
       SelectProposers, LoadFails
<1>5. TypeOK'
  BY <1>1, <1>2, <1>4 DEF Inv, TypeOK
<1>6. \A q \in Readers \ {r} : load'[q] = load[q] /\ got'[q] = got[q]
  BY DEF Inv, TypeOK, LoadRun, SelectRun, SelectStages, SelectProposers, LoadFails
<1>7. Selected(load'[r], got'[r], seen)
  <2>1. CASE LoadRun(r)
    BY <2>1 DEF Inv, TypeOK, SelectedSoFar, Selected, LoadRun
  <2>2. CASE SelectRun(r)
    <3>1. load[r] = "select_runs" /\ got[r] = Missing
      BY <2>2 DEF SelectRun, Inv, SelectedSoFar, Selected
    <3>2. got'[r] = [got[r] EXCEPT !.run = seen]
      BY <2>2 DEF SelectRun, Inv, TypeOK
    <3>3. got'[r] = [run |-> seen, stages |-> {}, proposers |-> {}]
      BY <3>1, <3>2 DEF Missing
    <3>4. load'[r] = IF seen = Nobody THEN "done" ELSE "select_stages"
      BY <2>2 DEF SelectRun, Inv, TypeOK
    <3>5. seen = Nobody => got'[r] = Missing
      BY <3>3 DEF Missing
    <3> QED
      BY <3>3, <3>4, <3>5 DEF Selected
  <2>3. CASE SelectStages(r)
    <3>1. seen # Nobody /\ got[r] = [run |-> seen, stages |-> {}, proposers |-> {}]
      BY <2>3 DEF SelectStages, Inv, SelectedSoFar, Selected
    <3>2. Of(stages, Wanted[r]) = Children(seen, Stages)
      BY <3>1, SelectsFind
    <3>3. got'[r] = [got[r] EXCEPT !.stages = Children(seen, Stages)]
          /\ load'[r] = "select_proposers"
      BY <2>3, <3>2 DEF SelectStages, Inv, TypeOK
    <3>4. got'[r] = [run |-> seen, stages |-> Children(seen, Stages), proposers |-> {}]
      BY <3>1, <3>3
    <3> QED
      BY <3>1, <3>3, <3>4 DEF Selected
  <2>4. CASE SelectProposers(r)
    <3>1. /\ seen # Nobody
          /\ got[r] = [run |-> seen, stages |-> Children(seen, Stages), proposers |-> {}]
      BY <2>4 DEF SelectProposers, Inv, SelectedSoFar, Selected
    <3>2. Of(proposers, Wanted[r]) = Children(seen, Outputs)
      BY <3>1, SelectsFind
    <3>3. got'[r] = [got[r] EXCEPT !.proposers = Children(seen, Outputs)] /\ load'[r] = "done"
      BY <2>4, <3>2 DEF SelectProposers, Inv, TypeOK
    <3>4. got'[r] = Record(seen)
      BY <3>1, <3>3 DEF Record
    <3> QED
      BY <3>1, <3>3, <3>4 DEF Selected
  <2>5. CASE LoadFails(r)
    BY <2>5 DEF Inv, TypeOK, LoadFails, Selected
  <2> QED
    BY <2>1, <2>2, <2>3, <2>4, <2>5
<1>8. SelectedSoFar'
  BY <1>2, <1>6, <1>7 DEF Inv, SelectedSoFar
<1> QED
  BY <1>3, <1>5, <1>8 DEF Inv

-----------------------------------------------------------------------------

\* A step commits a run, goes on with a save, or goes on with a load.
LEMMA StepCases ==
  ASSUME Next
  PROVE  \/ CommitStep
         \/ \E s \in Savers : /\ UNCHANGED <<tables, load, got>>
                              /\ \/ SaveRun(s) \/ InsertRun(s) \/ InsertStages(s)
                                 \/ InsertProposers(s) \/ SaveFails(s)
         \/ \E r \in Readers : \/ LoadRun(r) \/ SelectRun(r) \/ SelectStages(r)
                               \/ SelectProposers(r) \/ LoadFails(r)
<1>1. CASE \E s \in Savers : Commit(s)
  BY <1>1 DEF Commit, CommitStep
<1>2. CASE \E s \in Savers : SaveFails(s)
  BY <1>2 DEF SaveFails, CommitStep, tables
<1>3. CASE \E s \in Savers : SaveRun(s) \/ InsertRun(s) \/ InsertStages(s) \/ InsertProposers(s)
  BY <1>3 DEF SaveRun, InsertRun, InsertStages, InsertProposers, tables
<1> QED
  BY <1>1, <1>2, <1>3 DEF Next, Answers, Selects

LEMMA NextInv == Inv /\ [Next]_vars => Inv'
<1> SUFFICES ASSUME Inv, [Next]_vars PROVE Inv'
  OBVIOUS
<1>1. CASE Next
  BY <1>1, StepCases, CommitKeepsInv, SaveKeepsInv, LoadKeepsInv
<1>2. CASE UNCHANGED vars
  BY <1>2 DEF vars, Inv, TypeOK, KeyOfRun, OpenWhileSaving, OneWriterPerKey, TraceOfOneRun,
     SelectedSoFar, Of, Record, Missing, Children
<1> QED
  BY <1>1, <1>2

LEMMA Invariance == Spec => []Inv
  BY InitInv, NextInv, PTL DEF Spec

\* save_run and get_run keep the tables well typed, for any number of runs and readers.
THEOREM PersistenceTypeCorrect == Spec => []TypeOK
<1>1. Inv => TypeOK
  BY DEF Inv
<1> QED
  BY <1>1, Invariance, PTL

\* The rows that point to a run in the table are all of that run's and no other's, whatever
\* transactions of the same id were rolled back, rejected or killed on the way.
THEOREM PersistenceTraceOfOneRun == Spec => []TraceOfOneRun
<1>1. Inv => TraceOfOneRun
  BY DEF Inv
<1> QED
  BY <1>1, Invariance, PTL

\* No two transactions that hold a key hold the same, and none holds one that is taken.
THEOREM PersistenceOneWriterPerKey == Spec => []OneWriterPerKey
<1>1. Inv => OneWriterPerKey
  BY DEF Inv
<1> QED
  BY <1>1, Invariance, PTL

-----------------------------------------------------------------------------
(* The refinement.                                                           *)

LEMMA RefinesInit == Init => Log!Init
  BY DEF Init, Log!Init, Told

\* A commit is a Save: the key was free.
LEMMA CommitRefines == Inv /\ CommitStep => Log!Next
<1> SUFFICES ASSUME Inv, NEW s \in Savers, save[s] = "commit", Committed(s), UNCHANGED <<load, got>>
             PROVE  Log!Save(s)
  BY DEF CommitStep, Log!Next
<1>1. runs[IdOf[s]] = Nobody
  BY CommitFindsNothing
<1> QED
  BY <1>1 DEF Log!Save, Committed

\* A load is answered by its last SELECT, with what the log holds then.
LEMMA LoadRefines ==
  ASSUME Inv, NEW r \in Readers,
         \/ LoadRun(r) \/ SelectRun(r) \/ SelectStages(r) \/ SelectProposers(r) \/ LoadFails(r)
  PROVE  Log!Next \/ UNCHANGED Log!vars
<1> DEFINE told == [q \in Readers |-> Told(load[q], got[q])]
           seen == runs[Wanted[r]]
<1>1. UNCHANGED runs
  BY DEF LoadRun, SelectRun, SelectStages, SelectProposers, LoadFails, saving, tables
<1>2. Inv'
  BY LoadKeepsInv
<1>3. load[r] # "done"
  BY DEF LoadRun, SelectRun, SelectStages, SelectProposers, LoadFails, Loading
<1>4. \A q \in Readers \ {r} : load'[q] = load[q] /\ got'[q] = got[q]
  BY DEF Inv, TypeOK, LoadRun, SelectRun, SelectStages, SelectProposers, LoadFails
<1>5. told[r] = Pending /\ \A q \in Readers \ {r} : told'[q] = told[q]
  BY <1>3, <1>4 DEF Told
<1>6. CASE load'[r] # "done"
  <2>1. told'[r] = Pending
    BY <1>6 DEF Told
  <2>2. told' = told
    BY <2>1, <1>5
  <2> QED
    BY <2>2, <1>1 DEF Log!vars
<1>7. CASE load'[r] = "done"
  <2>1. got'[r] = Missing \/ (seen # Nobody /\ got'[r] = Record(seen))
    BY <1>1, <1>2, <1>7 DEF Inv, SelectedSoFar, Selected
  <2>2. got'[r] = Missing => seen = Nobody
    <3>1. CASE SelectRun(r)
      <4>1. got'[r].run = seen
        BY <3>1 DEF SelectRun, Inv, TypeOK
      <4> QED
        BY <4>1 DEF Missing
    <3>2. CASE SelectProposers(r)
      <4>1. got[r] = [run |-> seen, stages |-> Children(seen, Stages), proposers |-> {}]
        BY <3>2 DEF SelectProposers, Inv, SelectedSoFar, Selected
      <4>2. got[r].run = seen
        BY <4>1
      <4>3. got'[r].run = got[r].run
        BY <3>2 DEF SelectProposers, Inv, TypeOK
      <4> QED
        BY <4>2, <4>3 DEF Missing
    <3>3. ~LoadRun(r) /\ ~SelectStages(r) /\ ~LoadFails(r)
      BY <1>7 DEF LoadRun, SelectStages, LoadFails, Inv, TypeOK
    <3> QED
      BY <3>1, <3>2, <3>3
  <2>3. seen \in Savers \union {Nobody}
    BY SelectsFind
  <2>4. told'[r] = seen
    BY <1>7, <2>1, <2>2, <2>3, RecordIsNotMissing DEF Told
  <2>5. told' = [told EXCEPT ![r] = seen]
    BY <2>4, <1>5
  <2>6. Log!Load(r)
    BY <1>1, <1>5, <2>5 DEF Log!Load
  <2> QED
    BY <2>6 DEF Log!Next
<1> QED
  BY <1>6, <1>7

LEMMA RefinesNext == Inv /\ [Next]_vars => [Log!Next]_Log!vars
<1> SUFFICES ASSUME Inv, [Next]_vars PROVE Log!Next \/ UNCHANGED Log!vars
  OBVIOUS
<1>1. CASE UNCHANGED vars
  BY <1>1 DEF vars, Log!vars
<1>2. CASE CommitStep
  BY <1>2, CommitRefines
<1>3. CASE UNCHANGED <<tables, load, got>>
  BY <1>3 DEF tables, Log!vars
<1>4. CASE \E r \in Readers : \/ LoadRun(r) \/ SelectRun(r) \/ SelectStages(r)
                              \/ SelectProposers(r) \/ LoadFails(r)
  BY <1>4, LoadRefines
<1> QED
  BY <1>1, <1>2, <1>3, <1>4, StepCases

\* The repository implements the append-only log: a run becomes visible whole, in one step,
\* the first of its id stays, and every reader is told what the log held at one moment.
THEOREM PersistenceImplementsLog == Spec => ImplementsLog
  BY RefinesInit, RefinesNext, Invariance, PTL DEF Spec, ImplementsLog, Log!Spec
=============================================================================
