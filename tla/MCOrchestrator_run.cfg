\* Every route and stage, with the wall clock and without it.
CONSTANTS
  j1 = j1  j2 = j2  a1 = a1  a2 = a2
  NoLimit = NoLimit  NoAnswer = NoAnswer  NoRanking = NoRanking
  Nobody = Nobody  Solo = Solo  Chair = Chair  Hook = Hook
  Answers = {a1, a2}
  Judges = {j1, j2}
  ClassRouting <- MCRouting
  CostCap = 13
  Configs <- MCConfigs
  Contexts <- MCContexts
SPECIFICATION FairSpec
INVARIANTS TypeOK SnapshotConsistent OnlySynthesisUnfaithful TraceTellsOutcome DegradeReusesSurvivor CouncilWithinEstimate SynthesisWithinBudget
PROPERTIES DebateStops ImplementsContract RunEnds
CHECK_DEADLOCK FALSE
