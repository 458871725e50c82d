\* A single answer, and a hook and a store that need not answer.
CONSTANTS
  j1 = j1  j2 = j2  a1 = a1  a2 = a2
  NoLimit = NoLimit  NoAnswer = NoAnswer  NoRanking = NoRanking
  Nobody = Nobody  Solo = Solo  Chair = Chair  Hook = Hook
  Answers = {a1, a2}
  Judges = {j1, j2}
  ClassRouting <- MCRouting
  CostCap = 11
  Configs <- MCHooked
  Contexts <- MCHookedContexts
SPECIFICATION ClockSpec
PROPERTY BoundedByWallClock
CHECK_DEADLOCK FALSE
