\* The dataset may have no item of the class the gate guards.
CONSTANTS
  Answers = {a1, a2, a3}
  NoAnswer = NoAnswer
  Proposers = {1, 2, 3, 4}
  Z = Z
  Ids = {1, 2, 3}
  Letters = {A, B, C}
  Judges = {j1, j2}
  Passes = {1, 2}
  Failed = Failed
  Scale = 2
  Tau = 6
  MaxLetters = 4
  standard = standard  high_stakes = high_stakes
  Classes = {standard, high_stakes}
  MaxItems = 3
  Top = 2
  HighValue = {high_stakes}
  MinUplift = 1
SPECIFICATION CasesSpec
INVARIANT PassedMeansProven
CHECK_DEADLOCK FALSE
