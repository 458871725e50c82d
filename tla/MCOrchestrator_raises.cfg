\* A council with its quorum, and a Chairman whose reply and repair are both unusable: every call
\* ends in a text or a GatewayError, so that nothing else makes the run raise.
CONSTANTS
  j1 = j1  j2 = j2  a1 = a1  a2 = a2
  NoLimit = NoLimit  NoAnswer = NoAnswer  NoRanking = NoRanking
  Nobody = Nobody  Solo = Solo  Chair = Chair  Hook = Hook
  Answers = {a1, a2}
  Judges = {j1, j2}
  ClassRouting <- MCRouting
  CostCap = 11
  Configs <- MCMajority
  Contexts <- MCMajorityContexts
SPECIFICATION RepliesSpec
INVARIANT QuorumNeverRaises
CHECK_DEADLOCK FALSE
