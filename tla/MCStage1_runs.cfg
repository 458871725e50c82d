\* Three runs ask a model that is sick at first, two of them another one as well.
CONSTANTS
  r1 = r1  r2 = r2  r3 = r3
  gpt = gpt  claude = claude
  NoModel = NoModel  NoText = NoText  Again = Again  Prompt = Prompt
  Runs = {r1, r2, r3}
  Proposers = {gpt, claude}
  Panel <- MCPanel
  First <- MCFirst
  Quorum = 1
  Sick = {gpt}
  Fallback <- MCFallback
  FailThreshold = 1
  ResetAfter = 1
  MaxRetries = 1
SPECIFICATION Spec
INVARIANTS QuorumDespiteSick RecoveredModelsServe
SYMMETRY RunSymmetry
CHECK_DEADLOCK FALSE
