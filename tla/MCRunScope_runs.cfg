\* Two runs at once: one with two children to a gather, one with two stages.
CONSTANTS
  r1 = r1  r2 = r2
  Nobody = Nobody  NoSpan = NoSpan
  Runs = {r1, r2}
  Width <- MCWidth
  MaxStages <- MCMaxStages
SPECIFICATION Spec
INVARIANTS SpansNest OneTracePerRun CostsAgree ContextIsOwn
CHECK_DEADLOCK FALSE
