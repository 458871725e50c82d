\* Two calls share the exact cache; grok has no endpoint in the environment.
CONSTANTS
  c1 = c1  c2 = c2  c3 = c3
  gpt = gpt  claude = claude  grok = grok
  p1 = p1  p2 = p2
  NoModel = NoModel
  NoText = NoText
  Calls = {c1, c2}
  Models = {gpt, claude, grok}
  Fallback <- MCFallback3
  Reachable = {gpt, claude}
  Prompts = {p1, p2}
  CacheKey <- MCSameKey
  FailThreshold = 1
  ResetAfter = 1
  MaxRetries = 1
  CacheOn = TRUE
SPECIFICATION FairSpec
INVARIANT CachePaidFor
PROPERTIES ImplementsContract EveryCallEnds
CHECK_DEADLOCK FALSE
