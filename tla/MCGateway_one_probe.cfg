\* Two calls meet a breaker whose cooldown has passed.
CONSTANTS
  c1 = c1  c2 = c2  c3 = c3
  gpt = gpt  claude = claude  grok = grok
  p1 = p1  p2 = p2
  NoModel = NoModel
  NoText = NoText
  Calls = {c1, c2, c3}
  Models = {gpt, claude}
  Fallback <- MCFallback
  Reachable = {gpt, claude}
  Prompts = {p1}
  CacheKey <- MCOneKey
  FailThreshold = 1
  ResetAfter = 1
  MaxRetries = 0
  CacheOn = FALSE
SPECIFICATION Spec
INVARIANT OneProbe
CHECK_DEADLOCK FALSE
