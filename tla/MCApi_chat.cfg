\* Three requests of one client in turn, or of two clients at once; one of them is a retry.
CONSTANTS
  r1 = r1  r2 = r2  r3 = r3  alice = alice  bob = bob  i1 = i1
  NoKey = NoKey  Unlimited = Unlimited  Nobody = Nobody
  Requests = {r1, r2, r3}
  Keys = {alice, bob}
  IdemKeys = {i1}
  Workloads <- MCBoth
  Burst = 1
  Token = 3
  Rate = 1
  Second = 2
  DailyCap = 1
  EstCost = 1
  SingleCost = 1
  CouncilCost = 2
SPECIFICATION FairSpec
INVARIANTS AnsweredRunsRecorded BurstToCapacity RetryAfterHonest OneAnswerPerKey
PROPERTIES CouncilsFitTheDay EveryRequestEnds
CHECK_DEADLOCK FALSE
