\* A run charges, and then fails.
CONSTANTS
  r1 = r1  r2 = r2  r3 = r3  alice = alice  bob = bob  i1 = i1
  NoKey = NoKey  Unlimited = Unlimited  Nobody = Nobody
  Requests = {r1, r2, r3}
  Keys = {alice, bob}
  IdemKeys = {i1}
  Workloads <- MCSteady
  Burst = 3
  Token = 1
  Rate = 1
  Second = 1
  DailyCap = 1
  EstCost = 1
  SingleCost = 1
  CouncilCost = 1
SPECIFICATION Spec
INVARIANT EveryRunRecorded
CHECK_DEADLOCK FALSE
