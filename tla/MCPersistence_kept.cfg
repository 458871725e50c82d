\* Two runs carry the same X-Correlation-ID.
CONSTANTS
  s1 = s1  s2 = s2  s3 = s3  q1 = q1  q2 = q2  i1 = i1  i2 = i2
  Nobody = Nobody  Pending = Pending  Torn = Torn
  Savers = {s1, s2, s3}
  Readers = {q1, q2}
  Ids = {i1, i2}
  IdOf <- MCIdOf
  Wanted <- MCWanted
  Stages <- MCStages
  Outputs <- MCOutputs
SPECIFICATION Spec
INVARIANT EveryRunKept
CHECK_DEADLOCK FALSE
