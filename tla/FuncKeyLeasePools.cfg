SPECIFICATION FairSpec
CONSTANTS
  Requests = {r1, r2}
  Leases = {l1}
  Keys = {k1}
  MaxGens = 1
  MaxPools = 2
  Sessions = {k1}
INVARIANTS  NoStrandedLease
PROPERTY RetainedWhileInUse
\* The last generation may be deleted for good: the model then stops.
CHECK_DEADLOCK FALSE
