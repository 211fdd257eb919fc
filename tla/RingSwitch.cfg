SPECIFICATION Spec
CONSTANTS
  Requests = {r1}
  Leases = {l1}
  Keys = {k1}
  MaxGens = 1
  MaxPools = 1
  Sessions = {k1}
PROPERTY RefusedLeaseLeaves
CHECK_DEADLOCK FALSE
