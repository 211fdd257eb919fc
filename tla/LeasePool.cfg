SPECIFICATION FairSpec
CONSTANTS
  Requests = {r1, r2}
  Leases = {l1}
  FuncSigs = {s1, s2}
  NoLease = NoLease
INVARIANTS
  TypeOK
  InFlightExact
  MutualExclusion
  NoReleaseInUse
PROPERTIES ReuseIsSound LeasesGoBack OwnershipKept
