\* No symmetry: this run checks liveness.
SPECIFICATION FairSpec
CONSTANTS
  r1 = r1
  r2 = r2
  i1 = i1
  t1 = t1
  t2 = t2
  Reqs = {r1, r2}
  Instances = {i1}
  Tenants = {t1, t2}
  EscapedTenants = {}
  CacheSize = 1
  MaxRotations = 0
PROPERTIES
  ImplementsDirectory
  EveryRequestAnswered
