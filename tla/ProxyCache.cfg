\* Two goroutines, two keys and a cache of one entry: misses race, entries are
\* overridden and evicted, the CA file is rotated once.
SPECIFICATION Spec
CONSTANTS
  r1 = r1
  r2 = r2
  i1 = i1
  t1 = t1
  t2 = t2
  Reqs = {r1, r2}
  Instances = {i1}
  Tenants = {t1, t2}
  EscapedTenants = {}
  CacheSize = 1
  MaxRotations = 1
SYMMETRY Symmetry
INVARIANTS
  TypeOK
  CacheWellFormed
  CacheIsSound
  ServesItsOwnKey
  MissNeedsListing
  RefusalIsJustified
  MissReadsTheCA
  CachedOnMissOnlyIfRaced
PROPERTIES
