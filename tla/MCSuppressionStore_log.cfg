\* One cache, two contacts, appends in any order of keys and instants.
SPECIFICATION Spec
CONSTANTS
  s1 = s1  i1 = i1  i2 = i2  Never = Never
  Store = {s1}
  Identifier = {i1, i2}
  Key = {1, 2}
  Instant = {1, 2}
  PageSize = 1
  Ttl = 2
  MaxNow = 3
SYMMETRY Symmetry
INVARIANTS TypeOK FreshCacheReflectsLog WritersSeeOwnWrites CacheIsEarliest SnapshotReflectsLog
\* The bounded clock stops, the keys run out.
CHECK_DEADLOCK FALSE
