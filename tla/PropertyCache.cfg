\* Three consumer threads, a resource of two keys, one failing read.
SPECIFICATION CacheSpec
CONSTANTS
  Threads = {t1, t2, t3}
  NoThread = NoThread
  Keys = {k1, k2}
  MaxFailures = 1
INVARIANTS MissOnlyAfterFailedLoad

