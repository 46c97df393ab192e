\* Two addresses; searches and reads that race with a write return what they
\* may, and a second search that misses inserts an entry outside the mutex;
\* threads keep running inside addFailed.
SPECIFICATION FairSpec
CONSTANTS
  t1 = t1
  t2 = t2
  a = a
  b = b
  Threads = {t1, t2}
  Ips = {a, b}
  Summer = {1}
  DstShift = 2
  BAN_TRIES = 1
  BAN_TIME = 3
  TRY_TIMEOUT = 1
  MaxDelay = 1
  TornReads = TRUE
  SavesFail = FALSE
  MaxTime = 3
  MaxCounted = 1
  MaxCrashes = 1
\* A server that finds a truncated bans.json at its start stays dead.
CHECK_DEADLOCK FALSE
INVARIANT OneAttemptAhead
PROPERTIES RefinesBanTable LockIsReleased
