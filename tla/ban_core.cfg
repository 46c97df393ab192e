\* Three threads on one address, with a crash and saves that fail: the test and
\* the update of addFailed interleave in every way, and bans expire within the
\* clock bound.
SPECIFICATION Spec
CONSTANTS
  t1 = t1
  t2 = t2
  t3 = t3
  a = a
  Threads = {t1, t2, t3}
  Ips = {a}
  Summer = {1,2,3}
  DstShift = 2
  BAN_TRIES = 2
  BAN_TIME = 3
  TRY_TIMEOUT = 1
  MaxDelay = 1
  TornReads = FALSE
  SavesFail = TRUE
  MaxTime = 6
  MaxCounted = 9
  MaxCrashes = 1
\* A server that finds a truncated bans.json at its start stays dead.
CHECK_DEADLOCK FALSE
SYMMETRY ThreadSymmetry
INVARIANTS TypeOK SavedStateIsCurrent TriesBounded BanInv
PROPERTIES BanNotLiftedEarly RefinesBanTable
