\* A time stamp written in summer time and read back as standard time.
SPECIFICATION Spec
CONSTANTS
  t1 = t1
  t2 = t2
  a = a
  Threads = {t1, t2}
  Ips = {a}
  Summer = {0, 1}
  DstShift = 2
  BAN_TRIES = 1
  BAN_TIME = 3
  TRY_TIMEOUT = 1
  MaxDelay = 1
  TornReads = FALSE
  SavesFail = FALSE
  MaxTime = 6
  MaxCounted = 9
  MaxCrashes = 0
CHECK_DEADLOCK FALSE
INVARIANT BanOverAfterBanTime
