SPECIFICATION FairSpec
CONSTANTS
  t1 = t1
  t2 = t2
  Threads = {t1, t2}
  Names <- BobAndFiles
  Users <- BobAndFiles
  Ids = {m1, m2}
  Keys = {}
  ShortKeys = {}
  None = None
  Posts <- Intruding
  GeneratorRace = TRUE
  MaxFaults = 1
  MaxStarts = 1
INVARIANTS DeliveredAsPosted MailInv
PROPERTIES MailIsForever RequestIsServed
\* A process that has died for the last time stays dead.
CHECK_DEADLOCK FALSE
