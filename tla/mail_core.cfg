SPECIFICATION Spec
CONSTANTS
  t1 = t1
  t2 = t2
  Threads = {t1, t2}
  Names <- BobTwice
  Users <- BobTwice
  Ids = {m1, m2}
  Keys = {k1}
  ShortKeys = {}
  None = None
  Posts <- Crossing
  GeneratorRace = FALSE
  MaxFaults = 0
  MaxStarts = 2
SYMMETRY Symmetric
INVARIANTS TypeOK LinkedMailIsComplete DeliveredAsPosted OkMeansDelivered DiesOnlyOnForeignMail MailInv LinksToCome
PROPERTIES MailIsForever RefinesMailStore
\* A process that has died for the last time stays dead.
CHECK_DEADLOCK FALSE
