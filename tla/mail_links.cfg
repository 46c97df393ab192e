SPECIFICATION Spec
CONSTANTS
  t1 = t1
  t2 = t2
  Threads = {t1, t2}
  Names <- AliceAndBob
  Users <- AliceAndBob
  Ids = {m1}
  Keys = {k1}
  ShortKeys = {}
  None = None
  Posts <- ToBoth
  GeneratorRace = FALSE
  MaxFaults = 1
  MaxStarts = 1
INVARIANTS EachReceiverGetsALink
\* A process that has died for the last time stays dead.
CHECK_DEADLOCK FALSE
