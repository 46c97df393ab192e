SPECIFICATION FairSpec
CONSTANTS
  Accounts <- MCAccounts
  Ids <- MCIds
  MaxName = 2
  MaxSubject = 1
  Nobody = Nobody
  Typed <- MCTyped
  Chars <- MCChars
  Block = 4
  MaxCuts = 0
  MaxRequests = 3
  MaxConnections = 1
  None = None
PROPERTIES EveryRequestIsAnswered
\* Users have no more requests in the end.
CHECK_DEADLOCK FALSE
