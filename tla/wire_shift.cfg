SPECIFICATION Spec
CONSTANTS
  Accounts <- MCAccounts
  Ids <- MCIds
  MaxName = 2
  MaxSubject = 1
  Nobody = Nobody
  Typed <- MCTyped
  Chars <- MCChars
  Block = 4
  MaxCuts = 1
  MaxRequests = 3
  MaxConnections = 1
  None = None
PROPERTIES SentIsStored
\* Users have no more requests in the end.
CHECK_DEADLOCK FALSE
