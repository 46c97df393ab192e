SPECIFICATION FairSpec
CONSTANTS
  Accounts <- MCAccounts
  Ids <- MCIds
  MaxName = 2
  MaxSubject = 1
  Nobody = Nobody
  Typed <- MCTyped
  Chars <- MCChars
  Block = 4
  MaxCuts = 0
  MaxRequests = 5
  MaxConnections = 2
  None = None
INVARIANTS TypeOK MailsAreAskedFor TakenUpOnceAsTyped WireInv LinesAreThere
PROPERTIES RefinesExchange RequestIsAnswered
\* Users have no more requests in the end.
CHECK_DEADLOCK FALSE
