SPECIFICATION FairSpec
CONSTANTS
  MaxRetries = 2
  MaxLimit = 1
  Asks <- MCAsks
  Levels = {"info"}
  SecondOf <- MCSecondOf
  MaxCalls = 3
  MaxStarts <- MCMaxStarts
  MaxBroker = 1
  MaxScans = 1
INVARIANTS
  AuditedOnce
  
  LogsDoNotFeedThemselves
  PagesCover

  
CHECK_DEADLOCK FALSE
