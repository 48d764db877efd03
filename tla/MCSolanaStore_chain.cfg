SPECIFICATION FairSpec
CONSTANTS
  Events = {e1, e2}
  Sizes <- MCSizes
  MaxInstruction = 12000
  MaxLogs = 1
  MaxReads = 2
  None = None
INVARIANTS
  SpaceSuffices
  OnlyWholeProofsStored
  PublishedIsReadable
  
PROPERTIES
  EventsAnswered
CHECK_DEADLOCK FALSE
