SPECIFICATION FairSpec
CONSTANTS
  Requests = {e1}
  Uuids = {u1, u2}
  KnownSchemas = {u1}
  MaxRetries = 1
  MaxSent = 3
  MaxFaults = 1
  None = None
INVARIANTS
  RetryBounded
  ClosedForCause
  OneProofPerEvent
  ProofsAreSigned
PROPERTIES
  ClosedIsFinal
  ResultClosesEvent
CHECK_DEADLOCK FALSE
