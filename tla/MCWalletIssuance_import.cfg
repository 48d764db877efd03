SPECIFICATION FairSpec
CONSTANTS
  Users = {u1, u2}
  Claimed = {u1}
  Offers = {o1, o2}
  Imports = {i1, i2}
  CodeTTL = 1
  TokenTTL = 1
  MaxTime = 2
  None = None
INVARIANTS
  RefusedForCause
  TracesBack
PROPERTIES
  
  OfferRedeemed
CHECK_DEADLOCK FALSE
