SPECIFICATION WSpec
CONSTANTS
  Creates = {c1}
  Blockings = {b1}
  Verifies = {w1}
  Reads = {}
  Schemas = {s1, s2}
  BadSchemas = {}
  Callbacks = {"", "malformed"}
  TTL = 1
  VerdictTTL = 2
  MaxTime = 2
  None = None
  s1 = s1
  s2 = s2
  v1 = v1
  v2 = v2
  f1 = f1
  f2 = f2
  Credentials = {v1, v2}
  Fields = {f1, f2}
  Needs <- ProveNeeds
  Claims <- ProveClaims
  Visible <- ProveVisible
  AgeSchemas = {s2}
INVARIANTS
  HonestRefusedForCause
  WalletTellsVerdict
  BlockingOnlyTimesOut
PROPERTIES
  KeySettles
CHECK_DEADLOCK FALSE
