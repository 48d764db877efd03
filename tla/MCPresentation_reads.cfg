SPECIFICATION Spec
CONSTANTS
  Creates = {c1}
  Blockings = {}
  Verifies = {v1}
  Reads = {r1, r2}
  Schemas = {s1}
  BadSchemas = {}
  Callbacks = {"", "url", "malformed"}
  TTL = 1
  VerdictTTL = 2
  MaxTime = 3
  None = None
INVARIANTS
  NeverPendingAgain
CHECK_DEADLOCK FALSE
