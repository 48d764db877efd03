SPECIFICATION Spec
CONSTANTS
  Creates = {c1}
  Blockings = {}
  Verifies = {v1, v2}
  Reads = {}
  Schemas = {s1}
  BadSchemas = {}
  Callbacks = {""}
  TTL = 1
  VerdictTTL = 2
  MaxTime = 0
  None = None
INVARIANTS
  OneShot
CHECK_DEADLOCK FALSE
