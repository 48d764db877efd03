SPECIFICATION Spec
CONSTANTS
  Creates = {c1}
  Blockings = {}
  Verifies = {v1, v2}
  Reads = {r1}
  Schemas = {s1, s2}
  BadSchemas = {s2}
  Callbacks = {"", "url", "malformed"}
  TTL = 1
  VerdictTTL = 2
  MaxTime = 3
  None = None
INVARIANTS
  TypeOK
  ConsumedIsGone
  CallbackSeen
  VKHeld
PROPERTIES
  ImplementsLifecycle
SYMMETRY SubmissionSymmetry
CHECK_DEADLOCK FALSE
