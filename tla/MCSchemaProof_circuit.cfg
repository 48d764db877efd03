SPECIFICATION Spec
CONSTANTS
  P = 601
  MaxInt = 40
  Codes <- MCCodes
  Hash <- MCHash
  PlainBelow = 40
  YearLength = 1
  Inputs <- MCInputs
  NoDocument = NoDocument
  DefaultAgeSchema <- MCDefaultAgeSchema
  DefaultClaims <- MCDefaultClaims
  Today <- MCToday
INVARIANTS
  DisclosesOnlyPublic
  CircuitMeansSchema
  StringHashedOnce
  AgeExact
  CopiesAgree
