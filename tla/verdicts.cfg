SPECIFICATION Spec
CONSTANTS
  Cases <- MCCases
  Fits <- MCFits
  DocMaxAge = 1
  ClockSkew = 1
  ExpectedPCRs <- PCRs
  MaxLate = 1
INVARIANTS VerdictNamesFirstFailure ChecksAccountedFor
