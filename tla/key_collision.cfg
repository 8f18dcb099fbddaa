SPECIFICATION ClaimsSpec
CONSTANTS
  Requests <- RunTogether
  Docs <- GoodDocs
  PayloadKey <- MCPayloadKey
  Signers = {"a", "ab", "bc", "c"}
  Genesis = {"a", "ab", "bc", "c"}
  Threshold = 2
  Timeout = 1
  MaxAge = 1
  DocMaxAge = 1
  ClockSkew = 1
  ExpectedPCRs <- PCR0
  Fits <- AnyLength
  MaxTime = 2
  MaxNonces = 2
  MaxVersion = 4
  MaxSessions = 1
  MaxChallenges = 1
INVARIANT RequestServed
CHECK_DEADLOCK FALSE
