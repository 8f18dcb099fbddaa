SPECIFICATION ClaimsSpec
CONSTANTS
  Requests <- OneRequest
  Docs <- GoodDocs
  PayloadKey <- MCPayloadKey
  Signers = {"a", "b"}
  Genesis = {"a", "b"}
  Threshold = 2
  Timeout = 1
  MaxAge = 1
  DocMaxAge = 1
  ClockSkew = 1
  ExpectedPCRs <- PCR0
  Fits <- AnyLength
  MaxTime = 2
  MaxNonces = 2
  MaxVersion = 2
  MaxSessions = 1
  MaxChallenges = 1
PROPERTY NoProgressPastDeadline
CHECK_DEADLOCK FALSE
