SPECIFICATION ClaimsSpec
CONSTANTS
  Requests <- TwoPayloads
  Docs <- GoodDocs
  PayloadKey <- MCPayloadKey
  Signers = {"a", "b"}
  Genesis = {"a", "b"}
  Threshold = 2
  Timeout = 1
  MaxAge = 1
  DocMaxAge = 1
  ClockSkew = 1
  ExpectedPCRs <- PCR0
  Fits <- AnyLength
  MaxTime = 2
  MaxNonces = 2
  MaxVersion = 2
  MaxSessions = 2
  MaxChallenges = 1
INVARIANT AttestationForItsSession
CHECK_DEADLOCK FALSE
