SPECIFICATION Spec
CONSTANTS
  Requests <- SameWork
  Docs <- GoodDocs
  PayloadKey <- MCPayloadKey
  Signers = {"a", "b"}
  Genesis = {"a", "b"}
  Threshold = 2
  Timeout = 2
  MaxAge = 1
  DocMaxAge = 1
  ClockSkew = 1
  ExpectedPCRs <- PCR0
  Fits <- AnyLength
  MaxTime = 3
  MaxNonces = 3
  MaxVersion = 2
  MaxSessions = 2
  MaxChallenges = 1
INVARIANTS TypeOK Inductive OneLiveSessionPerPayload PayloadIndexSound
PROPERTIES RetryFindsSession PhasesInOrder
CHECK_DEADLOCK FALSE
