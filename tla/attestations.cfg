SPECIFICATION Spec
CONSTANTS
  Requests <- DifferentWork
  Docs <- AllDocs
  PayloadKey <- MCPayloadKey
  Signers = {"a", "b", "c"}
  Genesis = {"a", "b"}
  Threshold = 2
  Timeout = 0
  MaxAge = 0
  DocMaxAge = 1
  ClockSkew = 1
  ExpectedPCRs <- PCR0
  Fits <- AnyLength
  MaxTime = 1
  MaxNonces = 2
  MaxVersion = 3
  MaxSessions = 2
  MaxChallenges = 1
INVARIANTS NoNonceReplay PhaseBackedByQuorum RequestServed
PROPERTY ImplementsSigningSessions
CHECK_DEADLOCK FALSE
