SPECIFICATION APISpec
CONSTANTS
  Requests <- OneWork
  Docs <- APIDocs
  PayloadKey <- MCPayloadKey
  Signers = {"a", "b"}
  Genesis = {"a", "b"}
  Threshold = 2
  Timeout = 0
  MaxAge = 1
  DocMaxAge = 1
  ClockSkew = 1
  ExpectedPCRs <- PCR0
  Fits <- AnyLength
  MaxTime = 1
  MaxNonces = 2
  MaxVersion = 2
  MaxSessions = 1
  MaxChallenges = 1
  Clients = {"x","y"}
  Calls <- MCCalls
  Reports <- MCReports
INVARIANTS APITypeOK OneVerdictPerChallenge
PROPERTIES AnswersInOrder NextAnswerExplains
CHECK_DEADLOCK FALSE
