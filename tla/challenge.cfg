SPECIFICATION HistorySpec
CONSTANTS
  MaxAge = 1
  MaxNonces = 4
  MaxTime = 6
INVARIANTS TypeOK
PROPERTIES ImplementsOneTimeChallenge
CHECK_DEADLOCK FALSE
