SPECIFICATION FairLockingSpec
CONSTANTS
  Signers = {"a"}
  MaxVersion = 1
  Callers = {1, 2, 3}
  NoCaller = 0
  Calls <- MCCalls
  Name <- NameBytes
  Key <- KeyBytes
PROPERTIES RecordsAreCreated
CHECK_DEADLOCK FALSE
