SPECIFICATION FairManagerSpec
CONSTANTS
  Signers = {"a", "ab"}
  MaxVersion = 3
  Callers = {1, 2, 3}
  NoCaller = 0
  Calls <- AdminCalls
  Name <- NameBytes
  Key <- KeyBytes
  Clients <- MCClients
  MaxLooks = 2
INVARIANTS TypeOK LockingTypeOK RecordsOneMoment RootIsTree RootNamesPolicy ManagerTypeOK
PROPERTIES RevokedIsFinal VersionNamesPolicy OnlyNestedReadsHang ManagerCallsReturn HangHoldsManager
CHECK_DEADLOCK FALSE
