SPECIFICATION FairSpec
CONSTANTS
  Queries = {q1}
  NoData = NoData
  Calls = {"wait"}
PROPERTY WaitReturns
CHECK_DEADLOCK FALSE
