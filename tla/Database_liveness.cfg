SPECIFICATION FairSpec
CONSTANTS
  Queries = {q1, q2}
  NoData = NoData
  Calls = {"disconnect"}
PROPERTIES EveryExecutionEnds ShutdownEnds
CHECK_DEADLOCK FALSE
