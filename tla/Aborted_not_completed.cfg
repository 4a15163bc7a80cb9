SPECIFICATION Spec
CONSTANTS
  Queries = {q1, q2}
  NoData = NoData
  Calls <- AllCalls
SYMMETRY Symmetry
INVARIANT AbortedNotCompleted
CHECK_DEADLOCK FALSE
