SPECIFICATION Spec
CONSTANTS
  Queries = {q1, q2}
  NoData = NoData
  Calls <- AllCalls
SYMMETRY Symmetry
INVARIANTS TypeOK NeverLost NothingStranded WaitSeesResult OneCallback ResultsAreTrue NoneNeverDelivered AbortedOnlyIfAsked NothingLeaks
PROPERTY NoLateStatement
CHECK_DEADLOCK FALSE
