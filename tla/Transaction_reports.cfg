SPECIFICATION Spec
CONSTANTS
  N = 2
  Rounds = 2
  AfterEnd = {"idle"}
INVARIANTS TypeOK ChildrenAgree NoChildLeftWaiting AbortedOnlyIfAsked
PROPERTY ReportsAreTrue
CHECK_DEADLOCK FALSE
