SPECIFICATION Spec
CONSTANTS
  Queries = {q}
  Transactions = {t}
  Functions = {"f"}
  MaxData = 3
INVARIANTS RunningIsTrue ChildrenAreRunning NothingLeaks LateHandlerOnce
CHECK_DEADLOCK FALSE
