SPECIFICATION StatementSpec
CONSTANTS
  Sqls <- ShortSqls
  Answers <- OneAnswer
  MaxChanges = 0
  MaxExecs = 1
INVARIANT ControlRejected
CHECK_DEADLOCK FALSE
