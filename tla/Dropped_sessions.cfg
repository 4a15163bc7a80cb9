SPECIFICATION FairSpec
CONSTANTS
  d1 = d1
  d2 = d2
  q1 = q1
  q2 = q2
  Databases <- OneDatabase
  Queries <- OneQuery
CHECK_DEADLOCK FALSE
PROPERTY DroppedSessionsClose
