SPECIFICATION LuaSideSpec
CONSTANTS
  Sqls <- MCSqls
  Answers <- SomeAnswers
  MaxChanges = 2
  MaxExecs = 2
  Letters = {"x", "5", "10"}
  Texts <- SomeTexts
  TableKeys = {"host", "sslmode", "sslkey", "connect_timeout", "unsafe key"}
  Numbers = {0, 5}
  MaxEntries = 2
  d1 = d1
  d2 = d2
  q1 = q1
  q2 = q2
  Databases <- MCDatabases
  Queries <- MCQueries
SYMMETRY Symmetry
CHECK_DEADLOCK FALSE
INVARIANTS
  SentAsAsked ScansAgree
  ShownInOrder ShownAsAsked
  SettingsArrive
  TypeOK NothingUsedIsGone EveryReferenceFreed
