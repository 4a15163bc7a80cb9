SPECIFICATION ConfigSpec
CONSTANTS
  Letters = {"x", "5", "10"}
  Texts <- SomeTexts
  TableKeys = {"host", "sslmode", "sslkey", "connect_timeout", "unsafe key"}
  Numbers = {0, 5}
  MaxEntries = 2

INVARIANT OptionTablesAreUsed
CHECK_DEADLOCK FALSE
