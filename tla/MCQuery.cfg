SPECIFICATION QuerySpec
CONSTANTS
  Letters = {"a", "1", "=", ">", "!"}
  KeyStarts = {"a"}
  KeyChars = {"a", "1"}
  MaxLen = 6
CHECK_DEADLOCK FALSE
INVARIANTS ContentKept TermsByGrammar
