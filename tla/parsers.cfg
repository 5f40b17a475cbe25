\* Both generated parsers, fed with every sequence of characters, cut anywhere.
SPECIFICATION Spec
CHECK_DEADLOCK FALSE
INVARIANTS
  AutomatonIsGrammar
  OwnText
  FinishedIsReported
PROPERTIES
  ReportsInOrder
