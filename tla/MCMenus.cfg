SPECIFICATION Spec
CONSTANTS
  SymbolType <- MCSymbolType
  Files = {"Config", "more"}
  Root = "Config"
  Texts <- MCTexts
  Missing = {}
  Statements <- MCStatements
  MaxEntries = 4
INVARIANTS
  ConditionsAsDeclared
  TreeKept
  NothingHidden
  IncludedStaysInside
CHECK_DEADLOCK FALSE
