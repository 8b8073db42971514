SPECIFICATION Spec
CONSTANTS
  SymbolType <- MCSymbolType
  Files = {"Config", "more"}
  Root = "Config"
  Texts <- MCTexts
  Missing = {}
  Statements <- MCStatements
  MaxEntries = 4
INVARIANT
  VisibilityKept
CHECK_DEADLOCK FALSE
