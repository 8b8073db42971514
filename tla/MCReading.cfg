SPECIFICATION ReadingSpec
CONSTANTS
  Files = {"f", "g", "h", "absent"}
  Root = "f"
  Texts <- MCTexts
  Missing = {"absent"}
  SymbolType <- MCSymbolType
  Leaves <- MCLeaves
  MaxLeaves = 4
  MaxNots = 1
INVARIANTS
  SimplifiesToSame
  ImpliedIsTrue
PROPERTY
  FilesRead
CHECK_DEADLOCK FALSE
