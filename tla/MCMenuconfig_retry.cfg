CONSTANTS
  Symbols <- MCSymbols
  Type <- MCType
  Prompts <- MCPrompts
  Defaults <- MCDefaults
  Ranges <- MCRanges
  DirDep <- MCDirDep
  RevDep <- MCRevDep
  Members <- MCMembers
  modules_sym = "modules"
  Menus <- MCMenus
  rootmenu = "main"
  InitialDisks <- MCDisks
  config = "config"
  LoadNames = {"alternate", "absent"}
  SaveNames = {"alternate", "config"}
  Numbers = {20, 30}
  MaxKeys = 4
  MaxFaults = 1
  FileNames = {"alternate", "absent", "config"}
  ReadsBack <- FileReadsBack
  ValuesIn <- Current
SPECIFICATION Spec
INVARIANTS
  RetriesReadBack
CHECK_DEADLOCK FALSE
