CONSTANTS
  Symbols <- MCSymbols
  Type <- MCType
  Prompts <- MCPrompts
  Defaults <- MCDefaults
  Ranges <- MCRanges
  DirDep <- MCDirDep
  RevDep <- MCRevDep
  Members <- MCMembers
  modules_sym = "modules"
  Menus <- MCMenus
  rootmenu = "main"
  Modes = {"oldask", "old", "silentold", "listnew", "olddef", "savedefconfig", "defconfig", "allno", "allyes", "allmod", "alldef", "random"}
  InitialDisks <- MCDisks
  config = "config"
  config_old = "config.old"
  header = "header"
  defconfig_file = "defconfig"
  seed = "seed"
  Optional = {"KIND"}
  Numbers = {20, 30}
  MaxLines = 7
SPECIFICATION Spec
INVARIANTS
  WrittenReadsBack
  AllAsked
  QuestionsEnd
CHECK_DEADLOCK FALSE
