CONSTANTS
  Symbols <- MCSymbols
  Type <- MCType
  Prompts <- MCPrompts
  Defaults <- MCDefaults
  Ranges <- MCRanges
  DirDep <- MCDirDep
  RevDep <- MCRevDep
  Members <- MCMembers
  modules_sym = "modules"
  Menus <- MCMenus
  rootmenu = "main"
  Modes = {"silentold"}
  InitialDisks <- MCDisks
  config = "config"
  config_old = "config.old"
  header = "header"
  defconfig_file = "defconfig"
  seed = "seed"
  Optional = {"KIND"}
  Numbers = {20, 30}
  MaxLines = 3
SPECIFICATION Spec
INVARIANT HeaderAsConfig
CHECK_DEADLOCK FALSE
