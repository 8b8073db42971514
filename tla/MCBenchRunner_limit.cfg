SPECIFICATION Spec
CONSTANTS
  NPlugins = 2
  Variations <- MCVariations
  Recipes <- MCRecipes
  MayFail <- MCMayFail
  MayCrash <- MCMayCrash
  Windows <- MCWindows
  UsecTicks = 2
  ExactTicks = 4
  MaxShort = 2
INVARIANT
  LimitedCallsReported
