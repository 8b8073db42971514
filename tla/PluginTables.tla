---------------------------- MODULE PluginTables ----------------------------
(***************************************************************************)
(* How a configuration becomes the tables the driver works on: the options *)
(* of configs/Config.md5, Config.aes and Config.sha, given to the compiler *)
(* as macros, select the blocks of the plug-ins' init functions that       *)
(* register variations and recipes.  A step is one such block.             *)
(***************************************************************************)
EXTENDS Integers, FiniteSets

CONSTANTS
  Times,        \* values of a "Time Limit (msecs)"
  Counts,       \* values of an "Exec Limit (cals)"
  INT_MAX,
  LongModulus   \* 2 to the bits of an unsigned long

TableAssumption ==
  /\ Times \subseteq Nat /\ Counts \subseteq Nat
  /\ INT_MAX \in Nat /\ LongModulus \in Nat
  /\ INT_MAX < LongModulus
  /\ \A t \in Times : t * 1000 < LongModulus

Plugins == {"MD5", "AES", "SHA"}

(* The variations and the recipes a configuration offers for a plug-in.    *)
OfferedVariations(p) == IF p = "MD5" THEN {} ELSE 0 .. 2
OfferedRecipes == 1 .. 3

(* The recipes its init function has a block for.                          *)
LastRecipe(p) == IF p = "MD5" THEN 3 ELSE 2

(* An enabled recipe is of one kind, and has the limit of that kind only.  *)
Off == [kind |-> "off", limit |-> 0]
Option ==
  {Off} \cup [kind : {"time"}, limit : Times]
        \cup [kind : {"exec"}, limit : Counts]

VARIABLES
  plugin,         \* whose init runs
  wanted,         \* configuration: the variations enabled
  option,         \* configuration: the recipes
  v,              \* the next variation block
  n,              \* the next recipe block, by the number of its recipe
  nb_variations,  \* info->nb_variations
  variations,     \* the indices set in info->variations
  recipes         \* info->recipes up to info->max_recipe

config == <<plugin, wanted, option>>
vars == <<config, v, n, nb_variations, variations, recipes>>

max_recipe == Cardinality(DOMAIN recipes)

-----------------------------------------------------------------------------
Init ==
  /\ plugin \in Plugins
  /\ wanted \in SUBSET OfferedVariations(plugin)
  /\ option \in [OfferedRecipes -> Option]
  /\ v = 0 /\ n = 1
  /\ nb_variations = 0 /\ variations = {} /\ recipes = <<>>

VariationBlock ==
  /\ v \in OfferedVariations(plugin)
  /\ IF v \in wanted
     THEN /\ variations' = variations \cup {v}
          /\ nb_variations' = nb_variations + 1
     ELSE UNCHANGED <<variations, nb_variations>>
  /\ v' = v + 1
  /\ UNCHANGED <<config, n, recipes>>

(* CONFIG_..._TIME * 1000 as it is stored in an unsigned long: a constant  *)
(* that fits an int is multiplied as one, and wraps; a negative product    *)
(* becomes a huge duration.                                                *)
Duration(msecs) ==
  LET width == 2 * (INT_MAX + 1)
      product == (msecs * 1000) % width
  IN
  IF msecs > INT_MAX THEN msecs * 1000
  ELSE IF product <= INT_MAX THEN product
  ELSE LongModulus - (width - product)

(* The entry a block fills; max_cycle or duration stays zero.              *)
Entry(o) ==
  IF o.kind = "time"
  THEN [type |-> "TIME_LIMITED", duration |-> Duration(o.limit),
        max_cycle |-> 0]
  ELSE [type |-> "EXECUTION_LIMITED", duration |-> 0, max_cycle |-> o.limit]

(* Mutant: the increment of max_recipe is in the branch of one kind only.  *)
RecipeBlockOverwrites ==
  LET slot == IF max_recipe > 0 /\ recipes[max_recipe - 1].type
                                     = "EXECUTION_LIMITED"
              THEN max_recipe - 1 ELSE max_recipe
  IN
  /\ v \notin OfferedVariations(plugin)
  /\ n <= LastRecipe(plugin)
  /\ recipes' = IF option[n] = Off THEN recipes
                ELSE [s \in 0 .. slot |->
                        IF s = slot THEN Entry(option[n]) ELSE recipes[s]]
  /\ n' = n + 1
  /\ UNCHANGED <<config, v, nb_variations, variations>>

RecipeBlock ==
  /\ v \notin OfferedVariations(plugin)
  /\ n <= LastRecipe(plugin)
  /\ recipes' = IF option[n] = Off THEN recipes
                ELSE [s \in 0 .. max_recipe |->
                        IF s = max_recipe THEN Entry(option[n])
                        ELSE recipes[s]]
  /\ n' = n + 1
  /\ UNCHANGED <<config, v, nb_variations, variations>>

(* The init function returns the info.                                     *)
Returned == v \notin OfferedVariations(plugin) /\ n > LastRecipe(plugin)

Next == VariationBlock \/ RecipeBlock \/ (Returned /\ UNCHANGED vars)

Spec == Init /\ [][Next]_vars

-----------------------------------------------------------------------------
RECIPE_SLOTS == 5

Recipe == [type : {"TIME_LIMITED", "EXECUTION_LIMITED"},
           duration : Nat, max_cycle : Nat]

(* What BenchRunner takes for granted: slots in use without a gap.         *)
TypeOK ==
  /\ variations \subseteq 0 .. 15 /\ nb_variations \in Nat
  /\ max_recipe <= RECIPE_SLOTS
  /\ recipes \in [0 .. max_recipe - 1 -> Recipe]

(* main goes by nb_variations and then by the entries of variations: if    *)
(* they disagreed, it would run nothing, or ignore what is registered      *)
(* (main.c:135-150).                                                       *)
VariationsCounted ==
  /\ nb_variations = Cardinality(variations)
  /\ Returned => variations = wanted

(* What a recipe asks for, if the product fits.                            *)
Asks(entry, o) ==
  \/ /\ o.kind = "time" /\ entry.type = "TIME_LIMITED"
     /\ o.limit * 1000 <= INT_MAX => entry.duration = o.limit * 1000
  \/ /\ o.kind = "exec" /\ entry.type = "EXECUTION_LIMITED"
     /\ entry.max_cycle = o.limit

(* The enabled recipes among ms, and where in the table m is to be.        *)
Enabled(ms) == {m \in ms : option[m] # Off}
Slot(m) == Cardinality(Enabled(1 .. m - 1))

(* Whichever recipes are left out and whichever kinds the others are, the  *)
(* table has one entry for each recipe passed, in order and side by side,  *)
(* with the limit of its own kind.                                         *)
TableFollowsOptions ==
  /\ max_recipe = Cardinality(Enabled(1 .. n - 1))
  /\ \A m \in Enabled(1 .. n - 1) : Asks(recipes[Slot(m)], option[m])

(* "Enable test recipe 3" (Config.aes:111, Config.sha:111, Config.md5:85): *)
(* every recipe that is enabled is in the table.                           *)
EnabledRecipesRun ==
  Returned => max_recipe = Cardinality(Enabled(OfferedRecipes))

(* "Time Limit (msecs)" (Config.md5:35): a recipe runs for the time asked  *)
(* for.                                                                    *)
TimeLimitsKept ==
  \A m \in Enabled(1 .. n - 1) :
    option[m].kind = "time" =>
      recipes[Slot(m)].duration = option[m].limit * 1000
=============================================================================
