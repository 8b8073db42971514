------------------------------ MODULE MCPlugins ------------------------------
(***************************************************************************)
(* A hash plug-in and the AES plug-in, each with the info of its own; the  *)
(* driver runs one of them.  Or the tables of a plug-in are filled from a  *)
(* configuration: any configuration then, and one of each otherwise.       *)
(*                                                                         *)
(* Three variations; test data of four blocks to hash, read three times    *)
(* round; data to encrypt of whole blocks and without.  Makefile:18        *)
(* defines the randomisation macro as y or not at all; 1 is there to see   *)
(* the branch of ba_aes.c that this never compiles.  An int has 16 bits    *)
(* and a long has 24: the product of 2 and 1000 fits an int, and the one   *)
(* of 40 and 1000 does not.                                                *)
(***************************************************************************)
EXTENDS Integers, Sequences

CONSTANTS
  Variations, block_size, data_size, MaxReads,
  Macros, DataSizes, MaxCalls, Times, Counts, INT_MAX, LongModulus

VARIABLES
  running,       \* the plug-in that runs, or "tables"
  phase, variation, curr_block_index, ctx, read, reads, misused,
  aes_phase, aes_variation, macro, aes_data_size, aes_ctx, data, encrypted,
  keys, fills, calls, timed, through,
  built, wanted, option, v, n, nb_variations, variations, recipes

hash == <<phase, variation, curr_block_index, ctx, read, reads, misused>>

aes == <<aes_phase, aes_variation, macro, aes_data_size, aes_ctx, data,
         encrypted, keys, fills, calls, timed, through>>

table == <<built, wanted, option, v, n, nb_variations, variations, recipes>>

Hash == INSTANCE HashPlugin

Aes == INSTANCE AesPlugin WITH
  phase <- aes_phase, variation <- aes_variation, ctx <- aes_ctx,
  data_size <- aes_data_size

Tables == INSTANCE PluginTables WITH plugin <- built

ASSUME PluginsAssumption ==
  Hash!HashAssumption /\ Aes!AesAssumption /\ Tables!TableAssumption

PluginsInit ==
  /\ running \in {"hash", "AES", "tables"}
  /\ Hash!Init /\ Aes!Init /\ Tables!Init
  /\ running # "AES" => macro = "undefined" /\ aes_data_size = 32
  /\ running # "tables" => built = "MD5" /\ Tables!Enabled(DOMAIN option) = {}

PluginsNext ==
  \/ running = "hash" /\ Hash!Next /\ UNCHANGED <<running, aes, table>>
  \/ running = "AES" /\ Aes!Next /\ UNCHANGED <<running, hash, table>>
  \/ running = "tables" /\ Tables!Next /\ UNCHANGED <<running, hash, aes>>

PluginsSpec == PluginsInit /\ [][PluginsNext]_<<running, hash, aes, table>>

-----------------------------------------------------------------------------
(* Both plug-ins: the block cursor goes no further than the end of the     *)
(* data (ba_md5.c:32-39), and a cipher context has one of the key sizes.   *)
(* The recipes in a table are side by side, which the driver goes by.      *)
PluginsTyped == Hash!TypeOK /\ Aes!TypeOK /\ Tables!TypeOK

(* A hash call gets the block after that of the call before, inside the    *)
(* data, where it ends if sizes divide, and a context that takes it.       *)
RunnerKept == Hash!BlocksCyclic /\ Hash!ReadsInBounds /\ Hash!ContextsOpened

(* Without random refills the AES plug-in encrypts what it has put out     *)
(* before, across recipes, keys and variations (ba_aes.c:66-75), under a   *)
(* key that was drawn for the recipe under way and has the size of its     *)
(* variation (ba_aes.c:40-60); of a whole number of blocks, every timed    *)
(* call encrypts (ba_aes.c:73).                                            *)
AesRunnerKept ==
  Aes!OutputIsFedBack /\ Aes!ContextIsCurrent /\ Aes!WholeBlocksEncrypted

(* "Refresh input data in each cycle" (Config.aes:25): with the option set *)
(* the input of a call is fresh.                                           *)
InputIsRefreshed == Aes!InputIsRefreshed

(* As many variations are counted as are set, in the end those that are    *)
(* configured, and a table has one entry for each recipe passed, in order  *)
(* and side by side, with the limit of its own kind (main.c:135-150;       *)
(* ba_sha.c:140-199).                                                      *)
TablesKept == Tables!VariationsCounted /\ Tables!TableFollowsOptions

(* "Enable test recipe 3" (Config.aes:111, Config.sha:111, Config.md5:85): *)
(* every recipe that is enabled is in the table.                           *)
EnabledRecipesRun == Tables!EnabledRecipesRun

(* "Time Limit (msecs)" (Config.md5:35): a recipe runs for the time asked  *)
(* for.                                                                    *)
TimeLimitsKept == Tables!TimeLimitsKept
=============================================================================
