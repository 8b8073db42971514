--------------------------- MODULE Plugins_proofs ---------------------------
(***************************************************************************)
(* The plug-ins and their tables, for every configuration.                 *)
(*                                                                         *)
(* The cursor of the hash plug-ins goes round the test data, inside it,    *)
(* for every block size and data size, and contexts are used only between  *)
(* their initialisation and their end.  The AES plug-in feeds its output   *)
(* back under the key of the recipe under way.  The tables of a plug-in    *)
(* follow the options they are made from.                                  *)
(***************************************************************************)
EXTENDS MCPlugins, BlockArithmetic, FiniteSetTheorems

-----------------------------------------------------------------------------
(* ba_md5.c and ba_sha.c.  The cursor stands behind the last block read.   *)
Cursor ==
  /\ reads = 0 => curr_block_index = 0 /\ read = 0
  /\ reads > 0 =>
       /\ curr_block_index = ((reads - 1) % Hash!DataBlocks) + 1
       /\ read = ((reads - 1) % Hash!DataBlocks) * block_size

HashInv == Hash!TypeOK /\ Cursor /\ Hash!OneContextOpen /\ Hash!ContextsOpened

-----------------------------------------------------------------------------
(* The cursor is at the end of the data exactly when it has passed all of  *)
(* its blocks.                                                             *)
LEMMA EndOfData ==
  /\ Hash!DataBlocks \in Nat \ {0}
  /\ \A c \in Nat : c * block_size >= data_size <=> c >= Hash!DataBlocks
<1> DEFINE z == data_size + block_size - 1
           m == z % block_size
<1>1. block_size \in Nat \ {0} /\ data_size \in Nat \ {0}
  BY PluginsAssumption DEF Hash!HashAssumption
<1>2. z \in Nat /\ Hash!DataBlocks = z \div block_size
  BY <1>1 DEF Hash!DataBlocks
<1> HIDE DEF z
<1>3. /\ Hash!DataBlocks \in Nat /\ m \in 0 .. block_size - 1
      /\ z = block_size * Hash!DataBlocks + m
  BY <1>1, <1>2, DivMod
<1> HIDE DEF m
<1>4. data_size + block_size - 1 = block_size * Hash!DataBlocks + m
  BY <1>3 DEF z
<1>5. Hash!DataBlocks # 0
  <2>1. SUFFICES ASSUME Hash!DataBlocks = 0 PROVE FALSE
    OBVIOUS
  <2>2. block_size * Hash!DataBlocks = 0
    BY <1>1, <2>1
  <2> QED BY <1>1, <1>3, <1>4, <2>2
<1>6. ASSUME NEW c \in Nat
      PROVE  c * block_size >= data_size <=> c >= Hash!DataBlocks
  <2>1. block_size * c \in Nat /\ block_size * Hash!DataBlocks \in Nat
    BY <1>1, <1>3
  <2>2. ASSUME c < Hash!DataBlocks PROVE block_size * c < data_size
    <3>1. block_size * c + block_size <= block_size * Hash!DataBlocks
      BY <1>1, <1>3, <2>2, MulStep
    <3> QED BY <1>1, <1>3, <1>4, <2>1, <3>1
  <2>3. ASSUME c >= Hash!DataBlocks PROVE block_size * c >= data_size
    <3>1. block_size * c >= block_size * Hash!DataBlocks
      <4>1. CASE c = Hash!DataBlocks
        BY <2>1, <4>1
      <4>2. CASE c # Hash!DataBlocks
        <5>1. block_size * Hash!DataBlocks + block_size <= block_size * c
          BY <1>1, <1>3, <2>3, <4>2, MulStep
        <5> QED BY <1>1, <2>1, <5>1
      <4> QED BY <4>1, <4>2
    <3> QED BY <1>1, <1>3, <1>4, <2>1, <3>1
  <2>4. c * block_size = block_size * c
    BY <1>1
  <2> QED BY <1>1, <1>3, <2>1, <2>2, <2>3, <2>4
<1> QED BY <1>3, <1>5, <1>6

(* The runner picks the block that is due.                                 *)
LEMMA BlockDue ==
  ASSUME HashInv
  PROVE  /\ Hash!StartOfBlock = reads % Hash!DataBlocks
         /\ Hash!StartOfBlock \in 0 .. Hash!DataBlocks - 1
<1>1. /\ Hash!DataBlocks \in Nat \ {0} /\ reads \in Nat
      /\ curr_block_index \in Nat
      /\ curr_block_index * block_size >= data_size
           <=> curr_block_index >= Hash!DataBlocks
  BY EndOfData DEF HashInv, Hash!TypeOK
<1>2. CASE reads = 0
  <2>1. 0 % Hash!DataBlocks = 0
    BY <1>1
  <2> QED BY <1>1, <1>2, <2>1 DEF HashInv, Cursor, Hash!StartOfBlock
<1>3. CASE reads > 0
  <2>0. reads - 1 \in Nat /\ (reads - 1) + 1 = reads
    BY <1>1, <1>3
  <2>1. /\ (reads - 1) % Hash!DataBlocks \in 0 .. Hash!DataBlocks - 1
        /\ reads % Hash!DataBlocks =
             IF ((reads - 1) % Hash!DataBlocks) + 1 = Hash!DataBlocks
             THEN 0 ELSE ((reads - 1) % Hash!DataBlocks) + 1
    <3>1. \A x \in Nat : /\ x % Hash!DataBlocks \in 0 .. Hash!DataBlocks - 1
                         /\ (x + 1) % Hash!DataBlocks =
                              IF (x % Hash!DataBlocks) + 1 = Hash!DataBlocks
                              THEN 0 ELSE (x % Hash!DataBlocks) + 1
      BY <1>1, DivMod, ModNext
    <3> QED BY <2>0, <3>1
  <2>2. curr_block_index = ((reads - 1) % Hash!DataBlocks) + 1
    BY <1>3 DEF HashInv, Cursor
  <2> QED BY <1>1, <2>1, <2>2 DEF Hash!StartOfBlock
<1> QED BY <1>1, <1>2, <1>3

-----------------------------------------------------------------------------
LEMMA HashInitially == Hash!Init => HashInv
<1> SUFFICES ASSUME Hash!Init PROVE HashInv
  OBVIOUS
<1> USE DEF Hash!Init, Hash!Calls!Init
<1>1. Hash!TypeOK
  <2>1. 0 \in 0 .. Hash!DataBlocks
    BY EndOfData
  <2> QED BY <2>1 DEF Hash!TypeOK
<1>2. Cursor
  BY DEF Cursor
<1>3. Hash!OneContextOpen /\ Hash!ContextsOpened
  BY DEF Hash!OneContextOpen, Hash!ContextsOpened
<1> QED BY <1>1, <1>2, <1>3 DEF HashInv

LEMMA HashInductive == HashInv /\ [Hash!Next]_hash => HashInv'
<1> SUFFICES ASSUME HashInv, [Hash!Next]_hash PROVE HashInv'
  OBVIOUS
<1> USE DEF HashInv
<1>0. Hash!DataBlocks \in Nat \ {0} /\ block_size \in Nat \ {0}
  BY EndOfData, PluginsAssumption DEF Hash!HashAssumption
<1>1. CASE Hash!RunInit
  <2> USE <1>1 DEF Hash!RunInit, Hash!Calls!CallInit
  <2>1. Hash!TypeOK'
    BY DEF Hash!TypeOK, Hash!DataBlocks
  <2>2. Cursor'
    BY DEF Cursor, Hash!DataBlocks
  <2>3. Hash!OneContextOpen' /\ Hash!ContextsOpened'
    BY DEF Hash!OneContextOpen, Hash!ContextsOpened, Hash!TypeOK
  <2> QED BY <2>1, <2>2, <2>3
<1>2. CASE Hash!RunRun
  <2>1. /\ reads \in Nat /\ reads' = reads + 1
        /\ curr_block_index' = (reads % Hash!DataBlocks) + 1
        /\ read' = (reads % Hash!DataBlocks) * block_size
        /\ reads % Hash!DataBlocks \in 0 .. Hash!DataBlocks - 1
    BY <1>2, BlockDue DEF Hash!RunRun, Hash!TypeOK
  <2>2. read' \in Nat
    BY <1>0, <2>1
  <2>3. Hash!TypeOK'
    BY <1>0, <1>2, <2>1, <2>2
       DEF Hash!TypeOK, Hash!RunRun, Hash!DataBlocks, Hash!Calls!CallRun
  <2>4. Cursor'
    <3>1. reads' > 0 /\ reads' - 1 = reads
      BY <2>1
    <3> QED BY <2>1, <3>1 DEF Cursor, Hash!DataBlocks
  <2>5. Hash!OneContextOpen' /\ Hash!ContextsOpened'
    BY <1>2 DEF Hash!OneContextOpen, Hash!ContextsOpened, Hash!TypeOK,
                Hash!RunRun, Hash!Calls!CallRun
  <2> QED BY <2>3, <2>4, <2>5
<1>3. CASE Hash!RunUninit
  <2> USE <1>3 DEF Hash!RunUninit, Hash!Calls!CallUninit
  <2>1. Hash!TypeOK'
    BY DEF Hash!TypeOK, Hash!DataBlocks
  <2>2. Cursor'
    BY DEF Cursor, Hash!DataBlocks
  <2>3. Hash!OneContextOpen' /\ Hash!ContextsOpened'
    BY DEF Hash!OneContextOpen, Hash!ContextsOpened, Hash!TypeOK
  <2> QED BY <2>1, <2>2, <2>3
<1>4. CASE Hash!Between
  <2> USE <1>4 DEF Hash!Between, Hash!plugin
  <2>1. /\ phase \in {"UNINIT", "IDLE"} /\ phase' = "IDLE"
        /\ variation' \in Variations
    BY DEF Hash!Calls!Leave, Hash!Calls!Select, Hash!TypeOK
  <2>2. Hash!TypeOK'
    BY <2>1 DEF Hash!TypeOK, Hash!DataBlocks
  <2>3. Cursor'
    BY DEF Cursor, Hash!DataBlocks
  <2>4. Hash!OneContextOpen' /\ Hash!ContextsOpened'
    BY <2>1 DEF Hash!OneContextOpen, Hash!ContextsOpened
  <2> QED BY <2>2, <2>3, <2>4
<1>5. CASE UNCHANGED hash
  BY <1>5 DEF hash, Hash!TypeOK, Cursor, Hash!OneContextOpen,
              Hash!ContextsOpened, Hash!DataBlocks
<1> QED BY <1>1, <1>2, <1>3, <1>4, <1>5 DEF Hash!Next

LEMMA HashInvariance == Hash!Spec => []HashInv
<1>1. [Hash!Next]_(Hash!vars) => [Hash!Next]_hash
  BY DEF Hash!vars, Hash!plugin, hash
<1> QED BY <1>1, HashInitially, HashInductive, PTL DEF Hash!Spec

-----------------------------------------------------------------------------
(* Every block begins in the data, and none runs over its end when the     *)
(* block size divides the data size.                                       *)
LEMMA ReadsStayInBounds == HashInv => Hash!ReadsInBounds
<1> SUFFICES ASSUME HashInv PROVE Hash!ReadsInBounds
  OBVIOUS
<1>0. /\ Hash!DataBlocks \in Nat \ {0} /\ block_size \in Nat \ {0}
      /\ data_size \in Nat \ {0} /\ reads \in Nat
  BY EndOfData, PluginsAssumption DEF Hash!HashAssumption, HashInv, Hash!TypeOK
<1>1. PICK m \in 0 .. Hash!DataBlocks - 1 : read = m * block_size
  <2>1. CASE reads = 0
    BY <1>0, <2>1 DEF HashInv, Cursor
  <2>2. CASE reads > 0
    <3>1. reads - 1 \in Nat
      BY <1>0, <2>2
    <3>2. (reads - 1) % Hash!DataBlocks \in 0 .. Hash!DataBlocks - 1
      BY <1>0, <3>1, DivMod
    <3> QED BY <2>2, <3>2 DEF HashInv, Cursor
  <2> QED BY <1>0, <2>1, <2>2
<1>2. read < data_size
  <2>1. m \in Nat /\ ~ (m >= Hash!DataBlocks) /\ m * block_size \in Nat
    BY <1>0, <1>1
  <2>2. ~ (m * block_size >= data_size)
    BY <2>1, EndOfData
  <2> QED BY <1>0, <1>1, <2>1, <2>2
<1>3. ASSUME Hash!Divides PROVE read + block_size <= data_size
  <2> DEFINE q == data_size \div block_size
  <2>1. q \in Nat /\ data_size = block_size * q
    <3>1. /\ q \in Nat /\ data_size % block_size = 0
          /\ data_size = block_size * q + (data_size % block_size)
      BY <1>0, <1>3, DivMod DEF Hash!Divides
    <3>2. block_size * q \in Nat
      BY <1>0, <3>1
    <3> HIDE DEF q
    <3> QED BY <3>1, <3>2
  <2> HIDE DEF q
  <2>2. Hash!DataBlocks = q
    <3>1. /\ data_size + block_size - 1 = block_size * q + (block_size - 1)
          /\ data_size + block_size - 1 \in Nat
          /\ block_size - 1 \in 0 .. block_size - 1
      BY <1>0, <2>1
    <3> QED BY <1>0, <2>1, <3>1, DivUnique DEF Hash!DataBlocks
  <2>3. block_size * m + block_size <= block_size * q
    BY <1>0, <1>1, <2>1, <2>2, MulStep
  <2>4. m * block_size = block_size * m
    BY <1>0, <1>1
  <2> QED BY <1>1, <2>1, <2>3, <2>4
<1> QED BY <1>2, <1>3 DEF Hash!ReadsInBounds

(* For every block size, data size and set of variations, a call gets the  *)
(* next block of the data and a context that is open, and one context at   *)
(* most is (ba_md5.c:32-39, ba_sha.c:32-80).                               *)
THEOREM RunnerIsKept ==
  Hash!Spec => [](Hash!TypeOK /\ RunnerKept /\ Hash!OneContextOpen)
<1>1. HashInv => Hash!TypeOK /\ RunnerKept /\ Hash!OneContextOpen
  BY ReadsStayInBounds DEF HashInv, Cursor, Hash!BlocksCyclic, RunnerKept
<1> QED BY <1>1, HashInvariance, PTL

-----------------------------------------------------------------------------
(* ba_aes.c.  The output of the last call is there to be fed back: whether *)
(* or not the data is refilled, nothing but a call writes it.              *)
OutputOfLastCall ==
  encrypted = IF calls = 0 \/ ~ Aes!Encrypts THEN Aes!Zeros
              ELSE Aes!Cipher(calls)

AesInv == Aes!TypeOK /\ OutputOfLastCall /\ AesRunnerKept

LEMMA AesInitially == Aes!Init => AesInv
<1> SUFFICES ASSUME Aes!Init PROVE AesInv
  OBVIOUS
<1> USE DEF Aes!Init, Aes!Calls!Init, Aes!Zeros, Aes!Random
<1>1. Aes!TypeOK
  BY DEF Aes!TypeOK, Aes!Contents
<1>2. OutputOfLastCall
  BY DEF OutputOfLastCall
<1>3. AesRunnerKept
  BY DEF AesRunnerKept, Aes!OutputIsFedBack, Aes!ContextIsCurrent,
         Aes!WholeBlocksEncrypted
<1> QED BY <1>1, <1>2, <1>3 DEF AesInv

LEMMA AesInductive == AesInv /\ [Aes!Next]_aes => AesInv'
<1> SUFFICES ASSUME AesInv, [Aes!Next]_aes PROVE AesInv'
  OBVIOUS
<1> USE DEF AesInv, AesRunnerKept
<1>1. CASE Aes!RunInit
  <2> USE <1>1 DEF Aes!RunInit, Aes!Calls!CallInit, Aes!config
  <2>1. keys \in Nat /\ keys' = keys + 1 /\ keys' \in 0 .. keys'
    BY DEF Aes!TypeOK
  <2>2. Aes!KeySize \in {16, 24, 32}
    BY DEF Aes!KeySize
  <2>3. Aes!TypeOK'
    BY <2>1, <2>2 DEF Aes!TypeOK, Aes!Contents
  <2>4. OutputOfLastCall' /\ Aes!OutputIsFedBack'
    BY DEF OutputOfLastCall, Aes!OutputIsFedBack, Aes!Encrypts,
           Aes!Randomise, Aes!Zeros, Aes!Cipher
  <2>5. Aes!ContextIsCurrent'
    BY DEF Aes!ContextIsCurrent, Aes!KeySize
  <2>6. Aes!WholeBlocksEncrypted'
    BY DEF Aes!WholeBlocksEncrypted, Aes!Encrypts, Aes!Cipher
  <2> QED BY <2>3, <2>4, <2>5, <2>6
<1>2. CASE Aes!RunRun
  <2> USE <1>2 DEF Aes!RunRun, Aes!Calls!CallRun, Aes!config
  <2>1. /\ calls \in Nat /\ fills \in Nat /\ calls' = calls + 1
        /\ timed \in 0 .. calls /\ through \in 0 .. timed
    BY DEF Aes!TypeOK
  <2>2. Aes!TypeOK'
    <3>1. data' \in Aes!Contents /\ encrypted' \in Aes!Contents
      BY <2>1 DEF Aes!TypeOK, Aes!Contents, Aes!Input, Aes!Cipher,
                  Aes!Random
    <3>2. fills' \in Nat /\ timed' \in 0 .. calls' /\ through' \in 0 .. timed'
      BY <2>1
    <3> QED BY <2>1, <3>1, <3>2 DEF Aes!TypeOK
  <2>3. OutputOfLastCall'
    BY <2>1 DEF OutputOfLastCall, Aes!Encrypts, Aes!Zeros, Aes!Cipher
  <2>4. Aes!OutputIsFedBack'
    BY <2>1 DEF OutputOfLastCall, Aes!OutputIsFedBack, Aes!Input,
                Aes!Randomise, Aes!Encrypts, Aes!Zeros, Aes!Cipher
  <2>5. Aes!ContextIsCurrent'
    BY DEF Aes!ContextIsCurrent, Aes!KeySize
  <2>6. Aes!WholeBlocksEncrypted'
    BY <2>1 DEF Aes!WholeBlocksEncrypted, Aes!Encrypts, Aes!Cipher
  <2> QED BY <2>2, <2>3, <2>4, <2>5, <2>6
<1>3. ASSUME UNCHANGED <<Aes!config, Aes!plugin>>,
             aes_variation' \in Variations,
             aes_phase' \in {"IDLE", "INIT", "RUN", "UNINIT"},
             aes_phase' \in {"INIT", "RUN"} =>
               aes_phase' = aes_phase /\ aes_variation' = aes_variation
      PROVE  AesInv'
  <2> USE <1>3 DEF Aes!config, Aes!plugin
  <2>1. Aes!TypeOK'
    BY DEF Aes!TypeOK, Aes!Contents
  <2>2. OutputOfLastCall' /\ Aes!OutputIsFedBack'
    BY DEF OutputOfLastCall, Aes!OutputIsFedBack, Aes!Encrypts,
           Aes!Randomise, Aes!Zeros, Aes!Cipher
  <2>3. Aes!ContextIsCurrent'
    BY DEF Aes!ContextIsCurrent, Aes!KeySize
  <2>4. Aes!WholeBlocksEncrypted'
    BY DEF Aes!WholeBlocksEncrypted, Aes!Encrypts, Aes!Cipher
  <2> QED BY <2>1, <2>2, <2>3, <2>4
<1>4. CASE Aes!RunUninit
  BY <1>3, <1>4 DEF Aes!RunUninit, Aes!Calls!CallUninit, Aes!TypeOK
<1>5. CASE Aes!Between
  BY <1>3, <1>5 DEF Aes!Between, Aes!Calls!Leave, Aes!Calls!Select,
                    Aes!TypeOK
<1>6. CASE UNCHANGED aes
  BY <1>3, <1>6 DEF aes, Aes!config, Aes!plugin, Aes!TypeOK
<1> QED BY <1>1, <1>2, <1>4, <1>5, <1>6 DEF Aes!Next

(* Whatever the data size and the macro, the AES plug-in alone keeps its   *)
(* feedback, its key and its count of blocks (ba_aes.c:40-76).             *)
THEOREM AesRunnerIsKept == Aes!Spec => []AesRunnerKept
<1>1. [Aes!Next]_(Aes!vars) => [Aes!Next]_aes
  BY DEF Aes!vars, Aes!config, Aes!plugin, aes
<1>2. AesInv => AesRunnerKept
  BY DEF AesInv
<1> QED BY <1>1, <1>2, AesInitially, AesInductive, PTL DEF Aes!Spec

-----------------------------------------------------------------------------
(* The init functions.  What is registered is what the blocks passed stand *)
(* for: the enabled variations below v, and for every enabled recipe below *)
(* n its entry, in the slot that those before it leave.                    *)
BlocksPassed ==
  /\ built \in Tables!Plugins
  /\ wanted \subseteq Tables!OfferedVariations(built)
  /\ option \in [Tables!OfferedRecipes -> Tables!Option]
  /\ v \in 0 .. 3 /\ n \in 1 .. Tables!LastRecipe(built) + 1

VariationsPassed ==
  variations = wanted \cap (0 .. v - 1)
    /\ nb_variations = Cardinality(variations)

RecipesPassed ==
  /\ recipes \in [0 .. Tables!Slot(n) - 1 -> Tables!Recipe]
  /\ \A m \in Tables!Enabled(1 .. n - 1) :
       recipes[Tables!Slot(m)] = Tables!Entry(option[m])

TablesInv == BlocksPassed /\ VariationsPassed /\ RecipesPassed

(* What is known of the cardinality of sets holds of those PluginTables    *)
(* speaks of, which sees the library through an instance.                  *)
LEMMA SameCardinality ==
  ASSUME NEW S
  PROVE  Tables!Cardinality(S) = Cardinality(S)
BY Zenon DEF Tables!Cardinality, Cardinality, Tables!IsFiniteSet, IsFiniteSet

(* An enabled recipe takes one slot, and one that is not enabled takes     *)
(* none.                                                                   *)
LEMMA SlotNext ==
  ASSUME NEW m \in Nat \ {0}
  PROVE  /\ Tables!Slot(m) \in 0 .. m - 1
         /\ Tables!Slot(m + 1) = IF option[m] = Tables!Off
                                 THEN Tables!Slot(m) ELSE Tables!Slot(m) + 1
<1> DEFINE E == Tables!Enabled(1 .. m - 1)
<1>1. IsFiniteSet(1 .. m - 1) /\ Cardinality(1 .. m - 1) = m - 1
  BY FS_Interval
<1>2. E \subseteq 1 .. m - 1
  BY DEF Tables!Enabled
<1>3. IsFiniteSet(E) /\ Cardinality(E) \in Nat /\ Cardinality(E) <= m - 1
  BY <1>1, <1>2, FS_Subset, FS_CardinalityType
<1>4. Tables!Enabled(1 .. (m + 1) - 1) =
        IF option[m] = Tables!Off THEN E ELSE E \cup {m}
  BY DEF Tables!Enabled
<1>5. m \notin E
  BY <1>2
<1>6. Cardinality(E \cup {m}) = Cardinality(E) + 1
  BY <1>3, <1>5, FS_AddElement
<1>7. /\ Tables!Slot(m) = Cardinality(E)
      /\ Tables!Slot(m + 1) = Cardinality(Tables!Enabled(1 .. (m + 1) - 1))
  BY SameCardinality, Zenon DEF Tables!Slot
<1> HIDE DEF E
<1>8. Tables!Slot(m) \in 0 .. m - 1
  BY <1>3, <1>7
<1>9. Tables!Slot(m + 1) = IF option[m] = Tables!Off
                           THEN Cardinality(E) ELSE Cardinality(E) + 1
  BY <1>4, <1>6, <1>7, Zenon
<1> QED BY <1>7, <1>8, <1>9, Zenon

(* Recipes have slots of their own, in the order of the recipes.           *)
LEMMA SlotsInOrder ==
  ASSUME NEW k \in Nat \ {0}, NEW m \in Tables!Enabled(1 .. k - 1)
  PROVE  Tables!Slot(m) \in 0 .. Tables!Slot(k) - 1
<1>1. m \in 1 .. k - 1 /\ option[m] # Tables!Off /\ m \in Nat \ {0}
  BY DEF Tables!Enabled
<1>2. /\ Tables!Slot(m) \in Nat /\ Tables!Slot(k) \in Nat
      /\ Tables!Slot(m + 1) = Tables!Slot(m) + 1
  <2>1. /\ Tables!Slot(m) \in 0 .. m - 1 /\ Tables!Slot(k) \in 0 .. k - 1
        /\ Tables!Slot(m + 1) = Tables!Slot(m) + 1
    BY <1>1, SlotNext, Zenon
  <2> QED BY <2>1
<1>3. Tables!Slot(m + 1) <= Tables!Slot(k)
  <2>1. Tables!Enabled(1 .. (m + 1) - 1) \subseteq Tables!Enabled(1 .. k - 1)
    BY <1>1 DEF Tables!Enabled
  <2>2. IsFiniteSet(Tables!Enabled(1 .. k - 1))
    <3>1. IsFiniteSet(1 .. k - 1)
      BY FS_Interval
    <3>2. Tables!Enabled(1 .. k - 1) \subseteq 1 .. k - 1
      BY DEF Tables!Enabled
    <3> QED BY <3>1, <3>2, FS_Subset
  <2>3. Cardinality(Tables!Enabled(1 .. (m + 1) - 1))
          <= Cardinality(Tables!Enabled(1 .. k - 1))
    BY <2>1, <2>2, FS_Subset
  <2> QED BY <2>3, SameCardinality, Zenon DEF Tables!Slot
<1> QED BY <1>2, <1>3

(* The entry of an enabled recipe is a recipe, and what was asked for: a   *)
(* time limit that fits is exact, and any other still is a duration.       *)
LEMMA EntryAsked ==
  ASSUME NEW o \in Tables!Option, o # Tables!Off
  PROVE  Tables!Entry(o) \in Tables!Recipe /\ Tables!Asks(Tables!Entry(o), o)
<1> USE DEF Tables!Entry, Tables!Recipe, Tables!Asks
<1>0. /\ Times \subseteq Nat /\ Counts \subseteq Nat
      /\ INT_MAX \in Nat /\ LongModulus \in Nat /\ INT_MAX < LongModulus
  BY PluginsAssumption DEF Tables!TableAssumption
<1>1. CASE o \in [kind : {"exec"}, limit : Counts]
  BY <1>0, <1>1
<1>2. CASE o \in [kind : {"time"}, limit : Times]
  <2> DEFINE x == o.limit * 1000
             width == 2 * (INT_MAX + 1)
             d == Tables!Duration(o.limit)
  <2>1. /\ o.kind = "time" /\ o.limit \in Nat /\ x \in Nat
        /\ width \in Nat \ {0} /\ x >= o.limit
    <3>1. o.kind = "time" /\ o.limit \in Nat
      BY <1>0, <1>2
    <3> QED BY <1>0, <3>1
  <2>2. x % width \in 0 .. width - 1
    <3> HIDE DEF x, width
    <3> QED BY <2>1, DivMod
  <2>3. x <= INT_MAX => x % width = x
    <3>1. x <= INT_MAX => x \in 0 .. width - 1 /\ x = width * 0 + x
      BY <1>0, <2>1
    <3> HIDE DEF x, width
    <3> QED BY <2>1, <3>1, DivUnique
  <2>4. d = IF o.limit > INT_MAX THEN x
            ELSE IF x % width <= INT_MAX THEN x % width
            ELSE LongModulus - (width - (x % width))
    BY DEF Tables!Duration
  <2>5. d \in Nat /\ (x <= INT_MAX => d = x)
    <3> DEFINE r == x % width
    <3>1. r \in Nat /\ r < width /\ (x <= INT_MAX => r = x)
      BY <2>1, <2>2, <2>3
    <3>2. d = IF o.limit > INT_MAX THEN x
              ELSE IF r <= INT_MAX THEN r ELSE LongModulus - (width - r)
      BY <2>4
    <3> HIDE DEF r, d
    <3> QED BY <1>0, <2>1, <3>1, <3>2
  <2> HIDE DEF d
  <2>6. Tables!Entry(o) =
          [type |-> "TIME_LIMITED", duration |-> d, max_cycle |-> 0]
    BY <2>1 DEF d
  <2> QED BY <2>1, <2>5, <2>6
<1> QED BY <1>1, <1>2 DEF Tables!Option

LEMMA TablesInitially == Tables!Init => TablesInv
<1> SUFFICES ASSUME Tables!Init PROVE TablesInv
  OBVIOUS
<1> USE DEF Tables!Init
<1>1. BlocksPassed
  BY DEF BlocksPassed, Tables!LastRecipe, Tables!Plugins
<1>2. VariationsPassed
  <2>1. wanted \cap (0 .. v - 1) = {}
    OBVIOUS
  <2> QED BY <2>1, FS_EmptySet DEF VariationsPassed
<1>3. RecipesPassed
  <2>1. Tables!Slot(n) = 0
    <3>1. Tables!Slot(n) \in 0 .. n - 1
      BY SlotNext
    <3> QED BY <3>1
  <2>2. 0 .. Tables!Slot(n) - 1 = {} /\ Tables!Enabled(1 .. n - 1) = {}
    BY <2>1 DEF Tables!Enabled
  <2>3. recipes \in [{} -> Tables!Recipe]
    OBVIOUS
  <2> QED BY <2>2, <2>3 DEF RecipesPassed
<1> QED BY <1>1, <1>2, <1>3 DEF TablesInv

(* The table is as long as the slots that are taken.                       *)
LEMMA TableLength ==
  ASSUME TablesInv
  PROVE  /\ n \in 1 .. 4 /\ Tables!Slot(n) \in 0 .. n - 1
         /\ Tables!max_recipe = Tables!Slot(n)
<1>1. n \in 1 .. 4 /\ n \in Nat \ {0}
  BY DEF TablesInv, BlocksPassed, Tables!LastRecipe, Tables!Plugins
<1>2. Tables!Slot(n) \in 0 .. n - 1
  BY <1>1, SlotNext
<1>3. DOMAIN recipes = 0 .. Tables!Slot(n) - 1
  BY DEF TablesInv, RecipesPassed
<1>4. Cardinality(0 .. Tables!Slot(n) - 1) = Tables!Slot(n)
  BY <1>1, <1>2, FS_Interval
<1>5. Tables!max_recipe = Cardinality(DOMAIN recipes)
  BY SameCardinality, Zenon DEF Tables!max_recipe
<1> QED BY <1>1, <1>2, <1>3, <1>4, <1>5, Zenon

(* What recipes have to be after a step, when the options stay.            *)
LEMMA RecipesNext ==
  ASSUME UNCHANGED option
  PROVE  RecipesPassed' <=>
           /\ recipes' \in [0 .. Tables!Slot(n') - 1 -> Tables!Recipe]
           /\ \A m \in Tables!Enabled(1 .. n' - 1) :
                recipes'[Tables!Slot(m)] = Tables!Entry(option[m])
<1>1. /\ Tables!Slot(n)' = Tables!Slot(n')
      /\ Tables!Enabled(1 .. n - 1)' = Tables!Enabled(1 .. n' - 1)
  BY Zenon DEF Tables!Slot, Tables!Enabled
<1>2. \A m : Tables!Slot(m)' = Tables!Slot(m)
  BY Zenon DEF Tables!Slot, Tables!Enabled
<1>3. \A m : Tables!Entry(option[m])' = Tables!Entry(option[m])
  BY Zenon
<1> QED BY <1>1, <1>2, <1>3, Zenon DEF RecipesPassed

LEMMA RecipesStay ==
  ASSUME RecipesPassed, UNCHANGED <<option, n, recipes>>
  PROVE  RecipesPassed'
BY RecipesNext, Zenon DEF RecipesPassed

(* A block with its recipe enabled adds the entry behind the others, and   *)
(* one with its recipe off adds none.                                      *)
LEMMA RecipesGrow ==
  ASSUME TablesInv, Tables!RecipeBlock
  PROVE  RecipesPassed'
<1> DEFINE k == Tables!Slot(n)
           Passed == Tables!Enabled(1 .. n - 1)
<1>1. /\ n' = n + 1 /\ option' = option /\ n \in 1 .. 3 /\ n \in Nat \ {0}
      /\ option[n] \in Tables!Option
      /\ recipes' = IF option[n] = Tables!Off THEN recipes
                    ELSE [s \in 0 .. k |->
                            IF s = k THEN Tables!Entry(option[n])
                            ELSE recipes[s]]
  <2>1. n \in 1 .. 4 /\ Tables!max_recipe = k
    BY TableLength
  <2>2. n \in 1 .. 3 /\ n \in Nat \ {0}
    BY <2>1 DEF Tables!RecipeBlock, Tables!LastRecipe, TablesInv,
                BlocksPassed, Tables!Plugins
  <2>3. option[n] \in Tables!Option
    BY <2>2 DEF TablesInv, BlocksPassed, Tables!OfferedRecipes
  <2> QED BY <2>1, <2>2, <2>3, Zenon DEF Tables!RecipeBlock, Tables!config
<1>2. /\ recipes \in [0 .. k - 1 -> Tables!Recipe]
      /\ \A m \in Passed :
           recipes[Tables!Slot(m)] = Tables!Entry(option[m])
  BY Zenon DEF TablesInv, RecipesPassed
<1>3. /\ k \in Nat
      /\ Tables!Slot(n + 1) = IF option[n] = Tables!Off THEN k ELSE k + 1
  <2>1. /\ k \in 0 .. n - 1
        /\ Tables!Slot(n + 1) = IF option[n] = Tables!Off THEN k ELSE k + 1
    BY <1>1, SlotNext, Zenon
  <2> HIDE DEF k
  <2> QED BY <1>1, <2>1
<1>4. Tables!Enabled(1 .. (n + 1) - 1) =
        IF option[n] = Tables!Off THEN Passed ELSE Passed \cup {n}
  BY <1>1 DEF Tables!Enabled
<1>5. \A m \in Passed : Tables!Slot(m) \in 0 .. k - 1
  BY <1>1, SlotsInOrder, Zenon
<1>6. SUFFICES
        /\ recipes' \in [0 .. Tables!Slot(n + 1) - 1 -> Tables!Recipe]
        /\ \A m \in Tables!Enabled(1 .. (n + 1) - 1) :
             recipes'[Tables!Slot(m)] = Tables!Entry(option[m])
  BY <1>1, RecipesNext, Zenon
<1>7. CASE option[n] = Tables!Off
  BY <1>1, <1>2, <1>3, <1>4, <1>7, Zenon
<1>8. CASE option[n] # Tables!Off
  <2> DEFINE e == Tables!Entry(option[n])
  <2>1. e \in Tables!Recipe
    BY <1>1, <1>8, EntryAsked, Zenon
  <2>2. recipes' = [s \in 0 .. k |-> IF s = k THEN e ELSE recipes[s]]
    BY <1>1, <1>8, Zenon
  <2> HIDE DEF e, k, Passed
  <2>3. recipes' \in [0 .. (k + 1) - 1 -> Tables!Recipe]
    BY <1>2, <1>3, <2>1, <2>2
  <2>4. ASSUME NEW m \in Passed
        PROVE  recipes'[Tables!Slot(m)] = Tables!Entry(option[m])
    <3>1. Tables!Slot(m) \in 0 .. k - 1
      BY <1>5
    <3>2. recipes'[Tables!Slot(m)] = recipes[Tables!Slot(m)]
      BY <1>3, <2>2, <3>1
    <3> QED BY <1>2, <3>2, Zenon
  <2>5. recipes'[Tables!Slot(n)] = Tables!Entry(option[n])
    <3>1. recipes'[k] = e
      BY <1>3, <2>2
    <3> QED BY <3>1, Zenon DEF e, k
  <2> QED BY <1>3, <1>4, <1>8, <2>3, <2>4, <2>5, Zenon
<1> QED BY <1>7, <1>8

LEMMA TablesInductive == TablesInv /\ [Tables!Next]_table => TablesInv'
<1> SUFFICES ASSUME TablesInv, [Tables!Next]_table PROVE TablesInv'
  OBVIOUS
<1>0. /\ n \in 1 .. 4 /\ Tables!Slot(n) \in 0 .. n - 1
      /\ Tables!max_recipe = Tables!Slot(n)
  BY TableLength
<1> USE DEF TablesInv, Tables!config
<1>1. CASE Tables!VariationBlock
  <2> USE <1>1 DEF Tables!VariationBlock
  <2>1. built # "MD5" /\ v \in 0 .. 2
    BY DEF Tables!OfferedVariations
  <2>2. BlocksPassed'
    BY <2>1 DEF BlocksPassed
  <2>3. VariationsPassed'
    <3>1. /\ wanted' = wanted /\ v' = v + 1 /\ v \in Nat
          /\ variations = wanted \cap (0 .. v - 1)
          /\ nb_variations = Cardinality(variations)
      BY <2>1 DEF VariationsPassed
    <3>2. CASE v \in wanted
      <4>1. variations' = variations \cup {v} /\ nb_variations' = nb_variations + 1
        BY <3>2
      <4>2. variations' = wanted' \cap (0 .. v' - 1) /\ v \notin variations
        BY <3>1, <3>2, <4>1
      <4>3. IsFiniteSet(variations)
        <5>1. IsFiniteSet(0 .. v - 1) /\ variations \subseteq 0 .. v - 1
          BY <3>1, FS_Interval
        <5> QED BY <5>1, FS_Subset
      <4>4. Cardinality(variations \cup {v}) = Cardinality(variations) + 1
        BY <4>2, <4>3, FS_AddElement
      <4> QED BY <3>1, <4>1, <4>2, <4>4 DEF VariationsPassed
    <3>3. CASE v \notin wanted
      <4>1. wanted' \cap (0 .. v' - 1) = wanted \cap (0 .. v - 1)
        BY <3>1, <3>3
      <4> QED BY <3>1, <3>3, <4>1 DEF VariationsPassed
    <3> QED BY <3>2, <3>3
  <2>4. RecipesPassed'
    BY RecipesStay, Zenon
  <2> QED BY <2>2, <2>3, <2>4
<1>2. CASE Tables!RecipeBlock
  <2> USE <1>2 DEF Tables!RecipeBlock
  <2>1. /\ n' = n + 1 /\ option' = option /\ n \in 1 .. 3
        /\ option[n] \in Tables!Option
    BY <1>0 DEF BlocksPassed, Tables!LastRecipe, Tables!Plugins,
                Tables!OfferedRecipes
  <2>2. BlocksPassed'
    BY <1>0, <2>1 DEF BlocksPassed, Tables!LastRecipe, Tables!Plugins
  <2>3. VariationsPassed'
    BY DEF VariationsPassed
  <2>4. RecipesPassed'
    BY <1>2, RecipesGrow DEF TablesInv
  <2> QED BY <2>2, <2>3, <2>4
<1>3. CASE UNCHANGED table
  <2> USE <1>3 DEF table
  <2>1. BlocksPassed' /\ VariationsPassed'
    BY DEF BlocksPassed, VariationsPassed
  <2>2. RecipesPassed'
    BY RecipesStay, Zenon
  <2> QED BY <2>1, <2>2
<1> QED BY <1>1, <1>2, <1>3 DEF Tables!Next, Tables!vars, table

-----------------------------------------------------------------------------
(* What the tables are is what the invariants of PluginTables ask of them. *)
LEMMA TablesAreKept == TablesInv => Tables!TypeOK /\ TablesKept
<1> SUFFICES ASSUME TablesInv PROVE Tables!TypeOK /\ TablesKept
  OBVIOUS
<1>0. /\ n \in 1 .. 4 /\ Tables!Slot(n) \in 0 .. n - 1
      /\ Tables!max_recipe = Tables!Slot(n)
  BY TableLength
<1>1. wanted \subseteq 0 .. 2 /\ v \in 0 .. 3
  BY DEF TablesInv, BlocksPassed, Tables!OfferedVariations
<1>2. variations = wanted \cap (0 .. v - 1) /\ nb_variations = Cardinality(variations)
  BY DEF TablesInv, VariationsPassed
<1>3. Tables!TypeOK
  <2>1. variations \subseteq 0 .. 15
    BY <1>1, <1>2
  <2>2. nb_variations \in Nat
    <3>1. IsFiniteSet(0 .. v - 1)
      BY <1>1, FS_Interval
    <3>2. IsFiniteSet(variations)
      <4>1. variations \subseteq 0 .. v - 1
        BY <1>2
      <4> QED BY <3>1, <4>1, FS_Subset
    <3> QED BY <1>2, <3>2, FS_CardinalityType
  <2>3. Tables!max_recipe <= Tables!RECIPE_SLOTS
    BY <1>0 DEF Tables!RECIPE_SLOTS
  <2>4. recipes \in [0 .. Tables!max_recipe - 1 -> Tables!Recipe]
    BY <1>0, Zenon DEF TablesInv, RecipesPassed
  <2> QED BY <2>1, <2>2, <2>3, <2>4, Zenon DEF Tables!TypeOK
<1>4. Tables!VariationsCounted
  <2>1. nb_variations = Tables!Cardinality(variations)
    BY <1>2, SameCardinality, Zenon
  <2>2. ASSUME Tables!Returned PROVE variations = wanted
    <3>1. wanted \subseteq 0 .. v - 1
      BY <1>1, <2>2 DEF Tables!Returned, Tables!OfferedVariations,
                        TablesInv, BlocksPassed
    <3> QED BY <1>2, <3>1
  <2> QED BY <2>1, <2>2 DEF Tables!VariationsCounted
<1>5. Tables!TableFollowsOptions
  <2>1. Tables!max_recipe = Tables!Cardinality(Tables!Enabled(1 .. n - 1))
    BY <1>0, Zenon DEF Tables!Slot
  <2>2. ASSUME NEW m \in Tables!Enabled(1 .. n - 1)
        PROVE  Tables!Asks(recipes[Tables!Slot(m)], option[m])
    <3>1. m \in 1 .. n - 1 /\ option[m] # Tables!Off
      BY Zenon DEF Tables!Enabled
    <3>2. option[m] \in Tables!Option
      BY <1>0, <3>1 DEF TablesInv, BlocksPassed, Tables!OfferedRecipes
    <3>3. recipes[Tables!Slot(m)] = Tables!Entry(option[m])
      BY Zenon DEF TablesInv, RecipesPassed
    <3> QED BY <3>1, <3>2, <3>3, EntryAsked, Zenon
  <2> QED BY <2>1, <2>2, Zenon DEF Tables!TableFollowsOptions
<1> QED BY <1>3, <1>4, <1>5 DEF TablesKept

(* Whichever options are set, the tables that the init functions leave are *)
(* those that the driver counts on (ba_sha.c:140-199; main.c:135-150).     *)
THEOREM TablesFollow == Tables!Spec => []TablesKept
<1>1. [Tables!Next]_(Tables!vars) => [Tables!Next]_table
  BY DEF Tables!vars, Tables!config, table
<1>2. TablesInv => TablesKept
  BY TablesAreKept
<1> QED BY <1>1, <1>2, TablesInitially, TablesInductive, PTL DEF Tables!Spec

-----------------------------------------------------------------------------
PluginsInv == HashInv /\ AesInv /\ TablesInv

LEMMA PluginsInductive ==
  PluginsInv /\ [PluginsNext]_<<running, hash, aes, table>> => PluginsInv'
<1> SUFFICES ASSUME PluginsInv, [PluginsNext]_<<running, hash, aes, table>>
             PROVE  PluginsInv'
  OBVIOUS
<1>1. [Hash!Next]_hash /\ [Aes!Next]_aes /\ [Tables!Next]_table
  BY Zenon DEF PluginsNext
<1> QED BY <1>1, HashInductive, AesInductive, TablesInductive, Zenon
        DEF PluginsInv

(* For every set of variations, every block size and data size, every set  *)
(* of time and execution limits and every width of an int and a long: the  *)
(* hash plug-ins go round their data with open contexts, the AES plug-in   *)
(* feeds back what it put out under the key of the recipe under way, and   *)
(* the tables follow the options (ba_md5.c:32-39, ba_aes.c:40-75,          *)
(* ba_sha.c:140-199).                                                      *)
THEOREM PluginsAreKept ==
  PluginsSpec => [](PluginsTyped /\ RunnerKept /\ AesRunnerKept /\ TablesKept)
<1>1. PluginsInit => PluginsInv
  BY HashInitially, AesInitially, TablesInitially, Zenon
     DEF PluginsInit, PluginsInv
<1>2. PluginsInv => PluginsTyped /\ RunnerKept /\ AesRunnerKept /\ TablesKept
  BY ReadsStayInBounds, TablesAreKept
     DEF PluginsInv, PluginsTyped, HashInv, AesInv, Cursor, Hash!BlocksCyclic,
         RunnerKept
<1> QED BY <1>1, <1>2, PluginsInductive, PTL DEF PluginsSpec
=============================================================================
