----------------------------- MODULE HashPlugin -----------------------------
(***************************************************************************)
(* The hash plug-ins, ba_md5.c and ba_sha.c: what their runners do in each *)
(* state.  A context belongs to each variation; all of them read the test  *)
(* data block by block through one cursor that outlives recipes.           *)
(*                                                                         *)
(* The driver is seen as RunnerCalls, which it implements.                 *)
(***************************************************************************)
EXTENDS Integers, Sequences

CONSTANTS
  Variations,  \* the variations compiled in, {0} for MD5
  block_size,  \* info->block_size
  data_size,   \* info->data_size
  MaxReads     \* bound: blocks read

HashAssumption ==
  /\ block_size \in Nat \ {0} /\ data_size \in Nat \ {0}
  /\ MaxReads \in Nat

(* The block size divides the data size, as in configs/Config.sha:26, 31   *)
(* and ba_md5.c:76-78.                                                     *)
Divides == data_size % block_size = 0

VARIABLES
  phase,             \* RunnerCalls: the state of the last call
  variation,         \* info->curr_variation_index
  curr_block_index,  \* info->curr_block_index
  ctx,               \* is the context of a variation idle, open or final?
  read,              \* history: where the last block read began
  reads,             \* history: blocks read since init
  misused            \* history: was a context used that was not open?

plugin == <<curr_block_index, ctx, read, reads, misused>>
vars == <<phase, variation, plugin>>

Calls == INSTANCE RunnerCalls

(* benchapp_init_MD5, benchapp_init_SHA: the info is zeroed.               *)
Init ==
  /\ Calls!Init
  /\ curr_block_index = 0
  /\ ctx = [u \in Variations |-> "idle"]
  /\ read = 0 /\ reads = 0 /\ misused = FALSE

RunInit ==
  /\ Calls!CallInit
  /\ ctx' = [ctx EXCEPT ![variation] = "open"]
  /\ UNCHANGED <<curr_block_index, read, reads, misused>>

(* Mutant: the cursor is reset one block late.                             *)
StartOfBlockLate ==
  IF curr_block_index * block_size > data_size THEN 0 ELSE curr_block_index

(* The block to read: the cursor, or the first one once it is at the end.  *)
StartOfBlock ==
  IF curr_block_index * block_size >= data_size THEN 0 ELSE curr_block_index

RunRun ==
  /\ Calls!CallRun
  /\ reads < MaxReads
  /\ read' = StartOfBlock * block_size
  /\ curr_block_index' = StartOfBlock + 1
  /\ reads' = reads + 1
  /\ misused' = (misused \/ ctx[variation] # "open")
  /\ UNCHANGED ctx

RunUninit ==
  /\ Calls!CallUninit
  /\ ctx' = [ctx EXCEPT ![variation] = "final"]
  /\ misused' = (misused \/ ctx[variation] # "open")
  /\ UNCHANGED <<curr_block_index, read, reads>>

(* The driver moves on: the plug-in does not notice.  Its runner never     *)
(* answers BENCH_TEST_FAILURE, so recipes are left only when finalised.    *)
Between ==
  /\ Calls!Leave \/ \E u \in Variations : Calls!Select(u)
  /\ UNCHANGED plugin

Next == RunInit \/ RunRun \/ RunUninit \/ Between

Spec == Init /\ [][Next]_vars

-----------------------------------------------------------------------------
(* The blocks there are: the last one is cut short by the end of the data  *)
(* if the sizes do not divide.                                             *)
DataBlocks == (data_size + block_size - 1) \div block_size

(* The cursor goes no further than the end of the data.                    *)
TypeOK ==
  /\ phase \in {"IDLE", "INIT", "RUN", "UNINIT"}
  /\ variation \in Variations
  /\ curr_block_index \in 0 .. DataBlocks /\ read \in Nat /\ reads \in Nat
  /\ ctx \in [Variations -> {"idle", "open", "final"}]
  /\ misused \in BOOLEAN

(* The hash calls of all recipes together go round the test data block by  *)
(* block, without a gap or a repetition where a recipe ends, a variation   *)
(* changes or the cursor wraps (ba_md5.c:32-39, ba_sha.c:58-77).           *)
BlocksCyclic ==
  reads > 0 => read = ((reads - 1) % DataBlocks) * block_size

(* A block that begins in the data ends there, if sizes divide.            *)
ReadsInBounds ==
  /\ read < data_size
  /\ Divides => read + block_size <= data_size

(* No hash context is fed or finalised unless it was initialised since it  *)
(* was last finalised, as Md5.c:258-259 and its like in the SHA files      *)
(* require, whatever variations come before and after.                     *)
ContextsOpened == ~ misused

(* One context at most is open: the one of the recipe under way.           *)
OneContextOpen ==
  \A u \in Variations :
    ctx[u] = "open" <=> u = variation /\ phase \in {"INIT", "RUN"}
=============================================================================
