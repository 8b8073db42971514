------------------------------ MODULE AesPlugin ------------------------------
(***************************************************************************)
(* The AES plug-in, ba_aes.c: what its runner does in each state.  Buffers *)
(* are seen as a whole, by where their contents come from: a fill with     *)
(* random bytes, the zeros of init or a call of AesCbcEncrypt.             *)
(*                                                                         *)
(* The driver is seen as RunnerCalls, which it implements.                 *)
(***************************************************************************)
EXTENDS Integers

CONSTANTS
  Variations,  \* the variations compiled in, among 0, 1 and 2
  Macros,      \* what the build may define the data randomisation macro as
  DataSizes,   \* values of the "Test Data Size" option
  MaxCalls     \* bound: calls in state RUN, and recipes

(* AES_BLOCK_SIZE of the library.                                          *)
CipherBlockSize == 16

(* Assumed by the modules that use this one.                               *)
AesAssumption ==
  /\ Variations \subseteq {0, 1, 2}
  /\ Macros \subseteq {"undefined", "y", "1"}
  /\ DataSizes \subseteq Nat /\ MaxCalls \in Nat

VARIABLES
  phase,      \* RunnerCalls: the state of the last call
  variation,  \* info->curr_variation_index
  macro,      \* configuration: CONFIG_BENCHMARK_AES_DATA_RANDOMISATION
  data_size,  \* configuration: info->data_size
  ctx,        \* info->cbc_ctx: its key, by number, and the key's size
  data,       \* info->data
  encrypted,  \* info->encrypted
  keys,       \* history: keys drawn
  fills,      \* history: times info->data was filled with random bytes
  calls,      \* history: calls in state RUN
  timed,      \* history: those of the last recipe
  through     \* history: those of them that encrypted their input

config == <<macro, data_size>>
plugin == <<ctx, data, encrypted, keys, fills, calls, timed, through>>
vars == <<phase, variation, config, plugin>>

Calls == INSTANCE RunnerCalls

(* The contents of a buffer.                                               *)
Zeros == <<"zeros", 0>>
Random(k) == <<"random", k>>
Cipher(k) == <<"cipher", k>>

-----------------------------------------------------------------------------
(* benchapp_init_AES fills the data and clears the other buffers.          *)
Init ==
  /\ Calls!Init
  /\ macro \in Macros /\ data_size \in DataSizes
  /\ ctx = [key |-> 0, size |-> 0]
  /\ data = Random(1) /\ encrypted = Zeros
  /\ keys = 0 /\ fills = 1 /\ calls = 0 /\ timed = 0 /\ through = 0

(* Mutant: the size is given in bits.                                      *)
KeySizeInBits ==
  IF variation = 0 THEN 128 ELSE IF variation = 1 THEN 192 ELSE 256

KeySize == IF variation = 0 THEN 16 ELSE IF variation = 1 THEN 24 ELSE 32

(* A key is drawn and both contexts are set up with it.                    *)
RunInit ==
  /\ Calls!CallInit
  /\ keys < MaxCalls /\ keys' = keys + 1
  /\ ctx' = [key |-> keys', size |-> KeySize]
  /\ timed' = 0 /\ through' = 0
  /\ UNCHANGED <<config, data, encrypted, fills, calls>>

(* What #if makes of the macro: y names no macro, and counts as 0.         *)
Randomise == macro = "1"

(* Mutant: the copy goes from data to encrypted.                           *)
InputCopiedBack == IF Randomise THEN Random(fills + 1) ELSE data

(* What the data is set to before it is encrypted.                         *)
Input == IF Randomise THEN Random(fills + 1) ELSE encrypted

(* AesCbcEncrypt refuses other sizes, and touches nothing.                 *)
Encrypts == data_size % CipherBlockSize = 0

RunRun ==
  /\ Calls!CallRun
  /\ calls < MaxCalls /\ calls' = calls + 1
  /\ data' = Input
  /\ fills' = IF Randomise THEN fills + 1 ELSE fills
  /\ encrypted' = IF Encrypts THEN Cipher(calls') ELSE encrypted
  /\ timed' = timed + 1
  /\ through' = IF Encrypts THEN through + 1 ELSE through
  /\ UNCHANGED <<config, ctx, keys>>

RunUninit == Calls!CallUninit /\ UNCHANGED <<config, plugin>>

(* The driver moves on: the plug-in does not notice.  Its runner never     *)
(* answers BENCH_TEST_FAILURE, so recipes are left only when finished.     *)
Between ==
  /\ Calls!Leave \/ \E u \in Variations : Calls!Select(u)
  /\ UNCHANGED <<config, plugin>>

Next == RunInit \/ RunRun \/ RunUninit \/ Between

Spec == Init /\ [][Next]_vars

-----------------------------------------------------------------------------
Contents == {"zeros", "random", "cipher"} \X Nat

TypeOK ==
  /\ phase \in {"IDLE", "INIT", "RUN", "UNINIT"} /\ variation \in Variations
  /\ macro \in Macros /\ data_size \in DataSizes
  /\ ctx \in [key : 0 .. keys, size : {0, 16, 24, 32}]
  /\ data \in Contents /\ encrypted \in Contents
  /\ keys \in Nat /\ fills \in Nat /\ calls \in Nat
  /\ timed \in 0 .. calls /\ through \in 0 .. timed

(* Without random refills the plug-in encrypts, from the second call on    *)
(* and across recipes, keys and variations, what it has put out before;    *)
(* the random bytes init filled the data with are never encrypted.         *)
OutputIsFedBack ==
  calls > 0 /\ ~ Randomise =>
    data = IF calls = 1 \/ ~ Encrypts THEN Zeros ELSE Cipher(calls - 1)

(* The key in use was drawn for the recipe under way, and has the size of  *)
(* its variation.                                                          *)
ContextIsCurrent ==
  phase \in {"INIT", "RUN"} => ctx = [key |-> keys, size |-> KeySize]

(* Of a whole number of blocks, every timed call encrypts.                 *)
WholeBlocksEncrypted ==
  Encrypts => /\ through = timed
              /\ calls > 0 => encrypted = Cipher(calls)

(* "Refresh input data in each cycle" (Config.aes:25): with the option set *)
(* the input of a call is fresh.                                           *)
InputIsRefreshed ==
  macro # "undefined" /\ phase = "RUN" => data = Random(fills) /\ fills > 1
=============================================================================
