------------------------------- MODULE AesOfb -------------------------------
(***************************************************************************)
(* The AES output feedback mode of WjCryptLib_AesOfb.c.  The cipher block  *)
(* in the context is the IV encrypted n + 1 times and is named by the IV   *)
(* and n; its byte b is byte n * AES_BLOCK_SIZE + b of the key stream.     *)
(***************************************************************************)
EXTENDS Integers, Sequences

CONSTANTS
  AES_BLOCK_SIZE,
  IVs,       \* initialisation vectors
  Sizes,     \* lengths of the buffers callers pass
  MaxBlock   \* bound: cipher blocks used before another IV is set

VARIABLES
  IV,                      \* the IV the context was initialised with
  CurrentCipherBlock,      \* Context->CurrentCipherBlock, by its number
  IndexWithinCipherBlock,  \* Context->IndexWithinCipherBlock
  out                      \* history: what the last call XORed the buffer with

vars == <<IV, CurrentCipherBlock, IndexWithinCipherBlock, out>>

Init ==
  /\ IV \in IVs
  /\ CurrentCipherBlock = 0 /\ IndexWithinCipherBlock = 0
  /\ out = <<>>

AesOfbInitialise(i) ==
  /\ IV' = i
  /\ CurrentCipherBlock' = 0 /\ IndexWithinCipherBlock' = 0
  /\ out' = <<>>

-----------------------------------------------------------------------------
AmountAvailableInBlock == AES_BLOCK_SIZE - IndexWithinCipherBlock

FirstChunkSize(Size) ==
  IF AmountAvailableInBlock < Size THEN AmountAvailableInBlock ELSE Size

(* Rounds of the loop, each of which generates a block and takes from it.  *)
Rounds(Size) ==
  (Size - FirstChunkSize(Size) + AES_BLOCK_SIZE - 1) \div AES_BLOCK_SIZE

(* chunkSize as the loop leaves it.                                        *)
LastChunkSize(Size) ==
  IF Rounds(Size) = 0 THEN FirstChunkSize(Size)
  ELSE Size - FirstChunkSize(Size) - (Rounds(Size) - 1) * AES_BLOCK_SIZE

(* Mutant: the loop adds to the index of the block before.                 *)
IndexAfterAdding(Size) == IndexWithinCipherBlock + Size

IndexAfter(Size) ==
  IF Rounds(Size) = 0 THEN IndexWithinCipherBlock + FirstChunkSize(Size)
  ELSE LastChunkSize(Size)

(* What byte k of the buffer, counted from 0, is XORed with.               *)
StreamByte(Size, k) ==
  LET first == FirstChunkSize(Size)
      block == CurrentCipherBlock + 1 + ((k - first) \div AES_BLOCK_SIZE)
  IN
  IF k < first
  THEN <<IV, CurrentCipherBlock * AES_BLOCK_SIZE
               + (AES_BLOCK_SIZE - AmountAvailableInBlock) + k>>
  ELSE <<IV, block * AES_BLOCK_SIZE + ((k - first) % AES_BLOCK_SIZE)>>

AesOfbXor(Size) ==
  /\ CurrentCipherBlock + Rounds(Size) < MaxBlock
  /\ out' = [k \in 1 .. Size |-> StreamByte(Size, k - 1)]
  /\ IF LastChunkSize(Size) = AES_BLOCK_SIZE
     THEN /\ CurrentCipherBlock' = CurrentCipherBlock + Rounds(Size) + 1
          /\ IndexWithinCipherBlock' = 0
     ELSE /\ CurrentCipherBlock' = CurrentCipherBlock + Rounds(Size)
          /\ IndexWithinCipherBlock' = IndexAfter(Size)
  /\ UNCHANGED IV

Next ==
  \/ \E i \in IVs : AesOfbInitialise(i)
  \/ \E n \in Sizes : AesOfbXor(n)

Spec == Init /\ [][Next]_vars

-----------------------------------------------------------------------------
(* The index stays within the cipher block, which it may have passed: a    *)
(* call that takes the rest of a block it did not start leaves it at the   *)
(* block's end, and only a call that takes a block whole replaces it       *)
(* (AesOfb.c:170-174).                                                     *)
TypeOK ==
  /\ IV \in IVs
  /\ CurrentCipherBlock \in Nat
  /\ IndexWithinCipherBlock \in 0 .. AES_BLOCK_SIZE
  /\ DOMAIN out = 1 .. Len(out)

Stream == INSTANCE KeyStream WITH
  iv <- IV,
  pos <- CurrentCipherBlock * AES_BLOCK_SIZE + IndexWithinCipherBlock,
  Positions <- {}

(* However a message is cut into calls, output feedback uses the bytes of  *)
(* the key stream one each and in order (AesOfb.c:120-175).                *)
StreamKept == Stream!Spec
=============================================================================
