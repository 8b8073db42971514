------------------------------- MODULE AesCtr -------------------------------
(***************************************************************************)
(* The AES counter mode of WjCryptLib_AesCtr.c: the context and the calls  *)
(* on it.  A cipher block is named by the IV and the counter it is the     *)
(* encryption of; its byte b, in block c, is byte c * AES_BLOCK_SIZE + b   *)
(* of the key stream.                                                      *)
(***************************************************************************)
EXTENDS Integers, Sequences

CONSTANTS
  AES_BLOCK_SIZE,
  IVs,          \* initialisation vectors
  Sizes,        \* lengths of the buffers callers pass
  SizeModulus,  \* sizes are computed modulo this, 2^32 in the code
  Positions,    \* positions callers seek to
  Careful,      \* after a call that stops inside a block, do callers seek?
  MaxIndex      \* bound: stream position reached

VARIABLES
  IV,                       \* Context->IV
  StreamIndex,              \* Context->StreamIndex
  CurrentCipherBlockIndex,  \* Context->CurrentCipherBlockIndex
  CurrentCipherBlock,       \* Context->CurrentCipherBlock, by its name
  loose,                    \* client: did the last call stop inside a block?
  out                       \* history: what the last call XORed the buffer with

vars == <<IV, StreamIndex, CurrentCipherBlockIndex, CurrentCipherBlock,
          loose, out>>

CreateCurrentCipherBlock(i, index) == <<i, index>>

(* A byte of a cipher block, by its place in the key stream.               *)
KeyByte(block, b) == <<block[1], block[2] * AES_BLOCK_SIZE + b>>

(* The byte of a buffer no XOR has reached.                                *)
Untouched == <<>>

-----------------------------------------------------------------------------
Init ==
  /\ IV \in IVs
  /\ StreamIndex = 0 /\ CurrentCipherBlockIndex = 0
  /\ CurrentCipherBlock = CreateCurrentCipherBlock(IV, 0)
  /\ loose = FALSE /\ out = <<>>

AesCtrInitialise(i) ==
  /\ IV' = i
  /\ StreamIndex' = 0 /\ CurrentCipherBlockIndex' = 0
  /\ CurrentCipherBlock' = CreateCurrentCipherBlock(i, 0)
  /\ loose' = FALSE /\ out' = <<>>

BlockOf(index) == index \div AES_BLOCK_SIZE

AesCtrSetStreamIndex(index) ==
  LET blockIndex == BlockOf(index) IN
  /\ StreamIndex' = index
  /\ IF blockIndex # CurrentCipherBlockIndex
     THEN /\ CurrentCipherBlockIndex' = blockIndex
          /\ CurrentCipherBlock' = CreateCurrentCipherBlock(IV, blockIndex)
     ELSE UNCHANGED <<CurrentCipherBlockIndex, CurrentCipherBlock>>
  /\ loose' = FALSE /\ out' = <<>>
  /\ UNCHANGED IV

AmountAvailableInBlock == AES_BLOCK_SIZE - (StreamIndex % AES_BLOCK_SIZE)

FirstChunkSize(Size) ==
  IF AmountAvailableInBlock < Size THEN AmountAvailableInBlock ELSE Size

(* Mutant: no block is generated ahead when the last one is used up.       *)
NumIterationsToFill(Size) ==
  ((Size - FirstChunkSize(Size) + AES_BLOCK_SIZE - 1) % SizeModulus)
    \div AES_BLOCK_SIZE

NumIterations(Size) ==
  ((Size - FirstChunkSize(Size) + AES_BLOCK_SIZE) % SizeModulus)
    \div AES_BLOCK_SIZE

(* What byte k of the buffer, counted from 0, is XORed with: a byte of the *)
(* block at hand, or of the block of iteration i of the loop.              *)
StreamByte(Size, k) ==
  LET first == FirstChunkSize(Size)
      i == (k - first) \div AES_BLOCK_SIZE
  IN
  IF k < first
  THEN KeyByte(CurrentCipherBlock, AES_BLOCK_SIZE - AmountAvailableInBlock + k)
  ELSE IF i < NumIterations(Size)
  THEN KeyByte(<<IV, CurrentCipherBlockIndex + 1 + i>>,
               (k - first) % AES_BLOCK_SIZE)
  ELSE Untouched

AesCtrXor(Size) ==
  LET numIterations == NumIterations(Size) IN
  /\ Careful => ~ loose
  /\ StreamIndex + Size <= MaxIndex
  /\ out' = [k \in 1 .. Size |-> StreamByte(Size, k - 1)]
  /\ StreamIndex' = StreamIndex + Size
  /\ IF numIterations > 0
     THEN /\ CurrentCipherBlockIndex' = CurrentCipherBlockIndex + numIterations
          /\ CurrentCipherBlock' = <<IV, CurrentCipherBlockIndex'>>
     ELSE UNCHANGED <<CurrentCipherBlockIndex, CurrentCipherBlock>>
  /\ loose' = (Size < AmountAvailableInBlock)
  /\ UNCHANGED IV

Next ==
  \/ \E i \in IVs : AesCtrInitialise(i)
  \/ \E p \in Positions : AesCtrSetStreamIndex(p)
  \/ \E n \in Sizes : AesCtrXor(n)

Spec == Init /\ [][Next]_vars

-----------------------------------------------------------------------------
TypeOK ==
  /\ IV \in IVs
  /\ StreamIndex \in Nat /\ CurrentCipherBlockIndex \in Nat
  /\ CurrentCipherBlock \in IVs \X Nat
  /\ loose \in BOOLEAN
  /\ DOMAIN out = 1 .. Len(out)

(* The cipher block in the context is the one its index names, through     *)
(* seeks that find the right block already there, and through calls that   *)
(* generate blocks of their own (AesCtr.c:158-164, 243-247).               *)
CipherBlockIsCurrent ==
  CurrentCipherBlock = <<IV, CurrentCipherBlockIndex>>

(* A call uses the bytes of the key stream from the stream position on, as *)
(* AesCtr.c:170 has it: "XORs the stream of byte of the AesCtrContext from *)
(* its current stream position onto the specified buffer".                 *)
FollowsStream ==
  \A k \in DOMAIN out : out[k] = <<IV, StreamIndex - Len(out) + k - 1>>

Stream == INSTANCE KeyStream WITH iv <- IV, pos <- StreamIndex

(* For callers that seek after every call that stops inside a block, the   *)
(* counter mode is the key stream it promises to be (AesCtr.c:148-248).    *)
StreamKept == Stream!Spec
=============================================================================
