-------------------------------- MODULE Sha2 --------------------------------
(***************************************************************************)
(* SHA-256 and SHA-512 of WjCryptLib_Sha256.c and WjCryptLib_Sha512.c,     *)
(* which differ in their constants: how a context collects a message into  *)
(* blocks and pads it.  What the compression function makes of a block is  *)
(* left out; that it gets the right blocks, in order, is the point here.   *)
(*                                                                         *)
(* An update takes one turn of its loop per step.  Callers initialise a    *)
(* context again after finalising it, as Sha256.c:222-223 requires.        *)
(***************************************************************************)
EXTENDS BlockBuffer

CONSTANTS
  BLOCK_SIZE,     \* 64 and 128
  LENGTH_SIZE,    \* 8 and 16: padding stops this far from the block's end
  STORED_SIZE,    \* 8: bytes STORE64H writes the length to
  LengthModulus,  \* 2^61: bytes a message may have before length wraps
  Sizes,          \* lengths of the buffers callers pass
  MaxFed          \* bound: length of a message

(* Assumed by the modules that use this one.                               *)
Sha2Assumption ==
  /\ BLOCK_SIZE \in Nat /\ LENGTH_SIZE \in Nat /\ STORED_SIZE \in Nat
  /\ 0 < STORED_SIZE /\ STORED_SIZE <= LENGTH_SIZE
  /\ LENGTH_SIZE < BLOCK_SIZE
  /\ LengthModulus \in Nat \ {0}
  /\ Sizes \subseteq Nat
  /\ MaxFed \in Nat

VARIABLES
  curlen,    \* Context->curlen
  length,    \* Context->length, in bits
  buf,       \* Context->buf
  absorbed,  \* history: the bytes TransformFunction was given, in order
  todo,      \* BufferSize, what is left of the buffer of the current call
  fed,       \* history: bytes of the message callers have passed
  digest     \* history: what was hashed, once Finalise has run

vars == <<curlen, length, buf, absorbed, todo, fed, digest>>

Hash == INSTANCE MessageHash

Init ==
  /\ curlen = 0 /\ length = 0
  /\ buf = Cleared(BLOCK_SIZE)
  /\ absorbed = <<>> /\ todo = 0 /\ fed = 0 /\ digest = <<>>

AddBits(n) == (length + 8 * n) % (8 * LengthModulus)

-----------------------------------------------------------------------------
Sha2Initialise ==
  /\ todo = 0
  /\ curlen' = 0 /\ length' = 0
  /\ absorbed' = <<>> /\ fed' = 0 /\ digest' = <<>>
  /\ UNCHANGED <<buf, todo>>

Sha2Update(n) ==
  /\ todo = 0 /\ digest = <<>>
  /\ curlen <= BLOCK_SIZE
  /\ fed + n <= MaxFed
  /\ todo' = n /\ fed' = fed + n
  /\ UNCHANGED <<curlen, length, buf, absorbed, digest>>

(* The next byte of the caller's buffer is byte fed - todo.                *)
TakeBlock ==
  /\ todo > 0
  /\ curlen = 0 /\ todo >= BLOCK_SIZE
  /\ absorbed' = absorbed \o Message(fed - todo, BLOCK_SIZE)
  /\ length' = AddBits(BLOCK_SIZE)
  /\ todo' = todo - BLOCK_SIZE
  /\ UNCHANGED <<curlen, buf, fed, digest>>

Room == BLOCK_SIZE - curlen

IsFull(used) == used = BLOCK_SIZE

TakeBytes ==
  LET n == IF todo < Room THEN todo ELSE Room
      filled == Store(buf, curlen, Message(fed - todo, n))
  IN
  /\ todo > 0 /\ ~ (curlen = 0 /\ todo >= BLOCK_SIZE)
  /\ buf' = filled /\ todo' = todo - n
  /\ IF IsFull(curlen + n)
     THEN /\ absorbed' = absorbed \o Bytes(filled, BLOCK_SIZE)
          /\ length' = AddBits(BLOCK_SIZE)
          /\ curlen' = 0
     ELSE curlen' = curlen + n /\ UNCHANGED <<absorbed, length>>
  /\ UNCHANGED <<fed, digest>>

-----------------------------------------------------------------------------
(* The one bit may leave too little room for the length: the block is then *)
(* filled with zeros and hashed, and the length goes into another one.     *)
NeedsBlock(used) == used > BLOCK_SIZE - LENGTH_SIZE

(* The length, which the code writes into the last bytes of the buffer, is *)
(* the bits of the digest.                                                 *)
Sha2Finalise ==
  LET used == curlen + 1
      closed == Closed(buf, curlen)
      full == IF NeedsBlock(used) THEN Bytes(closed, BLOCK_SIZE) ELSE <<>>
      last == IF NeedsBlock(used) THEN Cleared(BLOCK_SIZE) ELSE closed
  IN
  /\ todo = 0 /\ digest = <<>>
  /\ curlen < BLOCK_SIZE
  /\ length' = AddBits(curlen)
  /\ absorbed' = absorbed \o full \o Bytes(last, BLOCK_SIZE - STORED_SIZE)
  /\ digest' = <<[text |-> absorbed', bits |-> length']>>
  /\ buf' = last
  /\ curlen' = BLOCK_SIZE - STORED_SIZE
  /\ UNCHANGED <<todo, fed>>

Next ==
  \/ Sha2Initialise
  \/ (\E n \in Sizes : Sha2Update(n)) \/ TakeBlock \/ TakeBytes
  \/ Sha2Finalise

Spec == Init /\ [][Next]_vars /\ WF_vars(TakeBlock \/ TakeBytes)

-----------------------------------------------------------------------------
(* The buffer is never left full, so there is always room for the one bit  *)
(* and the early returns that guard the buffer (Sha256.c:188-191, 234-237) *)
(* are never taken.                                                        *)
TypeOK ==
  /\ curlen \in 0 .. BLOCK_SIZE - 1
  /\ length \in Nat /\ todo \in Nat /\ fed \in Nat
  /\ DOMAIN buf = 0 .. BLOCK_SIZE - 1
  /\ Len(digest) <= 1

(* Every byte a caller has passed is in exactly one place: hashed, in the  *)
(* buffer, or still to be taken from the caller's buffer; hashed bytes are *)
(* those of the message from its start, the others follow                  *)
(* (Sha256.c:193-216).                                                     *)
NothingLost ==
  digest = <<>> =>
    /\ absorbed = Message(0, fed - todo - curlen)
    /\ \A k \in 0 .. curlen - 1 : buf[k] = fed - todo - curlen + k
    /\ length = (8 * Len(absorbed)) % (8 * LengthModulus)

(* The digest is that of the padded message, whatever calls the message    *)
(* came in (Sha256.c:178-266, Sha512.c:180-270).                           *)
HashKept == Hash!Spec

(* An update takes all of the buffer it was given (Sha256.c:193).          *)
UpdateReturns == todo > 0 ~> todo = 0
=============================================================================
