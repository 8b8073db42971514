--------------------------------- MODULE Md5 ---------------------------------
(***************************************************************************)
(* MD5 of WjCryptLib_Md5.c: how a context collects a message into blocks,  *)
(* counts its length in two words of different width, and pads it.  The    *)
(* compression function is left out; that it gets the right blocks, in     *)
(* order, is the point here.                                               *)
(*                                                                         *)
(* Callers initialise a context again after finalising it, as Md5.c:258    *)
(* requires.                                                               *)
(***************************************************************************)
EXTENDS BlockBuffer

CONSTANTS
  BLOCK_SIZE,   \* 64
  LENGTH_SIZE,  \* 8: bytes at the end of the last block for the length
  LO,           \* 2^29: lo counts bytes modulo this
  HI,           \* 2^32: hi counts the overflows of lo modulo this
  Sizes,        \* lengths of the buffers callers pass
  MaxFed        \* bound: length of a message

(* Assumed by the modules that use this one.                               *)
Md5Assumption ==
  /\ BLOCK_SIZE \in Nat /\ LENGTH_SIZE \in Nat
  /\ 0 < LENGTH_SIZE /\ LENGTH_SIZE < BLOCK_SIZE
  /\ LO \in Nat \ {0} /\ LO % BLOCK_SIZE = 0
  /\ HI \in Nat \ {0}
  /\ Sizes \subseteq Nat
  /\ MaxFed \in Nat

VARIABLES
  lo,        \* Context->lo
  hi,        \* Context->hi
  buffer,    \* Context->buffer
  absorbed,  \* history: the bytes TransformFunction was given, in order
  fed,       \* history: bytes of the message callers have passed
  digest     \* history: what was hashed, once Finalise has run

vars == <<lo, hi, buffer, absorbed, fed, digest>>

Hash == INSTANCE MessageHash WITH
  STORED_SIZE <- LENGTH_SIZE, LengthModulus <- LO * HI

Init ==
  /\ lo = 0 /\ hi = 0 /\ buffer = Cleared(BLOCK_SIZE)
  /\ absorbed = <<>> /\ fed = 0 /\ digest = <<>>

Md5Initialise ==
  /\ lo' = 0 /\ hi' = 0
  /\ absorbed' = <<>> /\ fed' = 0 /\ digest' = <<>>
  /\ UNCHANGED buffer

-----------------------------------------------------------------------------
CountBytes(n) ==
  LET carry == IF (lo + n) % LO < lo THEN 1 ELSE 0 IN
  /\ lo' = (lo + n) % LO
  /\ hi' = (hi + carry + (n \div LO)) % HI

Used == lo % BLOCK_SIZE
Free == BLOCK_SIZE - Used

(* Too little to fill the block that is under way.                         *)
JoinBlock(n) ==
  /\ buffer' = Store(buffer, Used, Message(fed, n))
  /\ UNCHANGED absorbed

(* Mutant: what is left over is stored where the old block was under way.  *)
TakeBlocksAtUsed(n) ==
  LET taken == IF Used > 0 THEN Free ELSE 0
      filled == Store(buffer, Used, Message(fed, taken))
      whole == n - taken - ((n - taken) % BLOCK_SIZE)
  IN
  /\ absorbed' =
       absorbed \o (IF Used > 0 THEN Bytes(filled, BLOCK_SIZE) ELSE <<>>)
                \o Message(fed + taken, whole)
  /\ buffer' = Store(filled, Used,
                     Message(fed + taken + whole, n - taken - whole))

(* Completes the block under way, takes whole blocks from the caller's     *)
(* buffer, and keeps the rest.                                             *)
TakeBlocks(n) ==
  LET taken == IF Used > 0 THEN Free ELSE 0
      filled == Store(buffer, Used, Message(fed, taken))
      whole == n - taken - ((n - taken) % BLOCK_SIZE)
  IN
  /\ absorbed' =
       absorbed \o (IF Used > 0 THEN Bytes(filled, BLOCK_SIZE) ELSE <<>>)
                \o Message(fed + taken, whole)
  /\ buffer' = Store(filled, 0,
                     Message(fed + taken + whole, n - taken - whole))

Md5Update(n) ==
  /\ digest = <<>>
  /\ fed + n <= MaxFed
  /\ CountBytes(n)
  /\ IF Used > 0 /\ n < Free THEN JoinBlock(n) ELSE TakeBlocks(n)
  /\ fed' = fed + n
  /\ UNCHANGED digest

(* Is there too little room for the length after the one bit?              *)
NeedsBlock(free) == free < LENGTH_SIZE

(* The length, which the code writes into the last bytes of the buffer, is *)
(* the bits of the digest.                                                 *)
Md5Finalise ==
  LET closed == Closed(buffer, Used)
      another == NeedsBlock(Free - 1)
      full == IF another THEN Bytes(closed, BLOCK_SIZE) ELSE <<>>
      last == IF another THEN Cleared(BLOCK_SIZE) ELSE closed
  IN
  /\ digest = <<>>
  /\ absorbed' = absorbed \o full \o Bytes(last, BLOCK_SIZE - LENGTH_SIZE)
  /\ lo' = 8 * lo
  /\ digest' = <<[text |-> absorbed', bits |-> 8 * LO * hi + lo']>>
  /\ buffer' = last
  /\ UNCHANGED <<hi, fed>>

Next ==
  \/ Md5Initialise
  \/ \E n \in Sizes : Md5Update(n)
  \/ Md5Finalise

Spec == Init /\ [][Next]_vars

-----------------------------------------------------------------------------
(* Every byte a caller has passed has been hashed or waits in the buffer,  *)
(* in its place (Md5.c:228-252).                                           *)
NothingLost ==
  digest = <<>> =>
    /\ absorbed = Message(0, fed - Used)
    /\ \A k \in 0 .. Used - 1 : buffer[k] = fed - Used + k

(* The two words together count the message, although a carry between them *)
(* is found by comparing a sum with one of its terms (Md5.c:221-226).      *)
LengthCounted == digest = <<>> => LO * hi + lo = fed % (LO * HI)

TypeOK ==
  /\ lo \in 0 .. 8 * (LO - 1) /\ hi \in 0 .. HI - 1
  /\ digest = <<>> => lo < LO
  /\ DOMAIN buffer = 0 .. BLOCK_SIZE - 1
  /\ fed \in Nat /\ Len(digest) <= 1

(* The digest is that of the padded message, whatever calls the message    *)
(* came in (Md5.c:209-315).                                                *)
HashKept == Hash!Spec
=============================================================================
