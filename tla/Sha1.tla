-------------------------------- MODULE Sha1 --------------------------------
(***************************************************************************)
(* SHA-1 of WjCryptLib_Sha1.c: how a context collects a message into       *)
(* blocks and counts its bits in two words, and how Sha1Finalise pads it   *)
(* by feeding the context bytes until its count shows that the length      *)
(* fits.  The compression function is left out.                            *)
(*                                                                         *)
(* A finalise takes one padding byte per step.  Callers initialise a       *)
(* context again after finalising it, as Sha1.c:220 requires, and pass no  *)
(* buffer so long that adding a block to its size overflows 32 bits.       *)
(***************************************************************************)
EXTENDS BlockBuffer

CONSTANTS
  BLOCK_SIZE,   \* 64
  LENGTH_SIZE,  \* 8: bytes at the end of the last block for the length
  COUNT0,       \* 2^32: Count[0] counts bits modulo this
  COUNT1,       \* 2^32: Count[1] counts the overflows of Count[0]
  Sizes,        \* lengths of the buffers callers pass
  MaxFed        \* bound: length of a message

(* Assumed by the modules that use this one.                               *)
Sha1Assumption ==
  /\ BLOCK_SIZE \in Nat /\ LENGTH_SIZE \in Nat
  /\ 0 < LENGTH_SIZE /\ LENGTH_SIZE < BLOCK_SIZE
  /\ COUNT0 \in Nat \ {0} /\ COUNT0 % (8 * BLOCK_SIZE) = 0
  /\ COUNT1 \in Nat \ {0}
  /\ Sizes \subseteq Nat
  /\ MaxFed \in Nat

VARIABLES
  Count0,      \* Context->Count[0]
  Count1,      \* Context->Count[1]
  Buffer,      \* Context->Buffer
  absorbed,    \* history: the bytes TransformFunction was given, in order
  finalcount,  \* Sha1Finalise's local: the count, in bits, or <<>>
  fed,         \* history: bytes of the message callers have passed
  digest       \* history: what was hashed, once Finalise has run

vars == <<Count0, Count1, Buffer, absorbed, finalcount, fed, digest>>

Hash == INSTANCE MessageHash WITH
  STORED_SIZE <- LENGTH_SIZE, LengthModulus <- (COUNT0 \div 8) * COUNT1

(* A byte of the length field; its value is in finalcount.                 *)
LengthByte == -3

Init ==
  /\ Count0 = 0 /\ Count1 = 0 /\ Buffer = Cleared(BLOCK_SIZE)
  /\ absorbed = <<>> /\ finalcount = <<>> /\ fed = 0 /\ digest = <<>>

Sha1Initialise ==
  /\ finalcount = <<>>
  /\ Count0' = 0 /\ Count1' = 0
  /\ absorbed' = <<>> /\ fed' = 0 /\ digest' = <<>>
  /\ UNCHANGED <<Buffer, finalcount>>

-----------------------------------------------------------------------------
Used == (Count0 \div 8) % BLOCK_SIZE

CountBits(n) ==
  LET added == (8 * n) % COUNT0
      carry == IF (Count0 + added) % COUNT0 < added THEN 1 ELSE 0
  IN
  /\ Count0' = (Count0 + added) % COUNT0
  /\ Count1' = (Count1 + carry + (8 * n) \div COUNT0) % COUNT1

FillsBlock(n) == Used + n > BLOCK_SIZE - 1

(* Sha1Update, for callers and for Sha1Finalise: data is what it is given. *)
Feed(data) ==
  LET n == Len(data)
      first == BLOCK_SIZE - Used
      next == n - ((n - first) % BLOCK_SIZE)  \* i when its loop has ended
      filled == Store(Buffer, Used, SubSeq(data, 1, first))
  IN
  /\ CountBits(n)
  /\ IF FillsBlock(n)
     THEN /\ absorbed' = absorbed \o Bytes(filled, BLOCK_SIZE)
                                  \o SubSeq(data, first + 1, next)
          /\ Buffer' = Store(filled, 0, SubSeq(data, next + 1, n))
     ELSE /\ Buffer' = Store(Buffer, Used, data)
          /\ UNCHANGED absorbed

Sha1Update(n) ==
  /\ finalcount = <<>> /\ digest = <<>>
  /\ fed + n <= MaxFed
  /\ Feed(Message(fed, n))
  /\ fed' = fed + n
  /\ UNCHANGED <<finalcount, digest>>

-----------------------------------------------------------------------------
(* Mutant: the count is saved once the one bit has been added to it.       *)
SavedCountLate == <<Count1' * COUNT0 + Count0'>>

SavedCount == <<Count1 * COUNT0 + Count0>>

(* The count is saved first, then the one bit is fed.                      *)
FinaliseBegins ==
  /\ finalcount = <<>> /\ digest = <<>>
  /\ Feed(<<One>>)
  /\ finalcount' = SavedCount
  /\ UNCHANGED <<fed, digest>>

(* (Count[0] & 504) = 448                                                  *)
AtLengthField == Used = BLOCK_SIZE - LENGTH_SIZE

(* Mutant: the zero is passed with a size that leaves it out.              *)
PadByteOfNoSize ==
  /\ finalcount # <<>> /\ ~ AtLengthField
  /\ Feed(<<>>)
  /\ UNCHANGED <<finalcount, fed, digest>>

PadByte ==
  /\ finalcount # <<>> /\ ~ AtLengthField
  /\ Feed(<<Zero>>)
  /\ UNCHANGED <<finalcount, fed, digest>>

FinaliseEnds ==
  /\ finalcount # <<>> /\ AtLengthField
  /\ Feed([k \in 1 .. LENGTH_SIZE |-> LengthByte])
  /\ digest' = <<[text |-> SubSeq(absorbed', 1, Len(absorbed') - LENGTH_SIZE),
                  bits |-> finalcount[1]]>>
  /\ finalcount' = <<>>
  /\ UNCHANGED fed

Next ==
  \/ Sha1Initialise
  \/ \E n \in Sizes : Sha1Update(n)
  \/ FinaliseBegins \/ PadByte \/ FinaliseEnds

Spec == Init /\ [][Next]_vars /\ WF_vars(PadByte \/ FinaliseEnds)

-----------------------------------------------------------------------------
TypeOK ==
  /\ Count0 \in 0 .. COUNT0 - 1 /\ Count1 \in 0 .. COUNT1 - 1
  /\ DOMAIN Buffer = 0 .. BLOCK_SIZE - 1
  /\ fed \in Nat /\ Len(finalcount) <= 1 /\ Len(digest) <= 1

(* While a message is fed, every byte of it has been hashed or waits in    *)
(* the buffer, in its place, and the two words count its bits              *)
(* (Sha1.c:190-213).                                                       *)
NothingLost ==
  finalcount = <<>> /\ digest = <<>> =>
    /\ absorbed = Message(0, fed - Used)
    /\ \A k \in 0 .. Used - 1 : Buffer[k] = fed - Used + k
    /\ Count1 * COUNT0 + Count0 = (8 * fed) % (COUNT0 * COUNT1)

(* The length that ends a message also ends a block, so it is hashed:      *)
(* Sha1.c:243 "Should cause a Sha1TransformFunction()".                    *)
LengthIsHashed ==
  digest # <<>> => Used = 0 /\ absorbed[Len(absorbed)] = LengthByte

(* The digest is that of the padded message, whatever calls the message    *)
(* came in, and although padding goes through the counters it is to        *)
(* report (Sha1.c:179-248).                                                *)
HashKept == Hash!Spec

(* Padding comes to an end, from wherever in a block the message ends and  *)
(* although the loop's condition looks at a wrapping count (Sha1.c:238).   *)
FinaliseReturns == finalcount # <<>> ~> digest # <<>>
=============================================================================
