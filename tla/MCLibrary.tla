----------------------------- MODULE MCLibrary -----------------------------
(***************************************************************************)
(* The modes of AES and the hashes of the library side by side, each with  *)
(* contexts of its own; a caller uses one of them.                         *)
(*                                                                         *)
(* Cipher blocks are three bytes long, and hold one of sixteen values; a   *)
(* permutation of these is the cipher.  Calls stop inside, at the end of,  *)
(* and up to three blocks past a block, and seeks go into every part of    *)
(* four blocks.                                                            *)
(*                                                                         *)
(* SHA-2 has blocks of six bytes whose last three are kept for the length, *)
(* two of them written.  MD5 and SHA-1 have blocks of five with a length   *)
(* field of two; their low words overflow every two blocks, their high     *)
(* ones after two or four of those.  Messages have up to five blocks and   *)
(* come in pieces of any size.                                             *)
(***************************************************************************)
EXTENDS AesCbc

CONSTANTS
  SizeModulus, Positions, Careful, MaxIndex,  \* of counter mode
  MaxBlock,       \* of output feedback
  Algorithms,     \* what callers may use
  Pieces,         \* lengths of the pieces a message to be hashed is fed in
  SHA2_BLOCK_SIZE, SHA2_LENGTH_SIZE, STORED_SIZE, LengthModulus, MaxSha2,
  BLOCK_SIZE, LENGTH_SIZE, MaxFed,  \* of MD5 and SHA-1
  LO, HI, COUNT0, COUNT1

VARIABLES
  algorithm,      \* what the caller uses
  ctr_IV, ctr_position, ctr_index, ctr_block, ctr_loose, ctr_out,
  ofb_IV, ofb_block, ofb_index, ofb_out,
  curlen, length, buf, sha2_absorbed, todo, sha2_fed, sha2_digest,
  lo, hi, md5_buffer, md5_absorbed, md5_fed, md5_digest,
  Count0, Count1, sha1_Buffer, sha1_absorbed, finalcount, sha1_fed,
  sha1_digest

ctr == <<ctr_IV, ctr_position, ctr_index, ctr_block, ctr_loose, ctr_out>>
ofb == <<ofb_IV, ofb_block, ofb_index, ofb_out>>
sha2 == <<curlen, length, buf, sha2_absorbed, todo, sha2_fed, sha2_digest>>
md5 == <<lo, hi, md5_buffer, md5_absorbed, md5_fed, md5_digest>>
sha1 == <<Count0, Count1, sha1_Buffer, sha1_absorbed, finalcount, sha1_fed,
          sha1_digest>>

Ctr == INSTANCE AesCtr WITH
  IV <- ctr_IV, StreamIndex <- ctr_position,
  CurrentCipherBlockIndex <- ctr_index, CurrentCipherBlock <- ctr_block,
  loose <- ctr_loose, out <- ctr_out

Ofb == INSTANCE AesOfb WITH
  IV <- ofb_IV, CurrentCipherBlock <- ofb_block,
  IndexWithinCipherBlock <- ofb_index, out <- ofb_out

H == INSTANCE Sha2 WITH
  BLOCK_SIZE <- SHA2_BLOCK_SIZE, LENGTH_SIZE <- SHA2_LENGTH_SIZE,
  Sizes <- Pieces, MaxFed <- MaxSha2,
  absorbed <- sha2_absorbed, fed <- sha2_fed, digest <- sha2_digest

M == INSTANCE Md5 WITH
  Sizes <- Pieces, buffer <- md5_buffer, absorbed <- md5_absorbed, fed <- md5_fed,
  digest <- md5_digest

S == INSTANCE Sha1 WITH
  Sizes <- Pieces, Buffer <- sha1_Buffer, absorbed <- sha1_absorbed, fed <- sha1_fed,
  digest <- sha1_digest

ASSUME CtrAssumption ==
  /\ SizeModulus \in Nat \ {0}
  /\ Sizes \subseteq 0 .. SizeModulus - 1
  /\ Positions \subseteq Nat
  /\ Careful \in BOOLEAN
  /\ MaxIndex \in Nat

ASSUME HashesAssumption ==
  H!Sha2Assumption /\ M!Md5Assumption /\ S!Sha1Assumption

MCBlocks == 0 .. 15
MCXorAesBlock(a, b) ==
  LET Bit(w) == w * (((a \div w) + (b \div w)) % 2)
  IN  Bit(1) + Bit(2) + Bit(4) + Bit(8)
MCAesEncrypt(a) == (5 * a + 3) % 16
MCAesDecrypt(a) == (13 * (a + 13)) % 16
MCSizes == 0 .. 10
MCPositions == 0 .. 11
MCPieces == 0 .. 17

LibraryInit ==
  /\ algorithm \in Algorithms
  /\ Init /\ Ctr!Init /\ Ofb!Init /\ H!Init /\ M!Init /\ S!Init

LibraryNext ==
  \/ /\ algorithm = "cbc" /\ Next
     /\ UNCHANGED <<algorithm, ctr, ofb, sha2, md5, sha1>>
  \/ /\ algorithm = "ctr" /\ Ctr!Next
     /\ UNCHANGED <<algorithm, vars, ofb, sha2, md5, sha1>>
  \/ /\ algorithm = "ofb" /\ Ofb!Next
     /\ UNCHANGED <<algorithm, vars, ctr, sha2, md5, sha1>>
  \/ /\ algorithm = "SHA-2" /\ H!Next
     /\ UNCHANGED <<algorithm, vars, ctr, ofb, md5, sha1>>
  \/ /\ algorithm = "MD5" /\ M!Next
     /\ UNCHANGED <<algorithm, vars, ctr, ofb, sha2, sha1>>
  \/ /\ algorithm = "SHA-1" /\ S!Next
     /\ UNCHANGED <<algorithm, vars, ctr, ofb, sha2, md5>>

(* The fairness is that of the calls: one that was made goes on.           *)
LibrarySpec ==
  /\ LibraryInit
  /\ [][LibraryNext]_<<algorithm, vars, ctr, ofb, sha2, md5, sha1>>
  /\ WF_sha2(H!TakeBlock \/ H!TakeBytes)
  /\ WF_sha1(S!PadByte \/ S!FinaliseEnds)

-----------------------------------------------------------------------------
(* All contexts: the indices of the stream modes stay in range, that of    *)
(* output feedback within or at the end of its cipher block                *)
(* (AesOfb.c:170-174), and so do the blocks of a chaining call             *)
(* (AesCbc.c:141); no hash is left with a full buffer, which the SHA-2     *)
(* code would refuse from then on (Sha256.c:188-191, 234-237), or with a   *)
(* word wider than its carry takes it to be (Md5.c:222, Sha1.c:192).       *)
ContextsTyped ==
  /\ TypeOK /\ Ctr!TypeOK /\ Ofb!TypeOK
  /\ H!TypeOK /\ M!TypeOK /\ S!TypeOK

(* The bytes of a key stream are used one each and in order, however a     *)
(* message is cut into calls: in output feedback (AesOfb.c:120-175), and   *)
(* in counter mode, through seeks and new IVs, if its callers seek after   *)
(* a call that stops inside a block (AesCtr.c:148-248).                    *)
StreamsKept == Ofb!StreamKept /\ Ctr!StreamKept

(* "XORs the stream of byte of the AesCtrContext from its current stream   *)
(* position onto the specified buffer" (AesCtr.c:170), for all callers.    *)
FollowsStream == Ctr!FollowsStream

(* While a message is fed, each of its bytes is in exactly one place:      *)
(* hashed, in the buffer, or still to be taken from the caller             *)
(* (Md5.c:228-252, Sha1.c:190-213, Sha256.c:193-216), and the length says  *)
(* how many there are: the two words of an MD5 context together, although  *)
(* a carry between them is found by comparing a sum with one of its terms  *)
(* (Md5.c:221-226).  The length that ends a SHA-1 message also ends a      *)
(* block, so it is hashed: Sha1.c:243 "Should cause a                      *)
(* Sha1TransformFunction()".                                               *)
EveryByteKept ==
  /\ H!NothingLost /\ M!NothingLost /\ S!NothingLost
  /\ M!LengthCounted /\ S!LengthIsHashed

(* Each digest is that of the padded message, whatever calls the message   *)
(* came in (Md5.c:209-315, Sha1.c:179-248, Sha256.c:178-266).              *)
DigestsKept == H!HashKept /\ M!HashKept /\ S!HashKept

(* An update takes all of the buffer it was given (Sha256.c:193), and the  *)
(* padding of SHA-1, which loops until a wrapping count shows the right    *)
(* place, comes to an end (Sha1.c:238).                                    *)
LoopsEnd == H!UpdateReturns /\ S!FinaliseReturns
=============================================================================
