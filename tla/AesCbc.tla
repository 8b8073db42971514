------------------------------- MODULE AesCbc -------------------------------
(***************************************************************************)
(* The AES cipher block chaining mode of WjCryptLib_AesCbc.c: one context  *)
(* that encrypts a message and one that decrypts it again, each in as many *)
(* calls as the client likes, in place or from one buffer to another.  A   *)
(* step is one block of one call.                                          *)
(*                                                                         *)
(* The block cipher is any permutation of the blocks.                      *)
(***************************************************************************)
EXTENDS Integers, Sequences

CONSTANTS
  AES_BLOCK_SIZE,
  IVs,               \* initialisation vectors
  Sizes,             \* lengths of the buffers callers pass
  Blocks,            \* values of a block of AES_BLOCK_SIZE bytes
  XorAesBlock(_, _),
  AesEncrypt(_),     \* the block cipher under the key of both contexts
  AesDecrypt(_),
  Messages,          \* blocks a message is made of
  MaxBlocks          \* bound: blocks of a message

ASSUME BlockAssumption == AES_BLOCK_SIZE \in Nat \ {0} /\ Sizes \subseteq Nat

ASSUME CbcAssumption ==
  IVs \subseteq Blocks /\ Messages \subseteq Blocks /\ MaxBlocks \in Nat

ASSUME CipherAssumption ==
  /\ \A a, b \in Blocks : /\ XorAesBlock(a, b) \in Blocks
                          /\ XorAesBlock(a, b) = XorAesBlock(b, a)
                          /\ XorAesBlock(XorAesBlock(a, b), b) = a
  /\ \A a \in Blocks : /\ AesEncrypt(a) \in Blocks /\ AesDecrypt(a) \in Blocks
                       /\ AesDecrypt(AesEncrypt(a)) = a

VARIABLES
  IV,                   \* the IV of both contexts
  PreviousCipherBlock,  \* of the "sender" and of the "receiver"
  op,                   \* the call under way, if any
  inPlace,              \* do InBuffer and OutBuffer point to the same place?
  buffer,               \* what they hold, by place
  i,                    \* blocks of the call that are through
  accepted,             \* history: bytes in calls the sender answered with 0
  sent,                 \* history: the blocks the client gave the sender
  wire,                 \* history: the blocks it got from the sender
  recovered             \* history: the blocks it got from the receiver

vars == <<IV, PreviousCipherBlock, op, inPlace, buffer, i,
          accepted, sent, wire, recovered>>

Context == {"sender", "receiver"}
Place == {"in", "out"}

InBuffer == "in"
OutBuffer == IF inPlace THEN "in" ELSE "out"

-----------------------------------------------------------------------------
Init ==
  /\ IV \in IVs
  /\ PreviousCipherBlock = [c \in Context |-> IV]
  /\ op = "none" /\ inPlace = FALSE /\ i = 0
  /\ buffer = [p \in Place |-> <<>>]
  /\ accepted = 0 /\ sent = <<>> /\ wire = <<>> /\ recovered = <<>>

(* A new message: AesCbcInitialise on both contexts, with or without       *)
(* AesInitialise before it, which no model of the cipher sees.             *)
AesCbcInitialise(iv) ==
  /\ op = "none"
  /\ IV' = iv
  /\ PreviousCipherBlock' = [c \in Context |-> iv]
  /\ accepted' = 0 /\ sent' = <<>> /\ wire' = <<>> /\ recovered' = <<>>
  /\ UNCHANGED <<op, inPlace, buffer, i>>

(* AesCbcInitialise on the receiver alone, to decrypt from the start.      *)
Rewind ==
  /\ op = "none"
  /\ PreviousCipherBlock' = [PreviousCipherBlock EXCEPT !["receiver"] = IV]
  /\ recovered' = <<>>
  /\ UNCHANGED <<IV, op, inPlace, buffer, i, accepted, sent, wire>>

(* Mutant: a size that is no multiple of the block size is not refused.    *)
AcceptsAnySize(Size) == TRUE

(* A refused call returns -1 before it has touched anything.               *)
Accepts(Size) == Size % AES_BLOCK_SIZE = 0

(* A call is made on buffers that hold what.                               *)
Call(o, what) ==
  /\ op = "none" /\ op' = o
  /\ i' = 0
  /\ inPlace' \in BOOLEAN
  /\ buffer' = [p \in Place |->
                  IF p = InBuffer THEN what
                  ELSE [k \in 1 .. Len(what) |-> IV]]

AesCbcEncrypt(Size) ==
  \E data \in [1 .. Size \div AES_BLOCK_SIZE -> Messages] :
    /\ Accepts(Size)
    /\ Len(sent) + Len(data) <= MaxBlocks
    /\ Call("encrypt", data)
    /\ accepted' = accepted + Size
    /\ sent' = sent \o data
    /\ UNCHANGED <<IV, PreviousCipherBlock, wire, recovered>>

AesCbcDecrypt(Size) ==
  LET from == Len(recovered)
      numBlocks == Size \div AES_BLOCK_SIZE
  IN
  /\ Accepts(Size)
  /\ from + numBlocks <= Len(wire)
  /\ Call("decrypt", SubSeq(wire, from + 1, from + numBlocks))
  /\ UNCHANGED <<IV, PreviousCipherBlock, accepted, sent, wire, recovered>>

More == i < Len(buffer[InBuffer])

Output(block) ==
  /\ buffer' = [buffer EXCEPT ![OutBuffer][i + 1] = block]
  /\ i' = i + 1
  /\ UNCHANGED <<IV, op, inPlace, accepted, sent, wire, recovered>>

EncryptBlock ==
  LET cipher == AesEncrypt(XorAesBlock(PreviousCipherBlock["sender"],
                                       buffer[InBuffer][i + 1]))
  IN
  /\ op = "encrypt" /\ More
  /\ PreviousCipherBlock' = [PreviousCipherBlock EXCEPT !["sender"] = cipher]
  /\ Output(cipher)

(* Mutant: the cipher block is taken from InBuffer after OutBuffer is      *)
(* written, which is too late in place.                                    *)
DecryptBlockLate ==
  LET plain == XorAesBlock(AesDecrypt(buffer[InBuffer][i + 1]),
                           PreviousCipherBlock["receiver"])
  IN
  /\ op = "decrypt" /\ More
  /\ Output(plain)
  /\ PreviousCipherBlock' =
       [PreviousCipherBlock EXCEPT !["receiver"] = buffer'[InBuffer][i + 1]]

(* The cipher block is in the context before OutBuffer is written, and the *)
(* one it is chained to has been set aside.                                *)
DecryptBlock ==
  LET cipher == buffer[InBuffer][i + 1]
      plain == XorAesBlock(AesDecrypt(cipher), PreviousCipherBlock["receiver"])
  IN
  /\ op = "decrypt" /\ More
  /\ PreviousCipherBlock' = [PreviousCipherBlock EXCEPT !["receiver"] = cipher]
  /\ Output(plain)

(* The call is through, and the client takes what OutBuffer holds.         *)
Return ==
  /\ op # "none" /\ ~ More
  /\ op' = "none"
  /\ wire' = IF op = "encrypt" THEN wire \o buffer[OutBuffer] ELSE wire
  /\ recovered' = IF op = "decrypt" THEN recovered \o buffer[OutBuffer]
                  ELSE recovered
  /\ buffer' = [p \in Place |-> <<>>] /\ i' = 0 /\ inPlace' = FALSE
  /\ UNCHANGED <<IV, PreviousCipherBlock, accepted, sent>>

Next ==
  \/ \E iv \in IVs : AesCbcInitialise(iv)
  \/ Rewind
  \/ \E Size \in Sizes : AesCbcEncrypt(Size)
  \/ \E Size \in Sizes : AesCbcDecrypt(Size)
  \/ EncryptBlock \/ DecryptBlock \/ Return

Spec == Init /\ [][Next]_vars

-----------------------------------------------------------------------------
(* What comes before block k in the chain.                                 *)
Before(k) == IF k = 1 THEN IV ELSE wire[k - 1]

TypeOK ==
  /\ IV \in IVs
  /\ PreviousCipherBlock \in [Context -> Blocks]
  /\ op \in {"none", "encrypt", "decrypt"} /\ inPlace \in BOOLEAN
  /\ buffer \in [Place -> Seq(Blocks)]
  /\ i \in 0 .. Len(buffer[InBuffer])
  /\ accepted \in Nat
  /\ sent \in Seq(Messages)
  /\ wire \in Seq(Blocks) /\ recovered \in Seq(Blocks)

(* "The result will be the same as long as data is fed into the function   *)
(* in the same order" (AesCbc.c:117-118): however it is cut into calls and *)
(* whether done in place or not, the cipher text is the chain over the     *)
(* blocks of the message.                                                  *)
WireIsChain ==
  \A k \in 1 .. Len(wire) :
    wire[k] = AesEncrypt(XorAesBlock(Before(k), sent[k]))

(* What the receiver gives back is the message from its start on, however  *)
(* differently from the sender's the receiver's calls are cut.             *)
RecoveredIsSent ==
  /\ Len(recovered) <= Len(sent)
  /\ \A k \in 1 .. Len(recovered) : recovered[k] = sent[k]

(* A call that is answered with 0 has put out a byte for every byte: what  *)
(* does not fill a block is refused, not dropped (AesCbc.c:135-139).       *)
AcceptedIsPutOut ==
  op # "encrypt" => Len(wire) * AES_BLOCK_SIZE = accepted

(* Between calls, each context holds the last cipher block it dealt with,  *)
(* which is all that a message cut into calls has to be joined by.         *)
ContextsChained ==
  op = "none" =>
    /\ PreviousCipherBlock["sender"] = Before(Len(wire) + 1)
    /\ PreviousCipherBlock["receiver"] = Before(Len(recovered) + 1)

(* Sender and receiver together: the message arrives over a chain.         *)
ChainKept == WireIsChain /\ RecoveredIsSent

(* What joins the calls: nothing that is taken is kept back, and all that  *)
(* the next call needs is in the context (AesCbc.c:117, 135-139).          *)
CallsJoined == AcceptedIsPutOut /\ ContextsChained
=============================================================================
