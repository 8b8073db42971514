----------------------------- MODULE MessageHash -----------------------------
(***************************************************************************)
(* What the hash functions of WjCryptLib promise: the digest depends on    *)
(* the message fed and not on how it was cut into calls.  It is the hash   *)
(* of the padded message, which is all this specification says of it: the  *)
(* message, a one bit, as few zeros as fill the last block up to its       *)
(* length field, and the length in bits.                                   *)
(***************************************************************************)
EXTENDS BlockBuffer

CONSTANTS
  BLOCK_SIZE,     \* bytes of a block
  LENGTH_SIZE,    \* bytes at the end of the last block kept for the length
  STORED_SIZE,    \* those of them the code writes a number to
  LengthModulus,  \* the length, in bytes, is stored modulo this
  Sizes           \* lengths of the pieces a message is fed in

(* The zeros that bring n bytes and the one bit to the length field.       *)
Fill(n) == (BLOCK_SIZE - ((n + 1 + LENGTH_SIZE) % BLOCK_SIZE)) % BLOCK_SIZE

Padded(n) ==
  [text |-> Message(0, n) \o <<One>>
              \o Zeros(Fill(n) + LENGTH_SIZE - STORED_SIZE),
   bits |-> 8 * (n % LengthModulus)]

VARIABLES
  fed,    \* bytes of the message so far
  digest  \* <<>>, or what was hashed once the message is complete
vars == <<fed, digest>>

Init == fed = 0 /\ digest = <<>>

Initialise == fed' = 0 /\ digest' = <<>>

Update(n) == digest = <<>> /\ fed' = fed + n /\ UNCHANGED digest

Finalise == digest = <<>> /\ digest' = <<Padded(fed)>> /\ UNCHANGED fed

Next == Initialise \/ (\E n \in Sizes : Update(n)) \/ Finalise

Spec == Init /\ [][Next]_vars
=============================================================================
