------------------------------ MODULE KeyStream ------------------------------
(***************************************************************************)
(* What the stream modes of WjCryptLib promise: a context stands at a      *)
(* position of the key stream its IV selects, and XORing a buffer uses the *)
(* bytes of that stream from the position on, one each and in order, so    *)
(* that it makes no difference how a message is cut into calls.            *)
(*                                                                         *)
(* Byte p of the stream of IV i is the pair <<i, p>>.                      *)
(***************************************************************************)
EXTENDS Integers

CONSTANTS
  IVs,       \* initialisation vectors
  Sizes,     \* lengths of the buffers of a call
  Positions  \* positions a caller may seek to

VARIABLES
  iv,   \* the stream in use
  pos,  \* the position in it
  out   \* the bytes of the stream the last call used
vars == <<iv, pos, out>>

Init == iv \in IVs /\ pos = 0 /\ out = <<>>

Restart(i) == iv' = i /\ pos' = 0 /\ out' = <<>>

Seek(p) == pos' = p /\ out' = <<>> /\ UNCHANGED iv

Take(n) ==
  /\ out' = [k \in 1 .. n |-> <<iv, pos + k - 1>>]
  /\ pos' = pos + n
  /\ UNCHANGED iv

Next ==
  \/ \E i \in IVs : Restart(i)
  \/ \E p \in Positions : Seek(p)
  \/ \E n \in Sizes : Take(n)

Spec == Init /\ [][Next]_vars
=============================================================================
