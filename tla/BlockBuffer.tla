---------------------------- MODULE BlockBuffer ----------------------------
(***************************************************************************)
(* The buffer in a hash context of WjCryptLib: a block's worth of bytes,   *)
(* counted from 0, in which what does not fill a block waits for more, and *)
(* in which the last block is put together.                                *)
(***************************************************************************)
EXTENDS Integers, Sequences

One == -1   \* the byte that holds the one bit
Zero == -2  \* a byte of zeros

(* n bytes of the message: byte k of it is the number k.                   *)
Message(from, n) == [k \in 1 .. n |-> from + k - 1]
Zeros(n) == [k \in 1 .. n |-> Zero]

Cleared(size) == [k \in 0 .. size - 1 |-> Zero]

(* memcpy of data to byte at of the buffer.                                *)
Store(b, at, data) ==
  [k \in DOMAIN b |->
     IF k \in at .. at + Len(data) - 1 THEN data[k - at + 1] ELSE b[k]]

(* The first n bytes of the buffer.                                        *)
Bytes(b, n) == [k \in 1 .. n |-> b[k - 1]]

(* The buffer with the one bit after its used bytes, and zeros after that. *)
Closed(b, used) ==
  [k \in DOMAIN b |->
     IF k < used THEN b[k] ELSE IF k = used THEN One ELSE Zero]
=============================================================================
