--------------------------- MODULE Library_proofs ---------------------------
(***************************************************************************)
(* The library keeps its promises, for every size of a block, of a message *)
(* and of the pieces it comes in: the stream modes implement their key     *)
(* streams, the hashes the hash of the padded message, and no context is   *)
(* ever left in a state its calls do not expect.                           *)
(***************************************************************************)
EXTENDS MCLibrary, BlockBuffer, BlockArithmetic, SequenceTheorems

-----------------------------------------------------------------------------
(* The hash contexts lose no byte of a message and hash it padded as the   *)
(* abstract specification says, for every block size, length field, width  *)
(* of the words that count, and way to cut a message into calls.           *)
(*                                                                         *)
(* The invariants say of each context that the bytes hashed, followed by   *)
(* those in use in the buffer, are the message so far (Contents).  What    *)
(* they rest on comes first: the bytes of a buffer, and of a padded block. *)

(* The buffer of a context of blocks of n bytes.                           *)
Buffers(n) == [0 .. n - 1 -> Int]

(* Messages, zeros and what is in a buffer are sequences of bytes.         *)
LEMMA MessageBytes ==
  ASSUME NEW from \in Int, NEW n \in Nat
  PROVE  /\ Message(from, n) \in Seq(Int)
         /\ Len(Message(from, n)) = n
         /\ \A k \in 1 .. n : Message(from, n)[k] = from + k - 1
BY IsASeq DEF Message

(* A message from its first byte on.                                       *)
LEMMA FromStart ==
  ASSUME NEW n \in Nat
  PROVE  /\ Message(0, n) \in Seq(Int) /\ Len(Message(0, n)) = n
         /\ \A k \in 1 .. n : Message(0, n)[k] = k - 1
BY MessageBytes

(* Zeros are bytes.                                                        *)
LEMMA ZeroBytes ==
  ASSUME NEW n \in Nat
  PROVE  /\ Zeros(n) \in Seq(Int)
         /\ Len(Zeros(n)) = n
         /\ \A k \in 1 .. n : Zeros(n)[k] = Zero
BY DEF Zeros, Zero

(* So is what is in use of a buffer.                                       *)
LEMMA BufferBytes ==
  ASSUME NEW size \in Nat, NEW b \in Buffers(size), NEW n \in 0 .. size
  PROVE  /\ Bytes(b, n) \in Seq(Int)
         /\ Len(Bytes(b, n)) = n
         /\ \A k \in 1 .. n : Bytes(b, n)[k] = b[k - 1]
<1>1. \A k \in 1 .. n : b[k - 1] \in Int
  BY DEF Buffers
<1> QED BY <1>1 DEF Bytes

(* Consecutive parts of a message make up one part of it.                  *)
LEMMA MessageJoins ==
  ASSUME NEW from \in Int, NEW n \in Nat, NEW m \in Nat
  PROVE  Message(from, n) \o Message(from + n, m) = Message(from, n + m)
<1> DEFINE s == Message(from, n)
           t == Message(from + n, m)
           u == Message(from, n + m)
<1>1. /\ s \in Seq(Int) /\ Len(s) = n
      /\ \A k \in 1 .. n : s[k] = from + k - 1
      /\ t \in Seq(Int) /\ Len(t) = m
      /\ \A k \in 1 .. m : t[k] = from + n + k - 1
      /\ u \in Seq(Int) /\ Len(u) = n + m
      /\ \A k \in 1 .. n + m : u[k] = from + k - 1
  BY MessageBytes
<1> HIDE DEF s, t, u
<1>2. \A k \in 1 .. n + m : (s \o t)[k] = u[k]
  <2> TAKE k \in 1 .. n + m
  <2>1. (s \o t)[k] = IF k <= n THEN s[k] ELSE t[k - n]
    BY <1>1, ConcatProperties
  <2> QED BY <1>1, <2>1
<1>3. s \o t \in Seq(Int) /\ Len(s \o t) = n + m
  BY <1>1, ConcatProperties
<1> QED BY <1>1, <1>2, <1>3, SeqEqual DEF s, t, u

(* Zeros after zeros.                                                      *)
LEMMA ZerosJoin ==
  ASSUME NEW n \in Nat, NEW m \in Nat
  PROVE  Zeros(n) \o Zeros(m) = Zeros(n + m)
<1> DEFINE s == Zeros(n)
           t == Zeros(m)
           u == Zeros(n + m)
<1>1. /\ s \in Seq(Int) /\ Len(s) = n /\ \A k \in 1 .. n : s[k] = Zero
      /\ t \in Seq(Int) /\ Len(t) = m /\ \A k \in 1 .. m : t[k] = Zero
      /\ u \in Seq(Int) /\ Len(u) = n + m
      /\ \A k \in 1 .. n + m : u[k] = Zero
  BY ZeroBytes
<1> HIDE DEF s, t, u
<1>2. \A k \in 1 .. n + m : (s \o t)[k] = u[k]
  <2> TAKE k \in 1 .. n + m
  <2>1. (s \o t)[k] = IF k <= n THEN s[k] ELSE t[k - n]
    BY <1>1, ConcatProperties
  <2>2. CASE k <= n
    BY <1>1, <2>1, <2>2
  <2>3. CASE ~ (k <= n)
    <3>1. k - n \in 1 .. m
      BY <2>3
    <3> QED BY <1>1, <2>1, <2>3, <3>1
  <2> QED BY <2>2, <2>3
<1>3. s \o t \in Seq(Int) /\ Len(s \o t) = n + m
  BY <1>1, ConcatProperties
<1> QED BY <1>1, <1>2, <1>3, SeqEqual DEF s, t, u

(* What is stored behind the bytes in use is appended to them.             *)
LEMMA StoreAppends ==
  ASSUME NEW size \in Nat, NEW b \in Buffers(size), NEW used \in Nat,
         NEW data \in Seq(Int), used + Len(data) <= size
  PROVE  /\ Store(b, used, data) \in Buffers(size)
         /\ Bytes(Store(b, used, data), used + Len(data))
              = Bytes(b, used) \o data
<1> DEFINE c == Store(b, used, data)
           n == Len(data)
<1>1. n \in Nat /\ used + n \in 0 .. size /\ used \in 0 .. size
      /\ \A k \in 1 .. n : data[k] \in Int
  OBVIOUS
<1>2. DOMAIN b = 0 .. size - 1 /\ \A k \in 0 .. size - 1 : b[k] \in Int
  BY DEF Buffers
<1>3. c \in Buffers(size)
  <2>1. \A k \in 0 .. size - 1 :
          (IF k \in used .. used + Len(data) - 1
           THEN data[k - used + 1] ELSE b[k]) \in Int
    <3> TAKE k \in 0 .. size - 1
    <3>1. CASE k \in used .. used + Len(data) - 1
      <4>1. k - used + 1 \in 1 .. n
        BY <1>1, <3>1
      <4> QED BY <1>1, <3>1, <4>1
    <3> QED BY <1>2, <3>1
  <2> QED BY <1>2, <2>1 DEF Store, Buffers
<1>4. \A k \in 0 .. size - 1 :
        c[k] = IF k \in used .. used + n - 1
               THEN data[k - used + 1] ELSE b[k]
  BY <1>2 DEF Store
<1> HIDE DEF c
<1> DEFINE s == Bytes(c, used + n)
           t == Bytes(b, used)
<1>5. /\ s \in Seq(Int) /\ Len(s) = used + n
      /\ \A k \in 1 .. used + n : s[k] = c[k - 1]
  BY <1>1, <1>3, BufferBytes
<1>6. /\ t \in Seq(Int) /\ Len(t) = used
      /\ \A k \in 1 .. used : t[k] = b[k - 1]
  BY <1>1, BufferBytes
<1> HIDE DEF s, t
<1>7. t \o data \in Seq(Int) /\ Len(t \o data) = used + n
  BY <1>6, ConcatProperties
<1>8. \A k \in 1 .. used + n : s[k] = (t \o data)[k]
  <2> TAKE k \in 1 .. used + n
  <2>1. (t \o data)[k] = IF k <= used THEN t[k] ELSE data[k - used]
    BY <1>6, ConcatProperties
  <2>2. s[k] = IF k - 1 \in used .. used + n - 1
               THEN data[(k - 1) - used + 1] ELSE b[k - 1]
    <3>1. k - 1 \in 0 .. size - 1
      BY <1>1
    <3> QED BY <1>4, <1>5, <3>1
  <2>3. CASE k <= used
    BY <1>1, <1>6, <2>1, <2>2, <2>3
  <2>4. CASE ~ (k <= used)
    <3>1. k - 1 \in used .. used + n - 1 /\ (k - 1) - used + 1 = k - used
      BY <1>1, <2>4
    <3> QED BY <2>1, <2>2, <2>4, <3>1
  <2> QED BY <2>3, <2>4
<1>9. s = t \o data
  BY <1>5, <1>7, <1>8, SeqEqual
<1> QED BY <1>3, <1>9 DEF c, s, t, n

(* No bytes are in use, or bytes of a block of zeros.                      *)
LEMMA NothingUsed ==
  ASSUME NEW b
  PROVE  Bytes(b, 0) = <<>>
BY DEF Bytes

(* A cleared buffer holds zeros.                                           *)
LEMMA ClearedBytes ==
  ASSUME NEW size \in Nat, NEW n \in 0 .. size
  PROVE  Cleared(size) \in Buffers(size) /\ Bytes(Cleared(size), n) = Zeros(n)
BY DEF Cleared, Buffers, Bytes, Zeros, Zero

(* A closed block: the bytes in use, the one bit, zeros.                   *)
LEMMA ClosedBytes ==
  ASSUME NEW size \in Nat, NEW b \in Buffers(size),
         NEW used \in Nat, NEW n \in 0 .. size, used < n
  PROVE  /\ Closed(b, used) \in Buffers(size)
         /\ Bytes(Closed(b, used), n)
              = Bytes(b, used) \o (<<One>> \o Zeros(n - used - 1))
<1> DEFINE c == Closed(b, used)
           z == Zeros(n - used - 1)
           e == <<One>> \o z
<1>1. DOMAIN b = 0 .. size - 1 /\ \A k \in 0 .. size - 1 : b[k] \in Int
  BY DEF Buffers
<1>2. c \in Buffers(size)
  BY <1>1 DEF Closed, Buffers, One, Zero
<1>3. \A k \in 0 .. size - 1 :
        c[k] = IF k < used THEN b[k] ELSE IF k = used THEN One ELSE Zero
  BY <1>1 DEF Closed
<1>4. n - used - 1 \in Nat
  OBVIOUS
<1>5. /\ z \in Seq(Int) /\ Len(z) = n - used - 1
      /\ \A k \in 1 .. n - used - 1 : z[k] = Zero
  BY <1>4, ZeroBytes
<1> HIDE DEF c, z
<1>6. <<One>> \in Seq(Int) /\ Len(<<One>>) = 1 /\ <<One>>[1] = One
  BY DEF One
<1>7. /\ e \in Seq(Int) /\ Len(e) = n - used
      /\ \A k \in 1 .. n - used : e[k] = IF k = 1 THEN One ELSE Zero
  <2>1. e \in Seq(Int) /\ Len(e) = n - used
    BY <1>4, <1>5, <1>6, ConcatProperties
  <2>2. ASSUME NEW k \in 1 .. n - used
        PROVE  e[k] = IF k = 1 THEN One ELSE Zero
    <3>1. e[k] = IF k <= 1 THEN <<One>>[k] ELSE z[k - 1]
      BY <1>4, <1>5, <1>6, ConcatProperties
    <3> QED BY <1>4, <1>5, <1>6, <3>1
  <2> QED BY <2>1, <2>2
<1> DEFINE s == Bytes(c, n)
           t == Bytes(b, used)
<1>8. /\ s \in Seq(Int) /\ Len(s) = n /\ \A k \in 1 .. n : s[k] = c[k - 1]
  BY <1>2, BufferBytes
<1>9. /\ t \in Seq(Int) /\ Len(t) = used
      /\ \A k \in 1 .. used : t[k] = b[k - 1]
  BY BufferBytes
<1> HIDE DEF s, t, e
<1>10. /\ t \o e \in Seq(Int) /\ Len(t \o e) = n
       /\ \A j \in 1 .. n :
            (t \o e)[j] = IF j <= used THEN t[j] ELSE e[j - used]
  <2>1. /\ t \o e \in Seq(Int) /\ Len(t \o e) = Len(t) + Len(e)
        /\ \A j \in 1 .. Len(t) + Len(e) :
             (t \o e)[j] = IF j <= Len(t) THEN t[j] ELSE e[j - Len(t)]
    BY ConcatProperties, <1>7, <1>9
  <2>2. Len(t) + Len(e) = n /\ Len(t) = used
    BY <1>7, <1>9
  <2> QED BY <2>1, <2>2
<1>11. \A k \in 1 .. n : s[k] = (t \o e)[k]
  <2> TAKE k \in 1 .. n
  <2>1. (t \o e)[k] = IF k <= used THEN t[k] ELSE e[k - used]
    BY <1>10
  <2>2. k - 1 \in 0 .. size - 1 /\ s[k] = c[k - 1]
    BY <1>8
  <2> QED BY <1>3, <1>7, <1>9, <2>1, <2>2
<1>12. s = t \o e
  BY <1>8, <1>10, <1>11, SeqEqual
<1> QED BY <1>2, <1>12 DEF c, s, t, e, z

(* If hashed bytes and those in the buffer make up the message, each byte  *)
(* of it is in its place.                                                  *)
LEMMA InItsPlace ==
  ASSUME NEW size \in Nat, NEW b \in Buffers(size), NEW used \in 0 .. size,
         NEW hashed \in Seq(Int), NEW f \in Nat, Len(hashed) = f - used,
         hashed \o Bytes(b, used) = Message(0, f)
  PROVE  /\ hashed = Message(0, f - used)
         /\ \A k \in 0 .. used - 1 : b[k] = f - used + k
<1> DEFINE t == Bytes(b, used)
           m == Message(0, f)
           h == Message(0, f - used)
<1>1. Len(hashed) \in Nat /\ f - used \in Nat
  OBVIOUS
<1>2. /\ t \in Seq(Int) /\ Len(t) = used
      /\ \A k \in 1 .. used : t[k] = b[k - 1]
  BY BufferBytes
<1>3. \A k \in 1 .. f : m[k] = k - 1
  BY FromStart
<1>4. /\ h \in Seq(Int) /\ Len(h) = f - used
      /\ \A k \in 1 .. f - used : h[k] = k - 1
  BY <1>1, FromStart
<1>5. hashed \o t = m
  OBVIOUS
<1> HIDE DEF t, m, h
<1>6. \A k \in 1 .. f : m[k] = IF k <= f - used THEN hashed[k]
                               ELSE t[k - (f - used)]
  <2>1. Len(hashed) + Len(t) = f /\ Len(hashed) = f - used
    BY <1>1, <1>2
  <2>2. \A k \in 1 .. Len(hashed) + Len(t) :
          m[k] = IF k <= Len(hashed) THEN hashed[k] ELSE t[k - Len(hashed)]
    BY <1>2, <1>5, ConcatProperties
  <2> QED BY <2>1, <2>2
<1>7. hashed = h
  <2>1. \A k \in 1 .. f - used : hashed[k] = h[k]
    BY <1>1, <1>3, <1>4, <1>6
  <2> QED BY <1>4, <2>1, SeqEqual
<1>8. ASSUME NEW k \in 0 .. used - 1 PROVE b[k] = f - used + k
  <2>1. f - used + k + 1 \in 1 .. f /\ ~ (f - used + k + 1 <= f - used)
        /\ (f - used + k + 1) - (f - used) = k + 1
        /\ (f - used + k + 1) - 1 = f - used + k
    BY <1>1
  <2>2. t[k + 1] = f - used + k
    BY <1>3, <1>6, <2>1
  <2>3. k + 1 \in 1 .. used /\ (k + 1) - 1 = k
    OBVIOUS
  <2> QED BY <1>2, <2>2, <2>3
<1> QED BY <1>7, <1>8 DEF h

(* Sequences of bytes are joined in any grouping.                          *)
LEMMA Regroup ==
  \A s, t, u \in Seq(Int) : (s \o t) \o u = s \o (t \o u)
BY ConcatAssociative

(* Sequences of bytes join.                                                *)
LEMMA Joins ==
  /\ \A s, t \in Seq(Int) : s \o t \in Seq(Int)
  /\ \A s \in Seq(Int) : s \o <<>> = s
BY ConcatProperties, ConcatEmptySeq

(* Before the first byte.                                                  *)
LEMMA NoMessage == Message(0, 0) = <<>> /\ <<>> \o <<>> = <<>>
<1>1. Message(0, 0) = <<>>
  BY DEF Message
<1>2. <<>> \in Seq(Int)
  OBVIOUS
<1> QED BY <1>1, <1>2, Joins

(* The bytes a context has been given: those hashed, those in the buffer.  *)
Contents(hashed, b, used) == hashed \o Bytes(b, used)

(* t behind s; the operator keeps what is joined in one piece in proofs.   *)
Appended(s, t) == s \o t

(* With no bytes in use, what was given is what was hashed.                *)
LEMMA AllHashed ==
  ASSUME NEW hashed \in Seq(Int), NEW b
  PROVE  Contents(hashed, b, 0) = hashed
BY NothingUsed, Joins DEF Contents

(* The next n bytes of a message of f bytes.                               *)
LEMMA MessageGoesOn ==
  ASSUME NEW f \in Nat, NEW n \in Nat
  PROVE  /\ Appended(Message(0, f), Message(f, n)) = Message(0, f + n)
         /\ Message(0, f) \in Seq(Int)
<1> DEFINE z == 0
<1>1. z \in Int /\ z + f = f
  OBVIOUS
<1> HIDE DEF z
<1>2. Message(z, f) \o Message(z + f, n) = Message(z, f + n)
  BY <1>1, MessageJoins
<1>3. Message(z, f) \in Seq(Int)
  BY <1>1, MessageBytes
<1> QED BY <1>1, <1>2, <1>3, Zenon DEF z, Appended

(* There is room for data behind the bytes in use, which are n then.       *)
Fits(size, b, used, data, n) ==
  /\ size \in Nat /\ b \in Buffers(size) /\ used \in Nat
  /\ data \in Seq(Int) /\ n = used + Len(data) /\ n <= size

(* Bytes hashed and bytes in the buffer, followed by what is stored.       *)
LEMMA Appends ==
  ASSUME NEW size, NEW b, NEW used, NEW data, NEW hashed, NEW n,
         Fits(size, b, used, data, n), hashed \in Seq(Int)
  PROVE  /\ Store(b, used, data) \in Buffers(size)
         /\ Contents(hashed, b, used) \in Seq(Int)
         /\ Contents(hashed, Store(b, used, data), n)
              = Appended(Contents(hashed, b, used), data)
         /\ Contents(hashed, Store(b, used, data), n) \in Seq(Int)
<1> USE DEF Fits
<1>1. used \in 0 .. size
  OBVIOUS
<1>2. Bytes(b, used) \in Seq(Int)
  BY <1>1, BufferBytes
<1>3. /\ Store(b, used, data) \in Buffers(size)
      /\ Bytes(Store(b, used, data), n) = Bytes(b, used) \o data
  BY StoreAppends
<1>4. Bytes(b, used) \o data \in Seq(Int)
  BY <1>2, Joins
<1>5. hashed \o (Bytes(b, used) \o data) = (hashed \o Bytes(b, used)) \o data
  BY <1>2, Regroup
<1>6. /\ hashed \o Bytes(b, used) \in Seq(Int)
      /\ hashed \o (Bytes(b, used) \o data) \in Seq(Int)
  BY <1>2, <1>4, Joins
<1> QED BY <1>3, <1>5, <1>6 DEF Contents, Appended

(* data fills the block under way, which is hashed; so are the blocks that *)
(* follow, and the rest is kept.                                           *)
Fills(size, b, used, data, blocks, rest, n) ==
  /\ Fits(size, b, used, data, size)
  /\ blocks \in Seq(Int) /\ rest \in Seq(Int)
  /\ n = Len(rest) /\ n <= size

(* Data that fills the buffer, makes up whole blocks and leaves a rest:    *)
(* the buffer and the blocks are hashed, the rest is stored.               *)
LEMMA BlocksTaken ==
  ASSUME NEW size, NEW b, NEW used, NEW data, NEW blocks, NEW rest, NEW n,
         NEW hashed, Fills(size, b, used, data, blocks, rest, n),
         hashed \in Seq(Int)
  PROVE  LET filled == Store(b, used, data)
             all == Appended(Appended(hashed, Bytes(filled, size)), blocks)
         IN  /\ Store(filled, 0, rest) \in Buffers(size)
             /\ all \in Seq(Int)
             /\ Contents(all, Store(filled, 0, rest), n)
                  = Appended(Appended(Appended(Contents(hashed, b, used),
                                               data), blocks), rest)
<1> DEFINE filled == Store(b, used, data)
           whole == Appended(hashed, Bytes(filled, size))
           all == Appended(whole, blocks)
<1>1. Fits(size, b, used, data, size)
  BY DEF Fills
<1>2. /\ filled \in Buffers(size)
      /\ Contents(hashed, filled, size)
           = Appended(Contents(hashed, b, used), data)
      /\ Contents(hashed, filled, size) \in Seq(Int)
  BY <1>1, Appends
<1>3. whole = Contents(hashed, filled, size)
  BY DEF Appended, Contents
<1> HIDE DEF filled, whole
<1>4. all \in Seq(Int)
  BY <1>2, <1>3, Joins DEF Fills, Appended
<1> HIDE DEF all
<1>5. Fits(size, filled, 0, rest, n)
  BY <1>1, <1>2 DEF Fills, Fits
<1>6. /\ Store(filled, 0, rest) \in Buffers(size)
      /\ Contents(all, Store(filled, 0, rest), n)
           = Appended(Contents(all, filled, 0), rest)
  BY <1>4, <1>5, Appends
<1>7. Contents(all, filled, 0) = all
  BY <1>4, AllHashed
<1>8. Contents(all, Store(filled, 0, rest), n)
        = Appended(Appended(Appended(Contents(hashed, b, used), data),
                            blocks), rest)
  BY <1>2, <1>3, <1>6, <1>7, Zenon DEF all
<1> QED BY <1>4, <1>6, <1>8, Zenon DEF filled, whole, all

(* A cut of data after f and after g of its bytes.                         *)
Cut(data, f, g) ==
  /\ data \in Seq(Int) /\ f \in Nat /\ g \in Nat
  /\ f <= g /\ g <= Len(data)

(* Two sequences of numbers, joined.                                       *)
LEMMA JoinedInts ==
  ASSUME NEW x \in Seq(Int), NEW y \in Seq(Int)
  PROVE  /\ x \o y \in Seq(Int)
         /\ Len(x \o y) = Len(x) + Len(y)
         /\ \A k \in 1 .. Len(x) + Len(y) :
              (x \o y)[k] = IF k <= Len(x) THEN x[k] ELSE y[k - Len(x)]
  BY ONLY x \in Seq(Int), y \in Seq(Int), ConcatProperties, Zenon

(* A part appended in three pieces.                                        *)
LEMMA InParts ==
  ASSUME NEW data, NEW s \in Seq(Int), NEW f, NEW g, Cut(data, f, g)
  PROVE  /\ SubSeq(data, 1, f) \in Seq(Int) /\ Len(SubSeq(data, 1, f)) = f
         /\ SubSeq(data, f + 1, g) \in Seq(Int)
         /\ SubSeq(data, g + 1, Len(data)) \in Seq(Int)
         /\ Len(SubSeq(data, g + 1, Len(data))) = Len(data) - g
         /\ Appended(Appended(Appended(s, SubSeq(data, 1, f)),
                              SubSeq(data, f + 1, g)),
                     SubSeq(data, g + 1, Len(data)))
              = Appended(s, data)
<1> USE DEF Cut
<1> DEFINE n == Len(data)
           a == SubSeq(data, 1, f)
           c == SubSeq(data, f + 1, g)
           e == SubSeq(data, g + 1, n)
<1>1. n \in Nat /\ f <= g /\ g <= n
  OBVIOUS
<1>2. \A k \in 1 .. n : data[k] \in Int
  OBVIOUS
<1>3. /\ a \in Seq(Int) /\ Len(a) = f /\ \A k \in 1 .. f : a[k] = data[k]
  BY <1>1
<1>4. /\ c \in Seq(Int) /\ Len(c) = g - f
      /\ \A k \in 1 .. g - f : c[k] = data[f + k]
  <2>1. c = [k \in 1 .. g - f |-> data[f + k]]
    BY <1>1
  <2> HIDE DEF c
  <2>2. \A k \in 1 .. g - f : f + k \in 1 .. n
    BY <1>1
  <2> QED BY <1>1, <1>2, <2>1, <2>2
<1>5. /\ e \in Seq(Int) /\ Len(e) = n - g
      /\ \A k \in 1 .. n - g : e[k] = data[g + k]
  <2>1. e = [k \in 1 .. n - g |-> data[g + k]]
    BY <1>1
  <2> HIDE DEF e
  <2>2. \A k \in 1 .. n - g : g + k \in 1 .. n
    BY <1>1
  <2> QED BY <1>1, <1>2, <2>1, <2>2
<1> HIDE DEF a, c, e, n
<1>6. /\ a \o c \in Seq(Int) /\ Len(a \o c) = g
      /\ \A k \in 1 .. g : (a \o c)[k] = data[k]
  <2>1. /\ a \o c \in Seq(Int) /\ Len(a \o c) = Len(a) + Len(c)
        /\ \A k \in 1 .. Len(a) + Len(c) :
             (a \o c)[k] = IF k <= Len(a) THEN a[k] ELSE c[k - Len(a)]
    <3>1. a \in Seq(Int) /\ c \in Seq(Int)
      BY <1>3, <1>4
    <3> QED BY ONLY <3>1, JoinedInts
  <2>2. Len(a) + Len(c) = g
    BY <1>1, <1>3, <1>4
  <2>3. ASSUME NEW k \in 1 .. g PROVE (a \o c)[k] = data[k]
    <3>1. (a \o c)[k] = IF k <= f THEN a[k] ELSE c[k - f]
      BY <1>3, <2>1, <2>2
    <3>2. CASE k <= f
      BY <1>3, <3>1, <3>2
    <3>3. CASE ~ (k <= f)
      <4>1. k - f \in 1 .. g - f /\ f + (k - f) = k
        BY <1>1, <3>3
      <4>2. c[k - f] = data[k]
        BY <1>4, <4>1
      <4> QED BY <3>1, <3>3, <4>2
    <3> QED BY <3>2, <3>3
  <2> QED BY <2>1, <2>2, <2>3
<1> DEFINE p == a \o c
<1>7. p \in Seq(Int) /\ Len(p) = g /\ \A k \in 1 .. g : p[k] = data[k]
  BY <1>6
<1> HIDE DEF p
<1>8. p \o e = data
  <2>1. /\ p \o e \in Seq(Int) /\ Len(p \o e) = Len(p) + Len(e)
        /\ \A k \in 1 .. Len(p) + Len(e) :
             (p \o e)[k] = IF k <= Len(p) THEN p[k] ELSE e[k - Len(p)]
    <3>1. p \in Seq(Int) /\ e \in Seq(Int)
      BY <1>5, <1>7
    <3> QED BY <3>1, ConcatProperties
  <2>2. Len(p) + Len(e) = n
    BY <1>1, <1>5, <1>7
  <2>3. ASSUME NEW k \in 1 .. n PROVE (p \o e)[k] = data[k]
    <3>1. (p \o e)[k] = IF k <= g THEN p[k] ELSE e[k - g]
      BY <1>7, <2>1, <2>2
    <3>2. CASE k <= g
      BY <1>7, <3>1, <3>2
    <3>3. CASE ~ (k <= g)
      <4>1. k - g \in 1 .. n - g /\ g + (k - g) = k
        BY <1>1, <3>3
      <4>2. e[k - g] = data[k]
        BY <1>5, <4>1
      <4> QED BY <3>1, <3>3, <4>2
    <3> QED BY <3>2, <3>3
  <2>4. Len(p \o e) = Len(data) /\ p \o e \in Seq(Int)
    BY <2>1, <2>2 DEF n
  <2>5. \A k \in 1 .. Len(data) : (p \o e)[k] = data[k]
    BY <2>3 DEF n
  <2> QED BY <2>4, <2>5, SeqEqual
<1>9. Appended(Appended(Appended(s, a), c), e) = Appended(s, data)
  <2>1. (s \o a) \o c = s \o p
    BY <1>3, <1>4, Regroup DEF p
  <2>2. (s \o p) \o e = s \o (p \o e)
    BY <1>5, <1>7, Regroup
  <2> QED BY <1>8, <2>1, <2>2, Zenon DEF Appended
<1> QED BY <1>3, <1>4, <1>5, <1>9 DEF a, c, e, n

(* The last blocks of a message, as they are put together: one that is     *)
(* hashed if it has no room for the length, and the one with the length.   *)
NoRoom(B, L, used) == used + 1 > B - L
FullBlock(B, L, b, used) ==
  IF NoRoom(B, L, used) THEN Bytes(Closed(b, used), B) ELSE <<>>
LastBlock(B, L, b, used) ==
  IF NoRoom(B, L, used) THEN Cleared(B) ELSE Closed(b, used)
PaddedText(B, L, stored, n) ==
  Message(0, n) \o <<One>>
    \o Zeros(((B - ((n + 1 + L) % B)) % B) + (L - stored))

Ends(B, L, stored, f, used, b, tail) ==
  /\ B \in Nat \ {0} /\ L \in Nat \ {0} /\ L < B /\ stored \in 1 .. L
  /\ f \in Nat /\ used = f % B /\ b \in Buffers(B) /\ tail = B - stored

(* The one bit and the zeros after a message make it end where its length  *)
(* is to go, in the block under way or, without room there, in the next.   *)
LEMMA Pads ==
  ASSUME NEW B, NEW L, NEW stored, NEW f, NEW used, NEW b, NEW hashed,
         NEW tail,
         Ends(B, L, stored, f, used, b, tail), hashed \in Seq(Int),
         Contents(hashed, b, used) = Message(0, f)
  PROVE  /\ LastBlock(B, L, b, used) \in Buffers(B)
         /\ PaddedText(B, L, stored, f) \in Seq(Int)
         /\ Contents(Appended(hashed, FullBlock(B, L, b, used)),
                     LastBlock(B, L, b, used), tail)
              = PaddedText(B, L, stored, f)
<1> USE DEF Ends
<1> DEFINE u == used
           another == NoRoom(B, L, used)
           fill == (B - ((f + 1 + L) % B)) % B
           c == Closed(b, u)
           t == Bytes(b, u)
           m == Message(0, f)
           one == <<One>>
<1>1. u \in 0 .. B - 1 /\ u = f % B
  BY DivMod
<1>2. fill = IF u + 1 + L <= B THEN B - u - 1 - L ELSE 2 * B - u - 1 - L
  <2>1. fill = IF (f % B) + 1 + L <= B THEN B - (f % B) - 1 - L
                                       ELSE 2 * B - (f % B) - 1 - L
    BY ZerosNeeded
  <2> QED BY <1>1, <2>1, Zenon
<1>3. one \in Seq(Int) /\ m \in Seq(Int) /\ hashed \o t = m
  <2>1. One \in Int
    BY DEF One
  <2>2. one \in Seq(Int)
    BY <2>1
  <2>3. m \in Seq(Int)
    BY FromStart
  <2> HIDE DEF one, m
  <2>4. hashed \o t = m
    BY DEF m, Contents
  <2> QED BY <2>2, <2>3, <2>4
<1>4. another <=> u + 1 > B - L
  BY DEF NoRoom
<1> HIDE DEF u, fill, m, another
<1>5. t \in Seq(Int) /\ u \in Nat
  BY <1>1, BufferBytes
<1>6. \A n \in 0 .. B :
        u < n => /\ c \in Buffers(B)
                 /\ Bytes(c, n) = t \o (one \o Zeros(n - u - 1))
  BY <1>5, ClosedBytes
<1>7. \A n \in Nat : Zeros(n) \in Seq(Int)
  BY ZeroBytes
<1> HIDE DEF c, t, one
<1>8. tail \in 0 .. B /\ B \in 0 .. B /\ u < B
  BY <1>1
<1>9. CASE ~ another
  <2> DEFINE z == Zeros(tail - u - 1)
  <2>1. tail - u - 1 \in Nat /\ u < tail /\ fill + (L - stored) = tail - u - 1
    BY <1>1, <1>2, <1>4, <1>9
  <2>2. z \in Seq(Int)
    BY <1>7, <2>1
  <2>3. c \in Buffers(B) /\ Bytes(c, tail) = t \o (one \o z)
    BY <1>6, <1>8, <2>1
  <2> HIDE DEF z
  <2>4. hashed \o <<>> = hashed
    BY Joins
  <2>5. one \o z \in Seq(Int)
    BY <1>3, <2>2, ConcatProperties
  <2>6. hashed \o (t \o (one \o z)) = (hashed \o t) \o (one \o z)
    BY <1>5, <2>5, Regroup
  <2>7. m \o (one \o z) = (m \o one) \o z
    BY <1>3, <2>2, Regroup
  <2>8. hashed \o <<>> \o Bytes(c, tail) = m \o one \o z
    BY <1>3, <2>3, <2>4, <2>6, <2>7
  <2>9. m \o one \o z \in Seq(Int)
    BY <1>3, <2>2, <2>5, <2>7, ConcatProperties
  <2>10. z = Zeros(fill + (L - stored))
    BY <2>1 DEF z
  <2> QED BY <1>9, <2>3, <2>8, <2>9, <2>10
          DEF c, u, m, one, fill, another, FullBlock, LastBlock, PaddedText,
              Contents, Appended
<1>10. CASE another
  <2> DEFINE z == Zeros(B - u - 1)
             y == Zeros(tail)
             w == Zeros((B - u - 1) + tail)
  <2>1. B - u - 1 \in Nat /\ tail \in Nat
        /\ fill + (L - stored) = (B - u - 1) + tail
    BY <1>1, <1>2, <1>4, <1>10
  <2>2. z \in Seq(Int) /\ y \in Seq(Int) /\ w \in Seq(Int)
    BY <1>7, <2>1
  <2>3. Bytes(c, B) = t \o (one \o z)
    BY <1>6, <1>8
  <2>4. Cleared(B) \in Buffers(B) /\ Bytes(Cleared(B), tail) = y
    BY <1>8, ClearedBytes
  <2>5. z \o y = w
    BY <2>1, ZerosJoin
  <2> HIDE DEF z, y, w
  <2>6. one \o z \in Seq(Int) /\ t \o (one \o z) \in Seq(Int)
    BY <1>3, <1>5, <2>2, ConcatProperties
  <2>7. hashed \o (t \o (one \o z)) = (hashed \o t) \o (one \o z)
    BY <1>5, <2>6, Regroup
  <2>8. m \o (one \o z) = (m \o one) \o z /\ m \o one \in Seq(Int)
    <3>1. m \o (one \o z) = (m \o one) \o z
      <4>1. m \in Seq(Int) /\ one \in Seq(Int) /\ z \in Seq(Int)
        BY <1>3, <2>2
      <4> QED BY <4>1, Regroup
    <3>2. m \o one \in Seq(Int)
      BY <1>3, Joins
    <3> QED BY <3>1, <3>2
  <2>9. ((m \o one) \o z) \o y = (m \o one) \o (z \o y)
    BY <2>2, <2>8, Regroup
  <2>10. hashed \o Bytes(c, B) \o Bytes(Cleared(B), tail) = m \o one \o w
    BY <1>3, <2>3, <2>4, <2>5, <2>7, <2>8, <2>9
  <2>11. m \o one \o w \in Seq(Int)
    BY <2>2, <2>8, ConcatProperties
  <2>12. w = Zeros(fill + (L - stored))
    BY <2>1 DEF w
  <2> QED BY <1>10, <2>4, <2>10, <2>11, <2>12
          DEF c, u, m, one, fill, another, FullBlock, LastBlock, PaddedText,
              Contents, Appended
<1> QED BY <1>9, <1>10

-----------------------------------------------------------------------------
(* SHA-2.                                                                  *)

Sha2Inv ==
  /\ curlen \in 0 .. SHA2_BLOCK_SIZE - 1
  /\ length \in Nat /\ todo \in Nat /\ sha2_fed \in Nat
  /\ buf \in Buffers(SHA2_BLOCK_SIZE)
  /\ sha2_absorbed \in Seq(Int)
  /\ sha2_digest = <<>> =>
       /\ todo <= sha2_fed
       /\ curlen = (sha2_fed - todo) % SHA2_BLOCK_SIZE
       /\ Contents(sha2_absorbed, buf, curlen) = Message(0, sha2_fed - todo)
       /\ length = (8 * (sha2_fed - todo - curlen)) % (8 * LengthModulus)
  /\ sha2_digest # <<>> =>
       todo = 0 /\ sha2_digest = <<H!Hash!Padded(sha2_fed)>>

(* SHA-2 uses the operators of the module for all hashes.                  *)
LEMMA Sha2Operators ==
  /\ \A from, n : H!Message(from, n) = Message(from, n)
  /\ \A b, at, data : H!Store(b, at, data) = Store(b, at, data)
  /\ \A b, n : H!Bytes(b, n) = Bytes(b, n)
  /\ \A b, n : H!Closed(b, n) = Closed(b, n)
  /\ \A n : H!Cleared(n) = Cleared(n)
  /\ \A n : H!Hash!Padded(n) =
       [text |-> PaddedText(SHA2_BLOCK_SIZE, SHA2_LENGTH_SIZE, STORED_SIZE, n),
        bits |-> 8 * (n % LengthModulus)]
BY DEF H!Message, Message, H!Store, Store, H!Bytes, Bytes, H!Closed, Closed,
       H!One, One, H!Zero, Zero, H!Cleared, Cleared, H!Hash!Padded,
       H!Hash!Message, H!Hash!Zeros, Zeros, H!Hash!Zero, H!Hash!One,
       H!Hash!Fill, PaddedText

(* What the constants of SHA-2 are assumed to be.                          *)
LEMMA Sha2Constants ==
  /\ SHA2_BLOCK_SIZE \in Nat \ {0}
  /\ SHA2_LENGTH_SIZE \in Nat \ {0} /\ SHA2_LENGTH_SIZE < SHA2_BLOCK_SIZE
  /\ STORED_SIZE \in 1 .. SHA2_LENGTH_SIZE
  /\ LengthModulus \in Nat \ {0} /\ 8 * LengthModulus \in Nat \ {0}
  /\ Pieces \subseteq Nat
BY HashesAssumption DEF H!Sha2Assumption

(* A new context has hashed nothing of an empty message.                   *)
LEMMA Sha2Starts == H!Init => Sha2Inv /\ H!Hash!Init
<1> SUFFICES ASSUME H!Init PROVE Sha2Inv /\ H!Hash!Init OBVIOUS
<1>1. /\ curlen = 0 /\ length = 0 /\ buf = Cleared(SHA2_BLOCK_SIZE)
      /\ sha2_absorbed = <<>> /\ todo = 0 /\ sha2_fed = 0
      /\ sha2_digest = <<>>
  BY Sha2Operators DEF H!Init
<1>2. buf \in Buffers(SHA2_BLOCK_SIZE)
  BY <1>1, Sha2Constants, ClearedBytes
<1>3. 0 % SHA2_BLOCK_SIZE = 0 /\ 0 % (8 * LengthModulus) = 0
  BY Sha2Constants, ZeroMod
<1>4. Contents(<<>>, buf, 0) = Message(0, 0)
  BY NothingUsed, NoMessage DEF Contents
<1>5. Sha2Inv
  BY <1>1, <1>2, <1>3, <1>4, Sha2Constants DEF Sha2Inv
<1> QED BY <1>1, <1>5 DEF H!Hash!Init

(* Initialising starts over; the bytes left in the buffer are not in use.  *)
LEMMA Sha2InitialiseKeeps ==
  ASSUME Sha2Inv, H!Sha2Initialise
  PROVE  Sha2Inv' /\ H!Hash!Initialise
<1>1. /\ curlen' = 0 /\ length' = 0 /\ buf' = buf
      /\ sha2_absorbed' = <<>> /\ todo' = 0 /\ sha2_fed' = 0
      /\ sha2_digest' = <<>>
  BY DEF H!Sha2Initialise
<1>2. buf' \in Buffers(SHA2_BLOCK_SIZE)
  BY <1>1 DEF Sha2Inv
<1>3. 0 % SHA2_BLOCK_SIZE = 0 /\ 0 % (8 * LengthModulus) = 0
  BY Sha2Constants, ZeroMod
<1>4. Contents(<<>>, buf', 0) = Message(0, 0)
  BY NothingUsed, NoMessage DEF Contents
<1>5. Sha2Inv'
  BY <1>1, <1>2, <1>3, <1>4, Sha2Constants DEF Sha2Inv
<1> QED BY <1>1, <1>5 DEF H!Hash!Initialise

(* A call to update: its bytes are still to be taken.                      *)
LEMMA Sha2UpdateKeeps ==
  ASSUME Sha2Inv, NEW n \in Pieces, H!Sha2Update(n)
  PROVE  Sha2Inv' /\ H!Hash!Update(n)
<1>1. /\ curlen' = curlen /\ length' = length /\ buf' = buf
      /\ sha2_absorbed' = sha2_absorbed /\ todo = 0 /\ todo' = n
      /\ sha2_fed' = sha2_fed + n
      /\ sha2_digest = <<>> /\ sha2_digest' = sha2_digest
  BY DEF H!Sha2Update
<1>2. n \in Nat /\ sha2_fed \in Nat
  BY Sha2Constants DEF Sha2Inv
<1>3. sha2_fed' - todo' = sha2_fed - todo /\ todo' <= sha2_fed'
      /\ sha2_fed' \in Nat /\ todo' \in Nat
  BY <1>1, <1>2
<1>4. Sha2Inv'
  BY <1>1, <1>3 DEF Sha2Inv
<1> QED BY <1>1, <1>4 DEF H!Hash!Update

(* What a turn of the loop of an update does to the bytes so far.          *)
LEMMA Sha2Turn ==
  ASSUME Sha2Inv, NEW n \in 1 .. todo, sha2_digest = <<>>,
         todo' = todo - n, sha2_fed' = sha2_fed, sha2_digest' = <<>>,
         buf' \in Buffers(SHA2_BLOCK_SIZE), sha2_absorbed' \in Seq(Int),
         curlen' \in 0 .. SHA2_BLOCK_SIZE - 1,
         \/ curlen' = curlen + n /\ length' = length
         \/ /\ curlen + n = SHA2_BLOCK_SIZE /\ curlen' = 0
            /\ length' = H!AddBits(SHA2_BLOCK_SIZE),
         Contents(sha2_absorbed', buf', curlen')
           = Appended(Contents(sha2_absorbed, buf, curlen),
                    Message(sha2_fed - todo, n))
  PROVE  Sha2Inv'
<1> DEFINE B == SHA2_BLOCK_SIZE
           g == sha2_fed - todo
           modulus == 8 * LengthModulus
<1>1. /\ B \in Nat \ {0} /\ modulus \in Nat \ {0}
      /\ todo \in Nat /\ n \in Nat /\ n <= todo /\ sha2_fed \in Nat
      /\ curlen \in 0 .. B - 1 /\ g \in Nat
      /\ curlen = g % B
      /\ length = (8 * (g - curlen)) % modulus
      /\ Contents(sha2_absorbed, buf, curlen) = Message(0, g)
  BY Sha2Constants DEF Sha2Inv
<1>2. sha2_fed' - todo' = g + n /\ todo' \in Nat /\ todo' <= sha2_fed'
      /\ sha2_fed' \in Nat
      /\ sha2_fed' - todo' - curlen' = (g + n) - curlen'
  <2>1. /\ sha2_fed' - todo' = g + n /\ todo' \in Nat
        /\ todo' <= sha2_fed' /\ sha2_fed' \in Nat
    BY <1>1
  <2> HIDE DEF g
  <2> QED BY <2>1
<1>3. Message(0, g) \o Message(g, n) = Message(0, g + n)
  <2> DEFINE z == 0
  <2>1. z \in Int /\ z + g = g
    BY <1>1
  <2> HIDE DEF z, g
  <2>2. Message(z, g) \o Message(z + g, n) = Message(z, g + n)
    BY <1>1, <2>1, MessageJoins
  <2> QED BY <2>1, <2>2 DEF z
<1>4. Contents(sha2_absorbed', buf', curlen') = Message(0, g + n)
  BY <1>1, <1>3 DEF Appended
<1>5. ((g % B) + n) % B = (g + n) % B
  BY <1>1, ModAdd
<1>6. g >= curlen
  <2>1. g = B * (g \div B) + (g % B) /\ g \div B \in Nat
    BY <1>1, DivMod
  <2>2. B * (g \div B) \in Nat
    BY <1>1, <2>1
  <2> QED BY <1>1, <2>1, <2>2
<1>9. /\ sha2_digest' = <<>> /\ buf' \in Buffers(B)
      /\ sha2_absorbed' \in Seq(Int) /\ curlen' \in 0 .. B - 1
  OBVIOUS
<1> HIDE DEF B, g, modulus
<1>10. ASSUME length' \in Nat, curlen' = (g + n) % B,
              length' = (8 * ((g + n) - curlen')) % modulus
       PROVE  Sha2Inv'
  <2>1. length' = (8 * (sha2_fed' - todo' - curlen'))
                    % (8 * LengthModulus)
    BY <1>2, <1>10, Zenon DEF modulus
  <2>2. curlen' = (sha2_fed' - todo') % SHA2_BLOCK_SIZE
    BY <1>2, <1>10, Zenon DEF B
  <2>3. Contents(sha2_absorbed', buf', curlen') = Message(0, sha2_fed' - todo')
    BY <1>2, <1>4, Zenon
  <2> QED BY <1>2, <1>9, <1>10, <2>1, <2>2, <2>3, Zenon DEF Sha2Inv, B
<1>7. CASE curlen' = curlen + n /\ length' = length
  <2>1. (curlen + n) % B = curlen + n
    <3> DEFINE c == curlen + n
    <3>1. c \in 0 .. B - 1
      BY <1>1, <1>7 DEF B
    <3> HIDE DEF c
    <3>2. c % B = c
      BY <1>1, <3>1, SmallMod
    <3> QED BY <3>2 DEF c
  <2>2. curlen' = (g + n) % B
    BY <1>1, <1>5, <1>7, <2>1
  <2>3. (g + n) - curlen' = g - curlen
    BY <1>1, <1>7
  <2>4. length' = (8 * ((g + n) - curlen')) % modulus
    BY <1>1, <1>7, <2>3
  <2>5. length' \in Nat
    BY <1>7 DEF Sha2Inv
  <2> QED BY <1>10, <2>2, <2>4, <2>5
<1>8. CASE curlen + n = B /\ curlen' = 0 /\ length' = H!AddBits(B)
  <2>1. B % B = 0
    BY <1>1, SelfMod
  <2>2. curlen' = (g + n) % B
    BY <1>1, <1>5, <1>8, <2>1
  <2> DEFINE d == 8 * (g - curlen)
             e == 8 * B
  <2>3. 8 * ((g + n) - 0) = d + e /\ d \in Nat /\ e \in Nat
    <3>1. \A x, y, z, w \in Nat :
            y + z = w /\ y <= x =>
              /\ 8 * ((x + z) - 0) = 8 * (x - y) + 8 * w
              /\ 8 * (x - y) \in Nat /\ 8 * w \in Nat
      OBVIOUS
    <3>2. g \in Nat /\ curlen \in Nat /\ n \in Nat /\ B \in Nat
          /\ curlen + n = B /\ curlen <= g
      BY <1>1, <1>6, <1>8
    <3> QED BY <3>1, <3>2
  <2>4. length' = ((d % modulus) + e) % modulus
    BY <1>1, <1>8 DEF H!AddBits, modulus
  <2> HIDE DEF d, e
  <2>5. length' = (d + e) % modulus /\ (d + e) \in Nat
    BY <1>1, <2>3, <2>4, ModSums
  <2>6. length' \in Nat
    BY <1>1, <2>5, ModSums
  <2>7. length' = (8 * ((g + n) - curlen')) % modulus
    BY <1>8, <2>3, <2>5
  <2> QED BY <1>10, <2>2, <2>6, <2>7
<1> QED BY <1>7, <1>8 DEF B

(* A round of the loop that hashes a block of the caller                   *)
(* (Sha256.c:195-201).                                                     *)
LEMMA Sha2TakeBlockKeeps ==
  ASSUME Sha2Inv, H!TakeBlock
  PROVE  Sha2Inv' /\ UNCHANGED <<sha2_fed, sha2_digest>>
<1> DEFINE B == SHA2_BLOCK_SIZE
           g == sha2_fed - todo
<1>1. /\ todo > 0 /\ curlen = 0 /\ todo >= B
      /\ sha2_absorbed' = sha2_absorbed \o Message(g, B)
      /\ length' = H!AddBits(B) /\ todo' = todo - B
      /\ curlen' = curlen /\ buf' = buf /\ sha2_fed' = sha2_fed
      /\ sha2_digest' = sha2_digest
  BY Sha2Operators DEF H!TakeBlock
<1>2. /\ B \in Nat \ {0} /\ todo \in Nat /\ sha2_fed \in Nat
      /\ buf \in Buffers(B) /\ sha2_absorbed \in Seq(Int)
      /\ sha2_digest # <<>> => todo = 0
  BY Sha2Constants DEF Sha2Inv
<1>3. sha2_digest = <<>>
  BY <1>1, <1>2
<1>5. Message(g, B) \in Seq(Int)
  BY <1>2, MessageBytes
<1> HIDE DEF g
<1>6. sha2_absorbed' \in Seq(Int)
  BY <1>1, <1>2, <1>5, Joins
<1>7. Contents(sha2_absorbed', buf', curlen')
        = Appended(Contents(sha2_absorbed, buf, curlen), Message(g, B))
  <2>1. Contents(sha2_absorbed, buf, curlen) = sha2_absorbed
    BY <1>1, <1>2, AllHashed
  <2>2. Contents(sha2_absorbed', buf', curlen') = sha2_absorbed'
    BY <1>1, <1>6, AllHashed
  <2> QED BY <1>1, <2>1, <2>2, Zenon DEF Appended
<1>8. /\ B \in 1 .. todo /\ curlen' \in 0 .. B - 1 /\ curlen + B = B
      /\ curlen' = 0
  BY <1>1, <1>2
<1>9. Sha2Inv'
  BY <1>1, <1>2, <1>3, <1>6, <1>7, <1>8, Sha2Turn DEF g
<1> QED BY <1>1, <1>9

(* A round that fills the buffer, and hashes it when it is full.           *)
LEMMA Sha2TakeBytesKeeps ==
  ASSUME Sha2Inv, H!TakeBytes
  PROVE  Sha2Inv' /\ UNCHANGED <<sha2_fed, sha2_digest>>
<1> DEFINE B == SHA2_BLOCK_SIZE
           g == sha2_fed - todo
           n == IF todo < B - curlen THEN todo ELSE B - curlen
           filled == Store(buf, curlen, Message(g, n))
<1>1. /\ todo > 0
      /\ buf' = filled /\ todo' = todo - n
      /\ IF curlen + n = B
         THEN /\ sha2_absorbed' = sha2_absorbed \o Bytes(filled, B)
              /\ length' = H!AddBits(B) /\ curlen' = 0
         ELSE curlen' = curlen + n /\ UNCHANGED <<sha2_absorbed, length>>
      /\ sha2_fed' = sha2_fed /\ sha2_digest' = sha2_digest
  BY Sha2Operators DEF H!TakeBytes, H!Room, H!IsFull
<1>2. /\ B \in Nat \ {0} /\ todo \in Nat /\ sha2_fed \in Nat
      /\ buf \in Buffers(B) /\ sha2_absorbed \in Seq(Int)
      /\ sha2_digest # <<>> => todo = 0
      /\ curlen \in 0 .. B - 1
  BY Sha2Constants DEF Sha2Inv
<1>3. sha2_digest = <<>> /\ g \in Int
  BY <1>1, <1>2
<1>4. n \in 1 .. todo /\ curlen + n <= B /\ n \in Nat /\ curlen \in Nat
  BY <1>1, <1>2
<1> HIDE DEF g, n
<1>5. Message(g, n) \in Seq(Int) /\ Len(Message(g, n)) = n
  BY <1>3, <1>4, MessageBytes
<1>6. /\ filled \in Buffers(B)
      /\ Contents(sha2_absorbed, filled, curlen + n) \in Seq(Int)
      /\ Contents(sha2_absorbed, filled, curlen + n)
           = Appended(Contents(sha2_absorbed, buf, curlen), Message(g, n))
  <2> DEFINE e == curlen + n
             m == Message(g, n)
  <2>1. /\ B \in Nat /\ buf \in Buffers(B) /\ curlen \in Nat
        /\ m \in Seq(Int) /\ sha2_absorbed \in Seq(Int)
        /\ e = curlen + Len(m) /\ e <= B
    BY <1>2, <1>4, <1>5
  <2> HIDE DEF e, m, B
  <2>3. Fits(B, buf, curlen, m, e)
    BY <2>1 DEF Fits
  <2>2. /\ Store(buf, curlen, m) \in Buffers(B)
        /\ Contents(sha2_absorbed, Store(buf, curlen, m), e) \in Seq(Int)
        /\ Contents(sha2_absorbed, Store(buf, curlen, m), e)
             = Appended(Contents(sha2_absorbed, buf, curlen), m)
    BY <2>1, <2>3, Appends
  <2> QED BY <2>2 DEF e, m
<1> HIDE DEF filled
<1>7. CASE curlen + n = B
  <2>1. sha2_absorbed' = Contents(sha2_absorbed, filled, curlen + n)
    BY <1>1, <1>7, Zenon DEF Contents
  <2>2. Contents(sha2_absorbed', buf', curlen') = sha2_absorbed'
        /\ sha2_absorbed' \in Seq(Int)
    BY <1>1, <1>6, <1>7, <2>1, AllHashed
  <2>3. Contents(sha2_absorbed', buf', curlen')
          = Appended(Contents(sha2_absorbed, buf, curlen), Message(g, n))
    BY <1>6, <2>1, <2>2, Zenon
  <2>4. curlen' \in 0 .. B - 1
    BY <1>1, <1>2, <1>7
  <2> QED BY <1>1, <1>3, <1>4, <1>6, <1>7, <2>2, <2>3, <2>4, Sha2Turn DEF g
<1>8. CASE curlen + n # B
  <2>1. Contents(sha2_absorbed', buf', curlen')
          = Appended(Contents(sha2_absorbed, buf, curlen), Message(g, n))
    BY <1>1, <1>6, <1>8
  <2>2. curlen' \in 0 .. B - 1 /\ sha2_absorbed' \in Seq(Int)
    BY <1>1, <1>2, <1>4, <1>8
  <2> QED BY <1>1, <1>3, <1>4, <1>6, <1>8, <2>1, <2>2, Sha2Turn DEF g
<1> QED BY <1>1, <1>7, <1>8

(* The message is closed by the padding it should have (Sha256.c:224-266). *)
LEMMA Sha2FinaliseKeeps ==
  ASSUME Sha2Inv, H!Sha2Finalise
  PROVE  Sha2Inv' /\ H!Hash!Finalise
<1> DEFINE B == SHA2_BLOCK_SIZE
           L == SHA2_LENGTH_SIZE
           last == LastBlock(B, L, buf, curlen)
           text == sha2_absorbed \o FullBlock(B, L, buf, curlen)
                     \o Bytes(last, B - STORED_SIZE)
<1>1. /\ todo = 0 /\ sha2_digest = <<>>
      /\ length' = H!AddBits(curlen)
      /\ sha2_absorbed' = text
      /\ sha2_digest' = <<[text |-> sha2_absorbed', bits |-> length']>>
      /\ buf' = last /\ curlen' = B - STORED_SIZE
      /\ todo' = todo /\ sha2_fed' = sha2_fed
  BY Sha2Operators DEF H!Sha2Finalise, H!NeedsBlock, NoRoom, FullBlock,
                           LastBlock
<1>2. /\ B \in Nat \ {0} /\ L \in Nat \ {0} /\ L < B
      /\ STORED_SIZE \in 1 .. L /\ LengthModulus \in Nat \ {0}
      /\ sha2_fed \in Nat /\ buf \in Buffers(B)
      /\ sha2_absorbed \in Seq(Int) /\ curlen \in 0 .. B - 1
      /\ curlen = (sha2_fed - todo) % B
      /\ Contents(sha2_absorbed, buf, curlen) = Message(0, sha2_fed - todo)
      /\ length = (8 * (sha2_fed - todo - curlen)) % (8 * LengthModulus)
  BY <1>1, Sha2Constants DEF Sha2Inv
<1>3. sha2_fed - todo = sha2_fed
  BY <1>1, <1>2
<1>4. /\ last \in Buffers(B) /\ text \in Seq(Int)
      /\ text = PaddedText(B, L, STORED_SIZE, sha2_fed)
  <2>1. /\ curlen = sha2_fed % B
        /\ Contents(sha2_absorbed, buf, curlen) = Message(0, sha2_fed)
    BY <1>2, <1>3
  <2>2. /\ B \in Nat \ {0} /\ L \in Nat \ {0} /\ L < B
        /\ STORED_SIZE \in 1 .. L /\ sha2_fed \in Nat
        /\ buf \in Buffers(B) /\ sha2_absorbed \in Seq(Int)
    BY <1>2
  <2> DEFINE tail == B - STORED_SIZE
  <2>3. tail = B - STORED_SIZE
    OBVIOUS
  <2> HIDE DEF B, L, tail
  <2>4. /\ LastBlock(B, L, buf, curlen) \in Buffers(B)
        /\ PaddedText(B, L, STORED_SIZE, sha2_fed) \in Seq(Int)
        /\ Contents(Appended(sha2_absorbed, FullBlock(B, L, buf, curlen)),
                    LastBlock(B, L, buf, curlen), tail)
             = PaddedText(B, L, STORED_SIZE, sha2_fed)
    <3>1. Ends(B, L, STORED_SIZE, sha2_fed, curlen, buf, tail)
      BY <2>1, <2>2, <2>3 DEF Ends
    <3> QED BY <2>1, <2>2, <3>1, Pads
  <2> QED BY <2>4 DEF tail, Contents, Appended
<1> HIDE DEF text, last
<1>5. length' = 8 * (sha2_fed % LengthModulus)
  <2> DEFINE d == 8 * (sha2_fed - curlen)
             e == 8 * curlen
             modulus == 8 * LengthModulus
  <2>1. curlen <= sha2_fed
    <3>1. /\ sha2_fed = B * (sha2_fed \div B) + (sha2_fed % B)
          /\ sha2_fed \div B \in Nat
      BY <1>2, DivMod
    <3>2. B * (sha2_fed \div B) \in Nat
      BY <1>2, <3>1
    <3>3. curlen = sha2_fed % B
      BY <1>2, <1>3
    <3>4. \A x, y, z \in Nat : x = y + z => z <= x
      OBVIOUS
    <3>5. sha2_fed % B \in Nat
      BY <1>2, DivMod
    <3> QED BY <1>2, <3>1, <3>2, <3>3, <3>4, <3>5, Zenon
  <2>2. d \in Nat /\ e \in Nat /\ modulus \in Nat \ {0} /\ d + e = 8 * sha2_fed
    BY <1>2, <2>1
  <2>3. length' = ((d % modulus) + e) % modulus
    BY <1>1, <1>2, <1>3 DEF H!AddBits
  <2> HIDE DEF d, e, modulus
  <2>4. length' = (8 * sha2_fed) % modulus
    <3>1. ((d % modulus) + e) % modulus = (d + e) % modulus
      BY <2>2, ModSums, Zenon
    <3> QED BY <2>2, <2>3, <3>1, Zenon
  <2>5. (8 * sha2_fed) % (8 * LengthModulus) = 8 * (sha2_fed % LengthModulus)
    BY <1>2, ModScale, 8 \in Nat \ {0}
  <2> QED BY <2>4, <2>5 DEF modulus
<1>6. sha2_digest' = <<H!Hash!Padded(sha2_fed)>>
  BY <1>1, <1>4, <1>5, Sha2Operators
<1>7. H!Hash!Finalise
  BY <1>1, <1>6 DEF H!Hash!Finalise
<1>8. curlen' \in 0 .. B - 1 /\ length' \in Nat /\ todo' = 0
  <2>1. sha2_fed % LengthModulus \in Nat
    BY <1>2, DivMod
  <2> QED BY <1>1, <1>2, <1>5, <2>1
<1>9. sha2_digest' # <<>>
  BY <1>1
<1> QED BY <1>1, <1>2, <1>4, <1>6, <1>7, <1>8, <1>9 DEF Sha2Inv

-----------------------------------------------------------------------------
(* MD5.                                                                    *)

Md5Inv ==
  /\ lo \in 0 .. 8 * (LO - 1) /\ hi \in 0 .. HI - 1
  /\ md5_fed \in Nat
  /\ md5_buffer \in Buffers(BLOCK_SIZE)
  /\ md5_absorbed \in Seq(Int)
  /\ md5_digest = <<>> =>
       /\ lo = md5_fed % LO
       /\ hi = (md5_fed \div LO) % HI
       /\ Contents(md5_absorbed, md5_buffer, md5_fed % BLOCK_SIZE)
            = Message(0, md5_fed)
  /\ md5_digest # <<>> => md5_digest = <<M!Hash!Padded(md5_fed)>>

(* MD5 uses the operators of the module for all hashes.                    *)
LEMMA Md5Operators ==
  /\ \A from, n : M!Message(from, n) = Message(from, n)
  /\ \A b, at, data : M!Store(b, at, data) = Store(b, at, data)
  /\ \A b, n : M!Bytes(b, n) = Bytes(b, n)
  /\ \A b, n : M!Closed(b, n) = Closed(b, n)
  /\ \A n : M!Cleared(n) = Cleared(n)
  /\ \A n : M!Hash!Padded(n) =
       [text |-> PaddedText(BLOCK_SIZE, LENGTH_SIZE, LENGTH_SIZE, n),
        bits |-> 8 * (n % (LO * HI))]
BY DEF M!Message, Message, M!Store, Store, M!Bytes, Bytes, M!Closed, Closed,
       M!One, One, M!Zero, Zero, M!Cleared, Cleared, M!Hash!Padded,
       M!Hash!Message, M!Hash!Zeros, Zeros, M!Hash!Zero, M!Hash!One,
       M!Hash!Fill, PaddedText

(* What the constants of MD5 are assumed to be.                            *)
LEMMA Md5Constants ==
  /\ BLOCK_SIZE \in Nat \ {0}
  /\ LENGTH_SIZE \in Nat \ {0} /\ LENGTH_SIZE < BLOCK_SIZE
  /\ LO \in Nat \ {0} /\ HI \in Nat \ {0} /\ LO * HI \in Nat \ {0}
  /\ LO \div BLOCK_SIZE \in Nat \ {0}
  /\ LO = BLOCK_SIZE * (LO \div BLOCK_SIZE)
  /\ Pieces \subseteq Nat
<1>1. /\ BLOCK_SIZE \in Nat \ {0}
      /\ LENGTH_SIZE \in Nat \ {0} /\ LENGTH_SIZE < BLOCK_SIZE
      /\ LO \in Nat \ {0} /\ HI \in Nat \ {0} /\ LO % BLOCK_SIZE = 0
      /\ Pieces \subseteq Nat
  BY HashesAssumption DEF M!Md5Assumption
<1>2. LO * HI \in Nat \ {0}
  BY <1>1
<1>3. /\ LO \div BLOCK_SIZE \in Nat
      /\ LO = BLOCK_SIZE * (LO \div BLOCK_SIZE) + (LO % BLOCK_SIZE)
  BY <1>1, DivMod
<1>4. LO = BLOCK_SIZE * (LO \div BLOCK_SIZE)
  BY <1>1, <1>3
<1>5. LO \div BLOCK_SIZE # 0
  <2>1. BLOCK_SIZE * 0 = 0
    BY <1>1
  <2> QED BY <1>1, <1>4, <2>1, Zenon
<1> QED BY <1>1, <1>2, <1>3, <1>4, <1>5

(* Although lo is a remainder itself, it tells how much of a block the     *)
(* message has: a block's size divides what lo counts up to.               *)
LEMMA Md5Used ==
  ASSUME Md5Inv, md5_digest = <<>>
  PROVE  M!Used = md5_fed % BLOCK_SIZE /\ M!Used \in 0 .. BLOCK_SIZE - 1
<1>1. lo = md5_fed % LO /\ md5_fed \in Nat
  BY DEF Md5Inv
<1>2. (md5_fed % (BLOCK_SIZE * (LO \div BLOCK_SIZE))) % BLOCK_SIZE
        = md5_fed % BLOCK_SIZE
  BY <1>1, Md5Constants, ModOfMod
<1>3. lo % BLOCK_SIZE = md5_fed % BLOCK_SIZE
  BY <1>1, <1>2, Md5Constants, Zenon
<1>4. md5_fed % BLOCK_SIZE \in 0 .. BLOCK_SIZE - 1
  BY <1>1, Md5Constants, DivMod
<1> QED BY <1>3, <1>4 DEF M!Used

(* A new context has hashed nothing of an empty message.                   *)
LEMMA Md5Starts == M!Init => Md5Inv /\ M!Hash!Init
<1> SUFFICES ASSUME M!Init PROVE Md5Inv /\ M!Hash!Init OBVIOUS
<1>1. /\ lo = 0 /\ hi = 0 /\ md5_buffer = Cleared(BLOCK_SIZE)
      /\ md5_absorbed = <<>> /\ md5_fed = 0 /\ md5_digest = <<>>
  BY Md5Operators DEF M!Init
<1>2. md5_buffer \in Buffers(BLOCK_SIZE)
  BY <1>1, Md5Constants, ClearedBytes
<1>3. 0 % BLOCK_SIZE = 0 /\ 0 % LO = 0 /\ 0 \div LO = 0 /\ 0 % HI = 0
  BY Md5Constants, ZeroMod
<1>4. Contents(<<>>, md5_buffer, 0) = Message(0, 0)
  BY NothingUsed, NoMessage DEF Contents
<1>5. Md5Inv
  BY <1>1, <1>2, <1>3, <1>4, Md5Constants DEF Md5Inv
<1> QED BY <1>1, <1>5 DEF M!Hash!Init

(* Initialising starts over; the bytes left in the buffer are not in use.  *)
LEMMA Md5InitialiseKeeps ==
  ASSUME Md5Inv, M!Md5Initialise
  PROVE  Md5Inv' /\ M!Hash!Initialise
<1>1. /\ lo' = 0 /\ hi' = 0 /\ md5_buffer' = md5_buffer
      /\ md5_absorbed' = <<>> /\ md5_fed' = 0 /\ md5_digest' = <<>>
  BY DEF M!Md5Initialise
<1>2. md5_buffer' \in Buffers(BLOCK_SIZE)
  BY <1>1 DEF Md5Inv
<1>3. 0 % BLOCK_SIZE = 0 /\ 0 % LO = 0 /\ 0 \div LO = 0 /\ 0 % HI = 0
  BY Md5Constants, ZeroMod
<1>4. Contents(<<>>, md5_buffer', 0) = Message(0, 0)
  BY NothingUsed, NoMessage DEF Contents
<1>5. Md5Inv'
  BY <1>1, <1>2, <1>3, <1>4, Md5Constants DEF Md5Inv
<1> QED BY <1>1, <1>5 DEF M!Hash!Initialise

(* The carry, found by comparing the sum with one of its terms, is right.  *)
LEMMA Md5Counts ==
  ASSUME Md5Inv, NEW n \in Nat, md5_digest = <<>>, M!CountBytes(n)
  PROVE  /\ lo' = (md5_fed + n) % LO
         /\ hi' = ((md5_fed + n) \div LO) % HI
         /\ lo' \in 0 .. 8 * (LO - 1) /\ hi' \in 0 .. HI - 1
<1> DEFINE low == ((md5_fed % LO) + n) % LO
           carry == IF low < md5_fed % LO THEN 1 ELSE 0
<1>1. /\ lo = md5_fed % LO /\ hi = (md5_fed \div LO) % HI
      /\ md5_fed \in Nat /\ md5_fed + n \in Nat
  BY DEF Md5Inv
<1>2. lo' = low /\ hi' = (((md5_fed \div LO) % HI) + carry + (n \div LO)) % HI
  BY <1>1, Zenon DEF M!CountBytes
<1>3. LO \in Nat \ {0} /\ HI \in Nat \ {0}
  BY Md5Constants
<1>4. /\ low = (md5_fed + n) % LO
      /\ (((md5_fed \div LO) % HI) + carry + (n \div LO)) % HI
           = ((md5_fed + n) \div LO) % HI
  <2>1. /\ low = ((md5_fed % LO) + n) % LO
        /\ carry = IF low < md5_fed % LO THEN 1 ELSE 0
    OBVIOUS
  <2>2. WordsCount(LO, HI, md5_fed, n, low, carry)
    BY <1>1, <1>3, <2>1 DEF WordsCount
  <2> HIDE DEF low, carry
  <2> QED BY <2>2, TwoWords
<1>5. lo' = (md5_fed + n) % LO /\ hi' = ((md5_fed + n) \div LO) % HI
  BY <1>2, <1>4, Zenon
<1>6. lo' \in 0 .. LO - 1
  BY <1>1, <1>3, <1>5, DivMod
<1>7. hi' \in 0 .. HI - 1
  BY <1>1, <1>3, <1>5, DivMod
<1>8. lo' \in 0 .. 8 * (LO - 1)
  BY <1>3, <1>6
<1> QED BY <1>5, <1>7, <1>8

(* Data that does not fill the buffer joins what is in it (Md5.c:230-238). *)
LEMMA Md5JoinBlockKeeps ==
  ASSUME Md5Inv, NEW n \in Nat, md5_digest = <<>>, M!Used > 0, n < M!Free,
         M!JoinBlock(n)
  PROVE  /\ md5_buffer' \in Buffers(BLOCK_SIZE)
         /\ md5_absorbed' \in Seq(Int)
         /\ Contents(md5_absorbed', md5_buffer', (md5_fed + n) % BLOCK_SIZE)
              = Message(0, md5_fed + n)
<1> DEFINE B == BLOCK_SIZE
           u == M!Used
           m == Message(md5_fed, n)
           e == u + n
<1>1. /\ B \in Nat \ {0} /\ md5_fed \in Nat /\ md5_buffer \in Buffers(B)
      /\ md5_absorbed \in Seq(Int)
      /\ Contents(md5_absorbed, md5_buffer, md5_fed % B) = Message(0, md5_fed)
  BY Md5Constants DEF Md5Inv
<1>2. u = md5_fed % B /\ u \in 0 .. B - 1
  BY Md5Used
<1>3. n < B - u
  BY DEF M!Free
<1>4. md5_buffer' = Store(md5_buffer, u, m) /\ md5_absorbed' = md5_absorbed
  BY Md5Operators DEF M!JoinBlock
<1>5. m \in Seq(Int) /\ Len(m) = n
  BY <1>1, MessageBytes
<1> HIDE DEF u, m, B
<1>6. e \in 0 .. B - 1 /\ e = u + Len(m) /\ u \in Nat /\ B \in Nat /\ e <= B
  BY <1>1, <1>2, <1>3, <1>5
<1>7. (md5_fed + n) % B = e
  <2>1. (u + n) % B = (md5_fed + n) % B
    BY <1>1, <1>2, ModSums, Zenon
  <2>2. e % B = e
    BY <1>1, <1>6, SmallMod
  <2> QED BY <2>1, <2>2, Zenon
<1> HIDE DEF e
<1>8. Fits(B, md5_buffer, u, m, e)
  BY <1>1, <1>5, <1>6 DEF Fits
<1>9. /\ Store(md5_buffer, u, m) \in Buffers(B)
      /\ Contents(md5_absorbed, Store(md5_buffer, u, m), e)
           = Appended(Contents(md5_absorbed, md5_buffer, u), m)
  BY <1>1, <1>8, Appends
<1>10. Appended(Message(0, md5_fed), m) = Message(0, md5_fed + n)
  BY <1>1, MessageGoesOn DEF m
<1>11. Contents(md5_absorbed', md5_buffer', (md5_fed + n) % B)
         = Message(0, md5_fed + n)
  BY <1>1, <1>2, <1>4, <1>7, <1>9, <1>10, Zenon
<1>12. md5_buffer' \in Buffers(B) /\ md5_absorbed' \in Seq(Int)
  BY <1>1, <1>4, <1>9, Zenon
<1> QED BY <1>11, <1>12 DEF B

(* Data that does: the buffer, whole blocks and a rest (Md5.c:240-252).    *)
LEMMA Md5TakeBlocksKeeps ==
  ASSUME Md5Inv, NEW n \in Nat, md5_digest = <<>>,
         ~ (M!Used > 0 /\ n < M!Free), M!TakeBlocks(n)
  PROVE  /\ md5_buffer' \in Buffers(BLOCK_SIZE)
         /\ md5_absorbed' \in Seq(Int)
         /\ Contents(md5_absorbed', md5_buffer', (md5_fed + n) % BLOCK_SIZE)
              = Message(0, md5_fed + n)
<1> DEFINE B == BLOCK_SIZE
           u == M!Used
           f == md5_fed
           taken == IF u > 0 THEN B - u ELSE 0
           r == (n - taken) % B
           whole == n - taken - r
           a == Message(f, taken)
           c == Message(f + taken, whole)
           d == Message(f + taken + whole, n - taken - whole)
           filled == Store(md5_buffer, u, a)
           b == Store(filled, 0, d)
           text == md5_absorbed \o (IF u > 0 THEN Bytes(filled, B) ELSE <<>>)
                                \o c
<1>1. /\ B \in Nat \ {0} /\ f \in Nat /\ md5_buffer \in Buffers(B)
      /\ md5_absorbed \in Seq(Int)
      /\ Contents(md5_absorbed, md5_buffer, f % B) = Message(0, f)
  BY Md5Constants DEF Md5Inv
<1>2. u = f % B /\ u \in 0 .. B - 1
  BY Md5Used
<1>3. md5_buffer' = b /\ md5_absorbed' = text
  BY Md5Operators DEF M!TakeBlocks, M!Free
<1>4. /\ taken \in Nat /\ taken <= n
      /\ \/ u = 0 /\ taken = 0
         \/ taken = B - u
  BY <1>1, <1>2 DEF M!Free
<1> HIDE DEF u, f, B, taken
<1>5. /\ r = (f + n) % B /\ r \in 0 .. B - 1 /\ r <= n - taken
      /\ r \in Nat
  <2>1. \/ f % B = 0 /\ taken = 0
        \/ taken = B - (f % B)
    BY <1>2, <1>4, Zenon
  <2>2. /\ (n - taken) % B = (f + n) % B
        /\ (n - taken) % B \in 0 .. B - 1
        /\ (n - taken) % B <= n - taken
    BY <1>1, <1>4, <2>1, RestOfBlock
  <2> HIDE DEF r
  <2>3. /\ r = (f + n) % B /\ r \in 0 .. B - 1 /\ r <= n - taken
    BY <2>2, Zenon DEF r
  <2> QED BY <1>1, <2>3
<1> HIDE DEF r
<1>6. /\ whole \in Nat /\ f + taken \in Nat /\ f + taken + whole \in Nat
      /\ n - taken - whole = r
      /\ f + taken + whole + r = f + n /\ r \in Nat
  <2>1. r \in Nat /\ r <= n - taken
    BY <1>5
  <2> QED BY <1>1, <1>4, <2>1
<1> HIDE DEF whole
<1>7. /\ a \in Seq(Int) /\ Len(a) = taken
      /\ c \in Seq(Int)
      /\ d = Message(f + taken + whole, r)
      /\ d \in Seq(Int) /\ Len(d) = r
  <2>1. f \in Int /\ f + taken \in Int /\ f + taken + whole \in Int
    BY <1>1, <1>6
  <2>2. a \in Seq(Int) /\ Len(a) = taken
    BY <1>4, <2>1, MessageBytes
  <2>3. c \in Seq(Int)
    BY <1>6, <2>1, MessageBytes
  <2>4. d = Message(f + taken + whole, r)
    BY <1>6
  <2>5. /\ Message(f + taken + whole, r) \in Seq(Int)
        /\ Len(Message(f + taken + whole, r)) = r
    BY <1>6, <2>1, MessageBytes
  <2> QED BY <2>2, <2>3, <2>4, <2>5, Zenon
<1>8. /\ Appended(Message(0, f), a) = Message(0, f + taken)
      /\ Appended(Message(0, f + taken), c) = Message(0, f + taken + whole)
      /\ Appended(Message(0, f + taken + whole), d) = Message(0, f + n)
  <2>1. Appended(Message(0, f), a) = Message(0, f + taken)
    BY <1>1, <1>4, MessageGoesOn
  <2>2. Appended(Message(0, f + taken), c) = Message(0, f + taken + whole)
    BY <1>6, MessageGoesOn
  <2>3. Appended(Message(0, f + taken + whole), Message(f + taken + whole, r))
          = Message(0, f + taken + whole + r)
    BY <1>6, MessageGoesOn
  <2> QED BY <1>6, <1>7, <2>1, <2>2, <2>3, Zenon
<1> HIDE DEF a, c, d
<1>9. CASE u > 0
  <2>1. Fits(B, md5_buffer, u, a, B)
    <3>1. B = u + Len(a)
      BY <1>1, <1>2, <1>4, <1>7, <1>9
    <3> QED BY <1>1, <1>2, <1>7, <3>1 DEF Fits
  <2>2. Fills(B, md5_buffer, u, a, c, d, r)
    BY <1>1, <1>5, <1>7, <2>1 DEF Fills
  <2> DEFINE t == Appended(Appended(md5_absorbed, Bytes(filled, B)), c)
  <2>3. /\ b \in Buffers(B) /\ t \in Seq(Int)
        /\ Contents(t, b, r)
             = Appended(Appended(Appended(
                          Contents(md5_absorbed, md5_buffer, u), a), c), d)
    BY <1>1, <2>2, BlocksTaken
  <2>4. t = text
    BY <1>9 DEF Appended
  <2>5. Contents(text, b, r) = Message(0, f + n)
    BY <1>1, <1>2, <1>8, <2>3, <2>4, Zenon
  <2> QED BY <1>3, <1>5, <2>3, <2>4, <2>5, Zenon DEF B, f
<1>10. CASE ~ (u > 0)
  <2>1. u = 0 /\ taken = 0
    BY <1>1, <1>2, <1>4, <1>10 DEF taken
  <2>2. /\ Fits(B, md5_buffer, 0, a, 0)
    BY <1>1, <1>7, <2>1 DEF Fits
  <2>3. filled \in Buffers(B)
    BY <1>1, <2>1, <2>2, Appends
  <2>4. Contents(md5_absorbed, md5_buffer, 0) = md5_absorbed
    BY <1>1, AllHashed
  <2>5. md5_absorbed = Message(0, f)
    BY <1>1, <1>2, <2>1, <2>4, Zenon
  <2>6. f + taken = f
    BY <1>1, <2>1
  <2> DEFINE t == Appended(md5_absorbed, c)
  <2>7. t = text
    <3>1. md5_absorbed \o <<>> = md5_absorbed
      BY <1>1, Joins
    <3> QED BY <1>10, <3>1 DEF Appended
  <2>8. t \in Seq(Int)
    BY <1>1, <1>7, Joins DEF Appended
  <2> HIDE DEF t, filled
  <2>9. Fits(B, filled, 0, d, r)
    BY <1>1, <1>5, <1>7, <2>3 DEF Fits
  <2>10. /\ b \in Buffers(B)
         /\ Contents(t, b, r) = Appended(Contents(t, filled, 0), d)
    BY <2>8, <2>9, Appends
  <2>11. Contents(t, filled, 0) = t
    BY <2>8, AllHashed
  <2>12. Contents(text, b, r) = Message(0, f + n)
    BY <1>8, <2>5, <2>6, <2>7, <2>10, <2>11, Zenon DEF t
  <2> QED BY <1>3, <1>5, <2>7, <2>8, <2>10, <2>12, Zenon DEF B, f
<1> QED BY <1>9, <1>10

(* An update counts its bytes and takes all of them.                       *)
LEMMA Md5UpdateKeeps ==
  ASSUME Md5Inv, NEW n \in Pieces, M!Md5Update(n)
  PROVE  Md5Inv' /\ M!Hash!Update(n)
<1>1. /\ md5_digest = <<>> /\ md5_digest' = md5_digest
      /\ md5_fed' = md5_fed + n /\ M!CountBytes(n)
      /\ IF M!Used > 0 /\ n < M!Free THEN M!JoinBlock(n) ELSE M!TakeBlocks(n)
  BY DEF M!Md5Update
<1>2. n \in Nat /\ md5_fed \in Nat /\ md5_fed' \in Nat
  BY <1>1, Md5Constants DEF Md5Inv
<1>3. /\ lo' = (md5_fed + n) % LO
      /\ hi' = ((md5_fed + n) \div LO) % HI
      /\ lo' \in 0 .. 8 * (LO - 1) /\ hi' \in 0 .. HI - 1
  BY <1>1, <1>2, Md5Counts
<1>4. /\ md5_buffer' \in Buffers(BLOCK_SIZE)
      /\ md5_absorbed' \in Seq(Int)
      /\ Contents(md5_absorbed', md5_buffer', (md5_fed + n) % BLOCK_SIZE)
           = Message(0, md5_fed + n)
  <2>1. CASE M!Used > 0 /\ n < M!Free
    BY <1>1, <1>2, <2>1, Md5JoinBlockKeeps
  <2>2. CASE ~ (M!Used > 0 /\ n < M!Free)
    BY <1>1, <1>2, <2>2, Md5TakeBlocksKeeps
  <2> QED BY <2>1, <2>2
<1>5. Md5Inv'
  BY <1>1, <1>2, <1>3, <1>4, Zenon DEF Md5Inv
<1> QED BY <1>1, <1>5 DEF M!Hash!Update

(* The message is closed by the padding it should have, in one block or    *)
(* two (Md5.c:271-297).                                                    *)
LEMMA Md5FinaliseKeeps ==
  ASSUME Md5Inv, M!Md5Finalise
  PROVE  Md5Inv' /\ M!Hash!Finalise
<1> DEFINE B == BLOCK_SIZE
           L == LENGTH_SIZE
           u == M!Used
           last == LastBlock(B, L, md5_buffer, u)
           text == md5_absorbed \o FullBlock(B, L, md5_buffer, u)
                     \o Bytes(last, B - L)
<1>1. /\ B \in Nat \ {0} /\ L \in Nat \ {0} /\ L < B
      /\ md5_fed \in Nat /\ md5_buffer \in Buffers(B)
      /\ md5_absorbed \in Seq(Int)
      /\ LO \in Nat \ {0} /\ HI \in Nat \ {0}
  BY Md5Constants DEF Md5Inv
<1>2. md5_digest = <<>>
  BY DEF M!Md5Finalise
<1>3. u = md5_fed % B /\ u \in 0 .. B - 1
  BY <1>2, Md5Used
<1>4. NoRoom(B, L, u) <=> M!NeedsBlock(M!Free - 1)
  <2> HIDE DEF u
  <2>1. \A x, y, z \in Int : x + 1 > y - z <=> y - x - 1 < z
    OBVIOUS
  <2>2. u + 1 > B - L <=> B - u - 1 < L
    BY <1>1, <1>3, <2>1
  <2> QED BY <2>2 DEF NoRoom, M!NeedsBlock, M!Free, u
<1>5. /\ md5_absorbed' = text /\ lo' = 8 * lo
      /\ md5_digest' = <<[text |-> md5_absorbed',
                          bits |-> 8 * LO * hi + lo']>>
      /\ md5_buffer' = last /\ hi' = hi /\ md5_fed' = md5_fed
  BY <1>4, Md5Operators DEF M!Md5Finalise, FullBlock, LastBlock
<1>6. /\ last \in Buffers(B) /\ text \in Seq(Int)
      /\ text = PaddedText(B, L, L, md5_fed)
  <2> DEFINE tail == B - L
  <2>1. Contents(md5_absorbed, md5_buffer, u) = Message(0, md5_fed)
    BY <1>2, <1>3, Zenon DEF Md5Inv
  <2>2. Ends(B, L, L, md5_fed, u, md5_buffer, tail)
    BY <1>1, <1>3 DEF Ends
  <2> HIDE DEF B, L, tail, u
  <2>3. /\ LastBlock(B, L, md5_buffer, u) \in Buffers(B)
        /\ PaddedText(B, L, L, md5_fed) \in Seq(Int)
        /\ Contents(Appended(md5_absorbed, FullBlock(B, L, md5_buffer, u)),
                    LastBlock(B, L, md5_buffer, u), tail)
             = PaddedText(B, L, L, md5_fed)
    BY <1>1, <2>1, <2>2, Pads
  <2> QED BY <2>3 DEF tail, Contents, Appended
<1> HIDE DEF text, last
<1>7. 8 * LO * hi + lo' = 8 * (md5_fed % (LO * HI))
  <2>1. lo = md5_fed % LO /\ hi = (md5_fed \div LO) % HI
    BY <1>2 DEF Md5Inv
  <2>2. LO * ((md5_fed \div LO) % HI) + (md5_fed % LO) = md5_fed % (LO * HI)
    BY <1>1, WordsJoined
  <2>3. LO * hi + lo = md5_fed % (LO * HI)
    BY <2>1, <2>2, Zenon
  <2>4. lo \in Nat /\ hi \in Nat
    BY <1>1 DEF Md5Inv
  <2>5. \A x, y, z \in Nat : 8 * x * y + 8 * z = 8 * (x * y + z)
    OBVIOUS
  <2>6. 8 * LO * hi + 8 * lo = 8 * (LO * hi + lo)
    BY <1>1, <2>4, <2>5
  <2> QED BY <1>5, <2>3, <2>6, Zenon
<1>8. md5_digest' = <<M!Hash!Padded(md5_fed)>>
  BY <1>5, <1>6, <1>7, Md5Operators
<1>9. M!Hash!Finalise
  BY <1>2, <1>5, <1>8 DEF M!Hash!Finalise
<1>10. lo' \in 0 .. 8 * (LO - 1) /\ hi' \in 0 .. HI - 1
  <2>1. lo \in 0 .. LO - 1
    <3>1. md5_fed % LO \in 0 .. LO - 1
      BY <1>1, DivMod
    <3> QED BY <1>2, <3>1 DEF Md5Inv
  <2>2. hi \in 0 .. HI - 1
    BY DEF Md5Inv
  <2> QED BY <1>1, <1>5, <2>1, <2>2
<1>11. md5_digest' # <<>>
  BY <1>5
<1> QED BY <1>1, <1>5, <1>6, <1>8, <1>9, <1>10, <1>11 DEF Md5Inv

-----------------------------------------------------------------------------
(* SHA-1.                                                                  *)

(* The context has been given t bytes, which are those of text: their      *)
(* count is in two words, modulo the values of both.                       *)
Holds(low, high, hashed, b, t, text) ==
  /\ low = (8 * t) % COUNT0
  /\ high = ((8 * t) \div COUNT0) % COUNT1
  /\ Contents(hashed, b, t % BLOCK_SIZE) = text

Collected(t, text) ==
  Holds(Count0, Count1, sha1_absorbed, sha1_Buffer, t, text)

CollectedNext(t, text) ==
  Holds(Count0', Count1', sha1_absorbed', sha1_Buffer', t, text)

(* The message so far, and in finalising it the one bit and zeros.         *)
Sha1Text(j) == Appended(Appended(Message(0, sha1_fed), <<One>>), Zeros(j))

Sha1Inv ==
  /\ Count0 \in 0 .. COUNT0 - 1 /\ Count1 \in 0 .. COUNT1 - 1
  /\ sha1_fed \in Nat
  /\ sha1_Buffer \in Buffers(BLOCK_SIZE)
  /\ sha1_absorbed \in Seq(Int)
  /\ finalcount = <<>> /\ sha1_digest = <<>> =>
       Collected(sha1_fed, Message(0, sha1_fed))
  /\ finalcount # <<>> =>
       /\ sha1_digest = <<>>
       /\ finalcount = <<8 * (sha1_fed % ((COUNT0 \div 8) * COUNT1))>>
       /\ \E j \in 0 .. ZerosUpTo(BLOCK_SIZE, LENGTH_SIZE, sha1_fed) :
            Collected(sha1_fed + 1 + j, Sha1Text(j))
  /\ sha1_digest # <<>> =>
       /\ S!LengthIsHashed
       /\ sha1_digest = <<S!Hash!Padded(sha1_fed)>>

(* SHA-1 uses the operators of the module for all hashes.                  *)
LEMMA Sha1Operators ==
  /\ \A from, n : S!Message(from, n) = Message(from, n)
  /\ \A b, at, data : S!Store(b, at, data) = Store(b, at, data)
  /\ \A b, n : S!Bytes(b, n) = Bytes(b, n)
  /\ \A n : S!Cleared(n) = Cleared(n)
  /\ S!One = One /\ S!Zero = Zero
  /\ \A n : S!Hash!Padded(n) =
       [text |-> PaddedText(BLOCK_SIZE, LENGTH_SIZE, LENGTH_SIZE, n),
        bits |-> 8 * (n % ((COUNT0 \div 8) * COUNT1))]
BY DEF S!Message, Message, S!Store, Store, S!Bytes, Bytes,
       S!One, One, S!Zero, Zero, S!Cleared, Cleared, S!Hash!Padded,
       S!Hash!Message, S!Hash!Zeros, Zeros, S!Hash!Zero, S!Hash!One,
       S!Hash!Fill, PaddedText

(* What the constants of SHA-1 are assumed to be: a word of bits counts    *)
(* whole blocks of bytes.                                                  *)
LEMMA Sha1Constants ==
  /\ BLOCK_SIZE \in Nat \ {0}
  /\ LENGTH_SIZE \in Nat \ {0} /\ LENGTH_SIZE < BLOCK_SIZE
  /\ COUNT0 \in Nat \ {0} /\ COUNT1 \in Nat \ {0}
  /\ COUNT0 \div 8 \in Nat \ {0} /\ COUNT0 = 8 * (COUNT0 \div 8)
  /\ \E w \in Nat \ {0} : COUNT0 \div 8 = BLOCK_SIZE * w
  /\ Pieces \subseteq Nat
<1>1. /\ BLOCK_SIZE \in Nat \ {0}
      /\ LENGTH_SIZE \in Nat \ {0} /\ LENGTH_SIZE < BLOCK_SIZE
      /\ COUNT0 \in Nat \ {0} /\ COUNT1 \in Nat \ {0}
      /\ COUNT0 % (8 * BLOCK_SIZE) = 0
      /\ Pieces \subseteq Nat
  BY HashesAssumption DEF S!Sha1Assumption
<1> DEFINE m == 8 * BLOCK_SIZE
           w == COUNT0 \div m
<1>2. m \in Nat \ {0}
  BY <1>1
<1>3. w \in Nat /\ COUNT0 = m * w + (COUNT0 % m)
  <2> HIDE DEF m
  <2> QED BY <1>1, <1>2, DivMod
<1>4. COUNT0 % m = 0
  BY <1>1
<1> HIDE DEF w
<1>5. COUNT0 = m * w
  <2> HIDE DEF m
  <2>1. m * w \in Nat
    BY <1>2, <1>3
  <2> QED BY <1>3, <1>4, <2>1
<1>6. w # 0
  <2>1. m * 0 = 0
    BY <1>2
  <2> QED BY <1>1, <1>5, <2>1, Zenon
<1>7. BLOCK_SIZE * w \in Nat /\ m * w = 8 * (BLOCK_SIZE * w)
  BY <1>1, <1>3
<1> DEFINE c == BLOCK_SIZE * w
<1>8. c \in Nat /\ COUNT0 = 8 * c
  BY <1>5, <1>7
<1> HIDE DEF c, m
<1>9. COUNT0 \div 8 = c /\ c # 0
  BY <1>1, <1>8
<1> QED BY <1>1, <1>3, <1>6, <1>8, <1>9 DEF c

(* Although the count wraps, it tells how much of a block there is.        *)
LEMMA Sha1UsedOf ==
  ASSUME NEW t \in Nat, NEW count, count = (8 * t) % COUNT0
  PROVE  (count \div 8) % BLOCK_SIZE = t % BLOCK_SIZE
<1> DEFINE c == COUNT0 \div 8
           r == t % c
<1>1. c \in Nat \ {0} /\ COUNT0 = 8 * c /\ BLOCK_SIZE \in Nat \ {0}
  BY Sha1Constants
<1>2. (8 * t) % (8 * c) = 8 * (t % c)
  <2> HIDE DEF c
  <2>1. 8 \in Nat \ {0}
    OBVIOUS
  <2> QED BY <1>1, <2>1, ModScale
<1>3. r \in Nat
  <2> HIDE DEF c
  <2> QED BY <1>1, DivMod
<1>4. count = 8 * r
  BY <1>1, <1>2, Zenon
<1>6. PICK w \in Nat \ {0} : c = BLOCK_SIZE * w
  BY Sha1Constants
<1>5. r % BLOCK_SIZE = t % BLOCK_SIZE
  <2>1. (t % (BLOCK_SIZE * w)) % BLOCK_SIZE = t % BLOCK_SIZE
    BY <1>1, ModOfMod
  <2> QED BY <1>6, <2>1, Zenon
<1> HIDE DEF r
<1>7. count \div 8 = r
  BY <1>3, <1>4
<1> QED BY <1>5, <1>7, Zenon

(* The bits counted say how many bytes of the buffer are in use.           *)
LEMMA Sha1Used ==
  ASSUME NEW t \in Nat, Count0 = (8 * t) % COUNT0
  PROVE  S!Used = t % BLOCK_SIZE /\ S!Used \in 0 .. BLOCK_SIZE - 1
<1>1. S!Used = t % BLOCK_SIZE
  BY Sha1UsedOf DEF S!Used
<1>2. t % BLOCK_SIZE \in 0 .. BLOCK_SIZE - 1
  BY Sha1Constants, DivMod
<1> QED BY <1>1, <1>2

(* And they do after a step.                                               *)
LEMMA Sha1UsedNext ==
  ASSUME NEW t \in Nat, Count0' = (8 * t) % COUNT0
  PROVE  S!Used' = t % BLOCK_SIZE
BY Sha1UsedOf DEF S!Used

(* The two words count the bits of t + n bytes if they did those of t: the *)
(* carry is found by comparing (Sha1.c:191-196).                           *)
LEMMA Sha1Counts ==
  ASSUME NEW t \in Nat, NEW n \in Nat, S!CountBits(n),
         Count0 = (8 * t) % COUNT0, Count1 = ((8 * t) \div COUNT0) % COUNT1
  PROVE  /\ Count0' = (8 * (t + n)) % COUNT0
         /\ Count1' = ((8 * (t + n)) \div COUNT0) % COUNT1
         /\ Count0' \in 0 .. COUNT0 - 1 /\ Count1' \in 0 .. COUNT1 - 1
<1> DEFINE T == 8 * t
           N == 8 * n
           low == ((T % COUNT0) + (N % COUNT0)) % COUNT0
           carry == IF low < N % COUNT0 THEN 1 ELSE 0
<1>1. T \in Nat /\ N \in Nat /\ T + N = 8 * (t + n)
  OBVIOUS
<1>2. COUNT0 \in Nat \ {0} /\ COUNT1 \in Nat \ {0}
  BY Sha1Constants
<1>3. /\ Count0' = low
      /\ Count1' = (((T \div COUNT0) % COUNT1) + carry + (N \div COUNT0))
                     % COUNT1
  BY Zenon DEF S!CountBits
<1> HIDE DEF T, N
<1>4. WordsCount(COUNT0, COUNT1, T, N, low, carry)
  <2>1. low = (T + N) % COUNT0
    BY <1>1, <1>2, ModBoth
  <2>2. ((T % COUNT0) + N) % COUNT0 = (T + N) % COUNT0
    BY <1>1, <1>2, ModSums, Zenon
  <2>3. low = ((T % COUNT0) + N) % COUNT0
    BY <2>1, <2>2, Zenon
  <2> QED BY <1>1, <1>2, <2>3, Zenon DEF WordsCount
<1> HIDE DEF low, carry
<1>5. /\ low = (T + N) % COUNT0
      /\ (((T \div COUNT0) % COUNT1) + carry + (N \div COUNT0)) % COUNT1
           = ((T + N) \div COUNT0) % COUNT1
      /\ (T + N) % COUNT0 \in 0 .. COUNT0 - 1
      /\ ((T + N) \div COUNT0) % COUNT1 \in 0 .. COUNT1 - 1
  BY <1>4, TwoWords
<1> QED BY <1>1, <1>3, <1>5, Zenon

(* What an update does, for callers and for the padding.                   *)
LEMMA Sha1Feeds ==
  ASSUME NEW t \in Nat, NEW text \in Seq(Int), NEW data \in Seq(Int),
         Collected(t, text), S!Feed(data),
         sha1_Buffer \in Buffers(BLOCK_SIZE), sha1_absorbed \in Seq(Int)
  PROVE  /\ Count0' \in 0 .. COUNT0 - 1 /\ Count1' \in 0 .. COUNT1 - 1
         /\ sha1_Buffer' \in Buffers(BLOCK_SIZE)
         /\ sha1_absorbed' \in Seq(Int)
         /\ CollectedNext(t + Len(data), Appended(text, data))
<1> DEFINE B == BLOCK_SIZE
           u == S!Used
           n == Len(data)
           first == B - u
           r == (n - first) % B
           next == n - r
           a == SubSeq(data, 1, first)
           c == SubSeq(data, first + 1, next)
           e == SubSeq(data, next + 1, n)
           filled == Store(sha1_Buffer, u, a)
<1>1. /\ B \in Nat \ {0} /\ n \in Nat
      /\ Count0 = (8 * t) % COUNT0
      /\ Count1 = ((8 * t) \div COUNT0) % COUNT1
      /\ Contents(sha1_absorbed, sha1_Buffer, t % B) = text
  BY Sha1Constants DEF Collected, Holds
<1>2. u = t % B /\ u \in 0 .. B - 1
  BY <1>1, Sha1Used
<1>3. /\ S!CountBits(n)
      /\ IF u + n > B - 1
         THEN /\ sha1_absorbed' = sha1_absorbed \o Bytes(filled, B) \o c
              /\ sha1_Buffer' = Store(filled, 0, e)
         ELSE /\ sha1_Buffer' = Store(sha1_Buffer, u, data)
              /\ sha1_absorbed' = sha1_absorbed
  BY Sha1Operators DEF S!Feed, S!FillsBlock
<1>4. /\ Count0' = (8 * (t + n)) % COUNT0
      /\ Count1' = ((8 * (t + n)) \div COUNT0) % COUNT1
      /\ Count0' \in 0 .. COUNT0 - 1 /\ Count1' \in 0 .. COUNT1 - 1
  BY <1>1, <1>3, Sha1Counts
<1> HIDE DEF B, u, n
<1>5. /\ sha1_Buffer' \in Buffers(B) /\ sha1_absorbed' \in Seq(Int)
      /\ Contents(sha1_absorbed', sha1_Buffer', (t + n) % B)
           = Appended(text, data)
  <2>1. CASE u + n > B - 1
    <3>1. first \in Nat /\ first <= n /\ u + first = B
      BY <1>1, <1>2, <2>1
    <3>2. first = B - (t % B)
      BY <1>2, Zenon
    <3> HIDE DEF first
    <3>3. r = (t + n) % B /\ r \in 0 .. B - 1 /\ r <= n - first
      <4>1. \/ t % B = 0 /\ first = 0
            \/ first = B - (t % B)
        BY <3>2, Zenon
      <4>2. /\ (n - first) % B = (t + n) % B
            /\ (n - first) % B \in 0 .. B - 1
            /\ (n - first) % B <= n - first
        BY <1>1, <3>1, <4>1, RestOfBlock
      <4> QED BY <4>2, Zenon
    <3> HIDE DEF r
    <3>4. next \in Nat /\ first <= next /\ next <= n /\ n - next = r
          /\ r \in Nat /\ r <= B
      <4>1. r \in Nat /\ r <= n - first /\ r <= B
        BY <1>1, <3>3
      <4> QED BY <1>1, <3>1, <4>1
    <3> HIDE DEF next
    <3>5. /\ a \in Seq(Int) /\ Len(a) = first /\ c \in Seq(Int)
          /\ e \in Seq(Int) /\ Len(e) = n - next
          /\ Appended(Appended(Appended(text, a), c), e) = Appended(text, data)
      <4>1. next <= Len(data)
        BY <3>4 DEF n
      <4>2. Cut(data, first, next)
        BY <3>1, <3>4, <4>1 DEF Cut
      <4>3. /\ SubSeq(data, 1, first) \in Seq(Int)
            /\ Len(SubSeq(data, 1, first)) = first
            /\ SubSeq(data, first + 1, next) \in Seq(Int)
            /\ SubSeq(data, next + 1, Len(data)) \in Seq(Int)
            /\ Len(SubSeq(data, next + 1, Len(data))) = Len(data) - next
            /\ Appended(Appended(Appended(text, SubSeq(data, 1, first)),
                             SubSeq(data, first + 1, next)),
                      SubSeq(data, next + 1, Len(data)))
                 = Appended(text, data)
        BY <4>2, InParts
      <4> QED BY <4>3, Zenon DEF n
    <3> HIDE DEF a, c, e
    <3>6. Fits(B, sha1_Buffer, u, a, B)
      <4>1. sha1_Buffer \in Buffers(B)
        BY DEF B
      <4> QED BY <1>1, <1>2, <3>1, <3>5, <4>1 DEF Fits
    <3>7. Fills(B, sha1_Buffer, u, a, c, e, r)
      BY <3>4, <3>5, <3>6 DEF Fills
    <3> DEFINE s == Appended(Appended(sha1_absorbed, Bytes(filled, B)), c)
               b == Store(filled, 0, e)
    <3>8. /\ b \in Buffers(B) /\ s \in Seq(Int)
          /\ Contents(s, b, r)
               = Appended(Appended(Appended(
                            Contents(sha1_absorbed, sha1_Buffer, u), a), c), e)
      BY <3>7, BlocksTaken
    <3>9. sha1_absorbed' = s /\ sha1_Buffer' = b
      BY <1>3, <2>1, Zenon DEF Appended
    <3> QED BY <1>1, <1>2, <3>3, <3>5, <3>8, <3>9, Zenon
  <2>2. CASE ~ (u + n > B - 1)
    <3> DEFINE x == u + n
    <3>1. x \in 0 .. B - 1 /\ u \in Nat /\ x <= B
      BY <1>1, <1>2, <2>2
    <3>2. x = (t + n) % B
      <4>1. (u + n) % B = (t + n) % B
        BY <1>1, <1>2, ModSums, Zenon
      <4>2. x % B = x
        <5> HIDE DEF x
        <5> QED BY <1>1, <3>1, SmallMod
      <4> QED BY <4>1, <4>2, Zenon
    <3>3. Fits(B, sha1_Buffer, u, data, x)
      <4>1. sha1_Buffer \in Buffers(B)
        BY DEF B
      <4> QED BY <1>1, <3>1, <4>1 DEF Fits, n
    <3> HIDE DEF x
    <3>4. /\ Store(sha1_Buffer, u, data) \in Buffers(B)
          /\ Contents(sha1_absorbed, Store(sha1_Buffer, u, data), x)
               = Appended(Contents(sha1_absorbed, sha1_Buffer, u), data)
      BY <3>3, Appends
    <3>5. sha1_absorbed' = sha1_absorbed
          /\ sha1_Buffer' = Store(sha1_Buffer, u, data)
      BY <1>3, <2>2, Zenon
    <3> QED BY <1>1, <1>2, <3>2, <3>4, <3>5, Zenon
  <2> QED BY <2>1, <2>2
<1> QED BY <1>4, <1>5, Zenon DEF B, n, CollectedNext, Holds

(* A new context has hashed nothing of an empty message.                   *)
LEMMA Sha1Starts == S!Init => Sha1Inv /\ S!Hash!Init
<1> SUFFICES ASSUME S!Init PROVE Sha1Inv /\ S!Hash!Init OBVIOUS
<1>1. /\ Count0 = 0 /\ Count1 = 0 /\ sha1_Buffer = Cleared(BLOCK_SIZE)
      /\ sha1_absorbed = <<>> /\ finalcount = <<>> /\ sha1_fed = 0
      /\ sha1_digest = <<>>
  BY Sha1Operators DEF S!Init
<1>2. sha1_Buffer \in Buffers(BLOCK_SIZE)
  BY <1>1, Sha1Constants, ClearedBytes
<1>3. /\ 0 % BLOCK_SIZE = 0 /\ 0 % COUNT0 = 0 /\ 0 \div COUNT0 = 0
      /\ 0 % COUNT1 = 0 /\ 8 * 0 = 0
  BY Sha1Constants, ZeroMod
<1>4. Contents(<<>>, sha1_Buffer, 0) = Message(0, 0)
  BY NothingUsed, NoMessage DEF Contents
<1>5. Collected(0, Message(0, 0))
  BY <1>1, <1>3, <1>4, Zenon DEF Collected, Holds
<1>6. Sha1Inv
  BY <1>1, <1>2, <1>5, Sha1Constants DEF Sha1Inv
<1> QED BY <1>1, <1>6 DEF S!Hash!Init

(* Initialising starts over; the bytes left in the buffer are not in use.  *)
LEMMA Sha1InitialiseKeeps ==
  ASSUME Sha1Inv, S!Sha1Initialise
  PROVE  Sha1Inv' /\ S!Hash!Initialise
<1>1. /\ Count0' = 0 /\ Count1' = 0 /\ sha1_Buffer' = sha1_Buffer
      /\ sha1_absorbed' = <<>> /\ finalcount' = <<>> /\ sha1_fed' = 0
      /\ sha1_digest' = <<>>
  BY DEF S!Sha1Initialise
<1>2. sha1_Buffer' \in Buffers(BLOCK_SIZE)
  BY <1>1 DEF Sha1Inv
<1>3. /\ 0 % BLOCK_SIZE = 0 /\ 0 % COUNT0 = 0 /\ 0 \div COUNT0 = 0
      /\ 0 % COUNT1 = 0 /\ 8 * 0 = 0
  BY Sha1Constants, ZeroMod
<1>4. Contents(<<>>, sha1_Buffer', 0) = Message(0, 0)
  BY NothingUsed, NoMessage DEF Contents
<1>5. Collected(0, Message(0, 0))'
  BY <1>1, <1>3, <1>4, Zenon DEF Collected, Holds
<1>6. Collected(sha1_fed, Message(0, sha1_fed))'
  BY <1>1, <1>5, Zenon
<1>7. Sha1Inv'
  BY <1>1, <1>2, <1>6, Sha1Constants DEF Sha1Inv
<1> QED BY <1>1, <1>7 DEF S!Hash!Initialise

(* An update counts its bytes and takes all of them.                       *)
LEMMA Sha1UpdateKeeps ==
  ASSUME Sha1Inv, NEW n \in Pieces, S!Sha1Update(n)
  PROVE  Sha1Inv' /\ S!Hash!Update(n)
<1> DEFINE f == sha1_fed
           m == Message(f, n)
<1>1. /\ finalcount = <<>> /\ finalcount' = <<>>
      /\ sha1_digest = <<>> /\ sha1_digest' = sha1_digest
      /\ sha1_fed' = f + n /\ S!Feed(m)
  BY Sha1Operators DEF S!Sha1Update
<1>2. /\ n \in Nat /\ f \in Nat /\ f + n \in Nat
      /\ sha1_Buffer \in Buffers(BLOCK_SIZE) /\ sha1_absorbed \in Seq(Int)
      /\ Collected(f, Message(0, f))
  BY <1>1, Sha1Constants DEF Sha1Inv
<1>3. m \in Seq(Int) /\ Len(m) = n /\ Message(0, f) \in Seq(Int)
  BY <1>2, MessageBytes, MessageGoesOn
<1>4. Appended(Message(0, f), m) = Message(0, f + n)
  BY <1>2, MessageGoesOn
<1> HIDE DEF m, f
<1>5. /\ Count0' \in 0 .. COUNT0 - 1 /\ Count1' \in 0 .. COUNT1 - 1
      /\ sha1_Buffer' \in Buffers(BLOCK_SIZE)
      /\ sha1_absorbed' \in Seq(Int)
      /\ CollectedNext(f + Len(m), Appended(Message(0, f), m))
  BY <1>1, <1>2, <1>3, Sha1Feeds
<1>6. Collected(sha1_fed, Message(0, sha1_fed))'
  BY <1>1, <1>3, <1>4, <1>5, Zenon DEF Collected, CollectedNext
<1>7. Sha1Inv'
  BY <1>1, <1>2, <1>5, <1>6 DEF Sha1Inv
<1> QED BY <1>1, <1>7 DEF S!Hash!Update, f

(* Finalising sets the length aside and feeds the one bit                  *)
(* (Sha1.c:232-237).                                                       *)
LEMMA Sha1BeginsKeeps ==
  ASSUME Sha1Inv, S!FinaliseBegins
  PROVE  Sha1Inv' /\ UNCHANGED <<sha1_fed, sha1_digest>>
<1> DEFINE f == sha1_fed
           m == Message(0, f)
           d == <<One>>
           C == COUNT0 \div 8
<1>1. /\ finalcount = <<>> /\ finalcount' = <<Count1 * COUNT0 + Count0>>
      /\ sha1_digest = <<>> /\ sha1_digest' = sha1_digest
      /\ sha1_fed' = f /\ S!Feed(d)
  BY Sha1Operators DEF S!FinaliseBegins, S!SavedCount
<1>2. /\ f \in Nat
      /\ sha1_Buffer \in Buffers(BLOCK_SIZE) /\ sha1_absorbed \in Seq(Int)
      /\ Collected(f, m)
      /\ Count0 \in Nat /\ Count1 \in Nat
  BY <1>1, Sha1Constants DEF Sha1Inv
<1>3. m \in Seq(Int) /\ d \in Seq(Int) /\ Len(d) = 1
  BY <1>2, MessageGoesOn DEF One
<1> HIDE DEF m, d, f
<1>4. /\ Count0' \in 0 .. COUNT0 - 1 /\ Count1' \in 0 .. COUNT1 - 1
      /\ sha1_Buffer' \in Buffers(BLOCK_SIZE)
      /\ sha1_absorbed' \in Seq(Int)
      /\ CollectedNext(f + Len(d), Appended(m, d))
  BY <1>1, <1>2, <1>3, Sha1Feeds
<1>5. finalcount' = <<8 * (f % (C * COUNT1))>>
  <2>1. /\ COUNT0 \in Nat \ {0} /\ COUNT1 \in Nat \ {0}
        /\ C \in Nat \ {0} /\ COUNT0 = 8 * C
    BY Sha1Constants
  <2> HIDE DEF C
  <2>2. 8 * f \in Nat /\ C * COUNT1 \in Nat \ {0}
        /\ COUNT0 * COUNT1 = 8 * (C * COUNT1)
    BY <1>2, <2>1
  <2>3. COUNT0 * (((8 * f) \div COUNT0) % COUNT1) + ((8 * f) % COUNT0)
          = (8 * f) % (COUNT0 * COUNT1)
    BY <2>1, <2>2, WordsJoined
  <2>4. COUNT0 * Count1 + Count0 = (8 * f) % (8 * (C * COUNT1))
    BY <1>2, <2>2, <2>3, Zenon DEF Collected, Holds
  <2>5. (8 * f) % (8 * (C * COUNT1)) = 8 * (f % (C * COUNT1))
    <3> DEFINE k == C * COUNT1
    <3>1. k \in Nat \ {0} /\ 8 \in Nat \ {0}
      BY <2>2
    <3> HIDE DEF k
    <3>2. (8 * f) % (8 * k) = 8 * (f % k)
      BY <1>2, <3>1, ModScale
    <3> QED BY <3>2 DEF k
  <2>6. Count1 * COUNT0 = COUNT0 * Count1
    BY <1>2, <2>1
  <2> QED BY <1>1, <2>4, <2>5, <2>6, Zenon
<1>6. ZerosUpTo(BLOCK_SIZE, LENGTH_SIZE, f) \in Nat
  BY <1>2, Sha1Constants, PaddingStops
<1>7. 0 \in 0 .. ZerosUpTo(BLOCK_SIZE, LENGTH_SIZE, f) /\ f + 1 + 0 = f + 1
  BY <1>2, <1>6
<1>8. Appended(Appended(m, d), Zeros(0)) = Appended(m, d)
  <2>1. Appended(m, d) \in Seq(Int)
    BY <1>3, Joins DEF Appended
  <2>2. Zeros(0) = <<>>
    BY DEF Zeros
  <2> HIDE DEF m, d
  <2> QED BY <2>1, <2>2, Joins DEF Appended
<1>9. CollectedNext(f + 1 + 0, Appended(Appended(m, d), Zeros(0)))
  BY <1>3, <1>4, <1>7, <1>8, Zenon
<1>10. Collected(sha1_fed + 1 + 0, Sha1Text(0))'
  BY <1>1, <1>9, Zenon DEF Collected, CollectedNext, Sha1Text, m, d, f
<1>11. \E j \in 0 .. ZerosUpTo(BLOCK_SIZE, LENGTH_SIZE, sha1_fed') :
         Collected(sha1_fed + 1 + j, Sha1Text(j))'
  BY <1>1, <1>7, <1>10, Zenon
<1>12. finalcount' # <<>>
  BY <1>5
<1>13. Sha1Inv'
  BY <1>1, <1>2, <1>4, <1>5, <1>11, <1>12, Zenon DEF Sha1Inv, f, C
<1> QED BY <1>1, <1>13 DEF f

(* Where the padding has come to: the loop's condition holds when the      *)
(* zeros it has fed are as many as needed.                                 *)
LEMMA Sha1Padding ==
  ASSUME Sha1Inv, NEW j \in 0 .. ZerosUpTo(BLOCK_SIZE, LENGTH_SIZE, sha1_fed),
         Collected(sha1_fed + 1 + j, Sha1Text(j))
  PROVE  /\ j \in Nat /\ sha1_fed + 1 + j \in Nat
         /\ Sha1Text(j) \in Seq(Int)
         /\ S!Used = (sha1_fed + 1 + j) % BLOCK_SIZE
         /\ S!AtLengthField
              <=> j = ZerosUpTo(BLOCK_SIZE, LENGTH_SIZE, sha1_fed)
<1>1. sha1_fed \in Nat
  BY DEF Sha1Inv
<1>2. /\ ZerosUpTo(BLOCK_SIZE, LENGTH_SIZE, sha1_fed) \in Nat
      /\ (sha1_fed + 1 + j) % BLOCK_SIZE = BLOCK_SIZE - LENGTH_SIZE
           <=> j = ZerosUpTo(BLOCK_SIZE, LENGTH_SIZE, sha1_fed)
  BY <1>1, Sha1Constants, PaddingStops
<1>3. j \in Nat /\ sha1_fed + 1 + j \in Nat
  BY <1>1, <1>2
<1>4. S!Used = (sha1_fed + 1 + j) % BLOCK_SIZE
  BY <1>3, Sha1Used DEF Collected, Holds
<1>5. Sha1Text(j) \in Seq(Int)
  <2>1. Message(0, sha1_fed) \in Seq(Int)
    BY <1>1, MessageGoesOn
  <2>2. <<One>> \in Seq(Int)
    BY DEF One
  <2>3. Zeros(j) \in Seq(Int)
    BY <1>3, ZeroBytes
  <2> QED BY <2>1, <2>2, <2>3, Joins DEF Sha1Text, Appended
<1>6. S!AtLengthField <=> j = ZerosUpTo(BLOCK_SIZE, LENGTH_SIZE, sha1_fed)
  BY <1>2, <1>4, Zenon DEF S!AtLengthField
<1> QED BY <1>3, <1>4, <1>5, <1>6

(* A round of the padding loop feeds a zero, and no more zeros than the    *)
(* padding should have (Sha1.c:238-241).                                   *)
LEMMA Sha1PadByteKeeps ==
  ASSUME Sha1Inv, S!PadByte
  PROVE  Sha1Inv' /\ UNCHANGED <<sha1_fed, sha1_digest>>
<1> DEFINE f == sha1_fed
           z == ZerosUpTo(BLOCK_SIZE, LENGTH_SIZE, f)
           d == <<Zero>>
<1>1. /\ finalcount # <<>> /\ finalcount' = finalcount
      /\ ~ S!AtLengthField
      /\ sha1_digest' = sha1_digest /\ sha1_fed' = f /\ S!Feed(d)
  BY Sha1Operators DEF S!PadByte
<1>2. /\ f \in Nat /\ sha1_digest = <<>>
      /\ sha1_Buffer \in Buffers(BLOCK_SIZE) /\ sha1_absorbed \in Seq(Int)
      /\ finalcount = <<8 * (sha1_fed % ((COUNT0 \div 8) * COUNT1))>>
  BY <1>1, Sha1Constants DEF Sha1Inv
<1>3. PICK j \in 0 .. z : Collected(f + 1 + j, Sha1Text(j))
  BY <1>1 DEF Sha1Inv
<1>4. /\ j \in Nat /\ f + 1 + j \in Nat /\ Sha1Text(j) \in Seq(Int)
      /\ j # z
  BY <1>1, <1>3, Sha1Padding
<1>5. d \in Seq(Int) /\ Len(d) = 1
  BY DEF Zero
<1> HIDE DEF d, f, z
<1>6. /\ Count0' \in 0 .. COUNT0 - 1 /\ Count1' \in 0 .. COUNT1 - 1
      /\ sha1_Buffer' \in Buffers(BLOCK_SIZE)
      /\ sha1_absorbed' \in Seq(Int)
      /\ CollectedNext(f + 1 + j + Len(d), Appended(Sha1Text(j), d))
  <2> DEFINE t == f + 1 + j
             x == Sha1Text(j)
  <2>1. t \in Nat /\ x \in Seq(Int) /\ Collected(t, x)
    BY <1>3, <1>4
  <2> HIDE DEF t, x
  <2>2. /\ Count0' \in 0 .. COUNT0 - 1 /\ Count1' \in 0 .. COUNT1 - 1
        /\ sha1_Buffer' \in Buffers(BLOCK_SIZE)
        /\ sha1_absorbed' \in Seq(Int)
        /\ CollectedNext(t + Len(d), Appended(x, d))
    BY <1>1, <1>2, <1>5, <2>1, Sha1Feeds
  <2> QED BY <2>2 DEF t, x
<1>7. f + 1 + (j + 1) = f + 1 + j + 1 /\ j + 1 \in 0 .. z
  <2>1. z \in Nat
    BY <1>2, Sha1Constants, PaddingStops DEF z
  <2> QED BY <1>2, <1>3, <1>4, <2>1
<1>8. Appended(Sha1Text(j), d) = Sha1Text(j + 1)
  <2> DEFINE x == Appended(Message(0, f), <<One>>)
             o == Zeros(j)
             w == Zeros(j + 1)
  <2>1. x \in Seq(Int)
    <3>1. Message(0, f) \in Seq(Int)
      BY <1>2, MessageGoesOn
    <3>2. <<One>> \in Seq(Int)
      BY DEF One
    <3> QED BY <3>1, <3>2, Joins DEF Appended
  <2>2. o \in Seq(Int)
    BY <1>4, ZeroBytes
  <2>3. Zeros(1) = d
    BY DEF Zeros, d
  <2>4. Zeros(j) \o Zeros(1) = Zeros(j + 1)
    <3>1. 1 \in Nat
      OBVIOUS
    <3> QED BY <1>4, <3>1, ZerosJoin
  <2>5. Sha1Text(j) = x \o o /\ Sha1Text(j + 1) = x \o w
    BY Zenon DEF Sha1Text, Appended, f
  <2>6. o \o d = w
    BY <2>3, <2>4, Zenon
  <2> HIDE DEF x, o, w
  <2>7. (x \o o) \o d = x \o (o \o d)
    BY <1>5, <2>1, <2>2, Regroup
  <2> QED BY <2>5, <2>6, <2>7, Zenon DEF Appended
<1>9. Collected(f + 1 + (j + 1), Sha1Text(j + 1))'
  <2>1. Sha1Text(j)' = Sha1Text(j) /\ Sha1Text(j + 1)' = Sha1Text(j + 1)
        /\ f' = f
    BY <1>1, Zenon DEF f, Sha1Text
  <2> QED BY <1>5, <1>6, <1>7, <1>8, <2>1, Zenon
          DEF Collected, CollectedNext, d
<1>10. \E k \in 0 .. ZerosUpTo(BLOCK_SIZE, LENGTH_SIZE, sha1_fed') :
         Collected(sha1_fed + 1 + k, Sha1Text(k))'
  BY <1>1, <1>7, <1>9, Zenon DEF z, f
<1>11. Sha1Inv'
  BY <1>1, <1>2, <1>6, <1>10, Zenon DEF Sha1Inv, f
<1> QED BY <1>1, <1>11 DEF f

(* The length that is fed ends a block, and the padding is complete        *)
(* (Sha1.c:243).                                                           *)
LEMMA Sha1EndsKeeps ==
  ASSUME Sha1Inv, S!FinaliseEnds
  PROVE  Sha1Inv' /\ S!Hash!Finalise
<1> DEFINE f == sha1_fed
           z == ZerosUpTo(BLOCK_SIZE, LENGTH_SIZE, f)
           L == LENGTH_SIZE
           d == [k \in 1 .. L |-> S!LengthByte]
           x == Sha1Text(z)
           t == f + 1 + z
<1>1. /\ finalcount # <<>> /\ finalcount' = <<>>
      /\ S!AtLengthField /\ sha1_fed' = f /\ S!Feed(d)
      /\ sha1_digest'
           = <<[text |-> SubSeq(sha1_absorbed', 1, Len(sha1_absorbed') - L),
                bits |-> finalcount[1]]>>
  BY DEF S!FinaliseEnds
<1>2. /\ f \in Nat /\ sha1_digest = <<>>
      /\ sha1_Buffer \in Buffers(BLOCK_SIZE) /\ sha1_absorbed \in Seq(Int)
      /\ finalcount[1] = 8 * (f % ((COUNT0 \div 8) * COUNT1))
  BY <1>1, Sha1Constants DEF Sha1Inv
<1>3. PICK j \in 0 .. z : Collected(f + 1 + j, Sha1Text(j))
  BY <1>1 DEF Sha1Inv
<1>4. /\ j \in Nat /\ f + 1 + j \in Nat /\ Sha1Text(j) \in Seq(Int)
      /\ j = z /\ S!Used = (f + 1 + j) % BLOCK_SIZE
  BY <1>1, <1>3, Sha1Padding
<1>5. /\ L \in Nat \ {0} /\ d \in Seq(Int) /\ Len(d) = L
      /\ d[L] = S!LengthByte
  BY Sha1Constants DEF S!LengthByte
<1>6. t \in Nat /\ x \in Seq(Int) /\ Collected(t, x) /\ S!Used = t % BLOCK_SIZE
  BY <1>3, <1>4, Zenon
<1> HIDE DEF t, x, d, f
<1>8. /\ Count0' \in 0 .. COUNT0 - 1 /\ Count1' \in 0 .. COUNT1 - 1
      /\ sha1_Buffer' \in Buffers(BLOCK_SIZE)
      /\ sha1_absorbed' \in Seq(Int)
      /\ CollectedNext(t + Len(d), Appended(x, d))
  BY <1>1, <1>2, <1>5, <1>6, Sha1Feeds
<1>9. (t + L) % BLOCK_SIZE = 0
  <2>1. t % BLOCK_SIZE = BLOCK_SIZE - L
    BY <1>1, <1>6, Zenon DEF S!AtLengthField
  <2>2. /\ BLOCK_SIZE \in Nat \ {0} /\ L \in Nat
        /\ (BLOCK_SIZE - L) + L = BLOCK_SIZE
    BY Sha1Constants
  <2>3. ((t % BLOCK_SIZE) + L) % BLOCK_SIZE = (t + L) % BLOCK_SIZE
    BY <1>6, <2>2, ModSums, Zenon
  <2>4. BLOCK_SIZE % BLOCK_SIZE = 0
    BY <2>2, SelfMod
  <2> QED BY <2>1, <2>2, <2>3, <2>4, Zenon
<1>10. sha1_absorbed' = x \o d
  <2>1. Contents(sha1_absorbed', sha1_Buffer', (t + Len(d)) % BLOCK_SIZE)
          = Appended(x, d)
    BY <1>8, Zenon DEF CollectedNext, Holds
  <2>2. Contents(sha1_absorbed', sha1_Buffer', 0) = sha1_absorbed'
    BY <1>8, AllHashed
  <2> QED BY <1>5, <1>9, <2>1, <2>2, Zenon DEF Appended
<1>11. /\ Len(sha1_absorbed') = Len(x) + L
       /\ sha1_absorbed'[Len(sha1_absorbed')] = S!LengthByte
       /\ SubSeq(sha1_absorbed', 1, Len(sha1_absorbed') - L) = x
  <2> DEFINE y == x \o d
  <2>1. /\ y \in Seq(Int) /\ Len(y) = Len(x) + L
        /\ \A k \in 1 .. Len(x) + L :
             y[k] = IF k <= Len(x) THEN x[k] ELSE d[k - Len(x)]
    <3>1. /\ y \in Seq(Int) /\ Len(y) = Len(x) + Len(d)
          /\ \A k \in 1 .. Len(x) + Len(d) :
               y[k] = IF k <= Len(x) THEN x[k] ELSE d[k - Len(x)]
      BY <1>5, <1>6, ConcatProperties
    <3> QED BY <1>5, <3>1, Zenon
  <2> HIDE DEF y
  <2>2. Len(x) \in Nat /\ \A k \in 1 .. Len(x) : x[k] \in Int
    BY <1>6
  <2>3. y[Len(y)] = S!LengthByte
    <3>1. Len(x) + L \in 1 .. Len(x) + L /\ ~ (Len(x) + L <= Len(x))
          /\ (Len(x) + L) - Len(x) = L
      BY <1>5, <2>2
    <3>2. y[Len(x) + L] = d[(Len(x) + L) - Len(x)]
      BY <2>1, <3>1
    <3> QED BY <1>5, <2>1, <3>1, <3>2, Zenon
  <2>4. SubSeq(y, 1, Len(y) - L) = x
    <3>1. Len(y) - L = Len(x)
      BY <1>5, <2>1, <2>2
    <3> DEFINE w == SubSeq(y, 1, Len(x))
    <3>2. /\ w \in Seq(Int) /\ Len(w) = Len(x)
          /\ \A k \in 1 .. Len(x) : w[k] = y[k]
      BY <1>5, <2>1, <2>2
    <3> HIDE DEF w
    <3>3. \A k \in 1 .. Len(x) : w[k] = x[k]
      <4> TAKE k \in 1 .. Len(x)
      <4>1. k \in 1 .. Len(x) + L /\ k <= Len(x)
        BY <1>5, <2>2
      <4> QED BY <2>1, <3>2, <4>1
    <3>4. w = x
      BY <1>6, <3>2, <3>3, SeqEqual
    <3> QED BY <3>1, <3>4, Zenon DEF w
  <2> QED BY <1>10, <2>1, <2>3, <2>4, Zenon DEF y
<1>12. x = PaddedText(BLOCK_SIZE, L, L, f)
  <2>1. z + (L - L) = z
    <3>1. z \in Nat
      BY <1>4
    <3> QED BY <1>5, <3>1
  <2>2. x = Message(0, f) \o <<One>> \o Zeros(z)
    BY Zenon DEF x, Sha1Text, Appended, f
  <2> QED BY <2>1, <2>2, Zenon DEF PaddedText, ZerosUpTo
<1>13. sha1_digest' = <<S!Hash!Padded(f)>>
  BY <1>1, <1>2, <1>11, <1>12, Sha1Operators
<1>14. S!Used' = 0
  <2>1. t + L \in Nat /\ Count0' = (8 * (t + L)) % COUNT0
    BY <1>5, <1>6, <1>8 DEF CollectedNext, Holds
  <2> QED BY <1>9, <2>1, Sha1UsedNext
<1>15. S!LengthIsHashed'
  BY <1>11, <1>14, Zenon DEF S!LengthIsHashed
<1>16. sha1_digest' # <<>>
  BY <1>13
<1>17. S!Hash!Finalise
  BY <1>1, <1>2, <1>13 DEF S!Hash!Finalise, f
<1>18. Sha1Inv'
  <2>1. S!Hash!Padded(f)' = S!Hash!Padded(f)
    BY <1>1, Zenon DEF f
  <2> QED BY <1>1, <1>2, <1>8, <1>13, <1>15, <1>16, <2>1 DEF Sha1Inv, f
<1> QED BY <1>17, <1>18

-----------------------------------------------------------------------------
(* What the invariants say of each byte, and of each step.                 *)

(* Which bytes are hashed and which are in the buffer, one by one.         *)
LEMMA ByteByByte ==
  ASSUME NEW size \in Nat, NEW b \in Buffers(size), NEW used \in 0 .. size,
         NEW hashed \in Seq(Int), NEW f \in Nat,
         Contents(hashed, b, used) = Message(0, f)
  PROVE  /\ Len(hashed) = f - used
         /\ hashed = Message(0, f - used)
         /\ \A k \in 0 .. used - 1 : b[k] = f - used + k
<1> DEFINE s == Bytes(b, used)
           t == Message(0, f)
<1>1. s \in Seq(Int) /\ Len(s) = used
  BY BufferBytes
<1>2. t \in Seq(Int) /\ Len(t) = f
  BY FromStart
<1>3. hashed \o s = t
  BY DEF Contents
<1> HIDE DEF s, t
<1>4. Len(hashed \o s) = Len(hashed) + Len(s)
  BY <1>1, ConcatProperties
<1>5. Len(hashed) = f - used
  BY <1>1, <1>2, <1>3, <1>4
<1>6. hashed \o Bytes(b, used) = Message(0, f)
  BY DEF Contents
<1>7. /\ hashed = Message(0, f - used)
      /\ \A k \in 0 .. used - 1 : b[k] = f - used + k
  BY <1>5, <1>6, InItsPlace
<1> QED BY <1>5, <1>7

(* A context gives out at most one digest.                                 *)
LEMMA AtMostOne == \A x : Len(<<>>) <= 1 /\ Len(<<x>>) <= 1
OBVIOUS

(* What the run checks of SHA-2 follows from its invariant.                *)
LEMMA Sha2Places == Sha2Inv => H!TypeOK /\ H!NothingLost
<1> SUFFICES ASSUME Sha2Inv PROVE H!TypeOK /\ H!NothingLost OBVIOUS
<1> DEFINE B == SHA2_BLOCK_SIZE
           f == sha2_fed - todo
<1>1. /\ B \in Nat /\ buf \in Buffers(B) /\ curlen \in 0 .. B - 1
      /\ length \in Nat /\ todo \in Nat /\ sha2_fed \in Nat
      /\ sha2_absorbed \in Seq(Int)
  BY Sha2Constants DEF Sha2Inv
<1>2. sha2_digest = <<>> \/ sha2_digest = <<H!Hash!Padded(sha2_fed)>>
  BY DEF Sha2Inv
<1>3. Len(sha2_digest) <= 1
  BY <1>2, AtMostOne, Zenon
<1>4. H!TypeOK
  BY <1>1, <1>3 DEF H!TypeOK, Buffers
<1>5. ASSUME sha2_digest = <<>>
      PROVE  /\ sha2_absorbed = Message(0, f - curlen)
             /\ \A k \in 0 .. curlen - 1 : buf[k] = f - curlen + k
             /\ length = (8 * Len(sha2_absorbed)) % (8 * LengthModulus)
  <2>1. /\ f \in Nat /\ Contents(sha2_absorbed, buf, curlen) = Message(0, f)
        /\ length = (8 * (f - curlen)) % (8 * LengthModulus)
    BY <1>1, <1>5 DEF Sha2Inv
  <2> HIDE DEF f
  <2>2. curlen \in 0 .. B
    BY <1>1
  <2>3. /\ Len(sha2_absorbed) = f - curlen
        /\ sha2_absorbed = Message(0, f - curlen)
        /\ \A k \in 0 .. curlen - 1 : buf[k] = f - curlen + k
    BY <1>1, <2>1, <2>2, ByteByByte
  <2> QED BY <2>1, <2>3, Zenon
<1>6. H!NothingLost
  BY <1>5, Sha2Operators, Zenon DEF H!NothingLost
<1> QED BY <1>4, <1>6

(* And of MD5.                                                             *)
LEMMA Md5Places == Md5Inv => M!TypeOK /\ M!NothingLost /\ M!LengthCounted
<1> SUFFICES ASSUME Md5Inv
             PROVE  M!TypeOK /\ M!NothingLost /\ M!LengthCounted
  OBVIOUS
<1> DEFINE B == BLOCK_SIZE
           f == md5_fed
           u == M!Used
<1>1. /\ B \in Nat /\ md5_buffer \in Buffers(B) /\ f \in Nat
      /\ lo \in 0 .. 8 * (LO - 1) /\ hi \in 0 .. HI - 1
      /\ md5_absorbed \in Seq(Int)
      /\ LO \in Nat \ {0} /\ HI \in Nat \ {0}
  BY Md5Constants DEF Md5Inv
<1>2. md5_digest = <<>> \/ md5_digest = <<M!Hash!Padded(md5_fed)>>
  BY DEF Md5Inv
<1>3. Len(md5_digest) <= 1
  BY <1>2, AtMostOne, Zenon
<1>4. ASSUME md5_digest = <<>> PROVE lo = f % LO /\ lo < LO
  <2>1. lo = f % LO
    BY <1>4 DEF Md5Inv
  <2>2. f % LO \in 0 .. LO - 1
    BY <1>1, DivMod
  <2> QED BY <1>1, <2>1, <2>2
<1>5. M!TypeOK
  BY <1>1, <1>3, <1>4 DEF M!TypeOK, Buffers
<1>6. ASSUME md5_digest = <<>>
      PROVE  /\ md5_absorbed = Message(0, f - u)
             /\ \A k \in 0 .. u - 1 : md5_buffer[k] = f - u + k
  <2>1. u = f % B /\ u \in 0 .. B - 1
    BY <1>6, Md5Used
  <2> HIDE DEF u
  <2>2. u \in 0 .. B /\ Contents(md5_absorbed, md5_buffer, u) = Message(0, f)
    BY <1>1, <1>6, <2>1 DEF Md5Inv
  <2> QED BY <1>1, <2>2, ByteByByte
<1>7. M!NothingLost
  BY <1>6, Md5Operators, Zenon DEF M!NothingLost
<1>8. M!LengthCounted
  <2>1. LO * ((f \div LO) % HI) + (f % LO) = f % (LO * HI)
    BY <1>1, WordsJoined
  <2>2. md5_digest = <<>> => lo = f % LO /\ hi = (f \div LO) % HI
    BY DEF Md5Inv
  <2> QED BY <2>1, <2>2, Zenon DEF M!LengthCounted
<1> QED BY <1>5, <1>7, <1>8

(* And of SHA-1.                                                           *)
LEMMA Sha1Places == Sha1Inv => S!TypeOK /\ S!NothingLost /\ S!LengthIsHashed
<1> SUFFICES ASSUME Sha1Inv
             PROVE  S!TypeOK /\ S!NothingLost /\ S!LengthIsHashed
  OBVIOUS
<1> DEFINE B == BLOCK_SIZE
           f == sha1_fed
           u == S!Used
<1>1. /\ B \in Nat /\ sha1_Buffer \in Buffers(B) /\ f \in Nat
      /\ Count0 \in 0 .. COUNT0 - 1 /\ Count1 \in 0 .. COUNT1 - 1
      /\ sha1_absorbed \in Seq(Int)
      /\ COUNT0 \in Nat \ {0} /\ COUNT1 \in Nat \ {0}
  BY Sha1Constants DEF Sha1Inv
<1>2. /\ sha1_digest = <<>> \/ sha1_digest = <<S!Hash!Padded(sha1_fed)>>
      /\ \/ finalcount = <<>>
         \/ finalcount = <<8 * (sha1_fed % ((COUNT0 \div 8) * COUNT1))>>
  BY Zenon DEF Sha1Inv
<1>3. Len(sha1_digest) <= 1 /\ Len(finalcount) <= 1
  BY <1>2, AtMostOne, Zenon
<1>4. S!TypeOK
  BY <1>1, <1>3 DEF S!TypeOK, Buffers
<1>5. ASSUME finalcount = <<>>, sha1_digest = <<>>
      PROVE  /\ sha1_absorbed = Message(0, f - u)
             /\ \A k \in 0 .. u - 1 : sha1_Buffer[k] = f - u + k
             /\ Count1 * COUNT0 + Count0 = (8 * f) % (COUNT0 * COUNT1)
  <2>1. /\ Count0 = (8 * f) % COUNT0
        /\ Count1 = ((8 * f) \div COUNT0) % COUNT1
        /\ Contents(sha1_absorbed, sha1_Buffer, f % B) = Message(0, f)
    BY <1>5 DEF Sha1Inv, Collected, Holds
  <2>2. u = f % B /\ u \in 0 .. B - 1
    BY <1>1, <2>1, Sha1Used
  <2> HIDE DEF u
  <2>3. u \in 0 .. B /\ Contents(sha1_absorbed, sha1_Buffer, u) = Message(0, f)
    BY <1>1, <2>1, <2>2
  <2>4. /\ sha1_absorbed = Message(0, f - u)
        /\ \A k \in 0 .. u - 1 : sha1_Buffer[k] = f - u + k
    BY <1>1, <2>3, ByteByByte
  <2>5. COUNT0 * (((8 * f) \div COUNT0) % COUNT1) + ((8 * f) % COUNT0)
          = (8 * f) % (COUNT0 * COUNT1)
    <3>1. 8 * f \in Nat
      BY <1>1
    <3> QED BY <1>1, <3>1, WordsJoined
  <2>6. COUNT0 * Count1 = Count1 * COUNT0
    BY <1>1
  <2> QED BY <2>1, <2>4, <2>5, <2>6, Zenon
<1>6. S!NothingLost
  BY <1>5, Sha1Operators, Zenon DEF S!NothingLost
<1>7. S!LengthIsHashed
  BY Zenon DEF Sha1Inv, S!LengthIsHashed
<1> QED BY <1>4, <1>6, <1>7

(* Each step of SHA-2 keeps its invariant and is one of the hash it        *)
(* promises to be, or none.                                                *)
LEMMA Sha2Step ==
  ASSUME Sha2Inv, [H!Next]_(H!vars)
  PROVE  Sha2Inv' /\ [H!Hash!Next]_(H!Hash!vars)
<1>1. CASE H!Sha2Initialise
  BY <1>1, Sha2InitialiseKeeps DEF H!Hash!Next
<1>2. ASSUME NEW n \in Pieces, H!Sha2Update(n)
      PROVE  Sha2Inv' /\ H!Hash!Next
  BY <1>2, Sha2UpdateKeeps DEF H!Hash!Next
<1>3. CASE H!TakeBlock
  BY <1>3, Sha2TakeBlockKeeps DEF H!Hash!vars
<1>4. CASE H!TakeBytes
  BY <1>4, Sha2TakeBytesKeeps DEF H!Hash!vars
<1>5. CASE H!Sha2Finalise
  BY <1>5, Sha2FinaliseKeeps DEF H!Hash!Next
<1>6. CASE UNCHANGED H!vars
  BY <1>6 DEF H!vars, H!Hash!vars, Sha2Inv
<1> QED BY <1>1, <1>2, <1>3, <1>4, <1>5, <1>6 DEF H!Next

(* The same of MD5.                                                        *)
LEMMA Md5Step ==
  ASSUME Md5Inv, [M!Next]_(M!vars)
  PROVE  Md5Inv' /\ [M!Hash!Next]_(M!Hash!vars)
<1>1. CASE M!Md5Initialise
  BY <1>1, Md5InitialiseKeeps DEF M!Hash!Next
<1>2. ASSUME NEW n \in Pieces, M!Md5Update(n)
      PROVE  Md5Inv' /\ M!Hash!Next
  BY <1>2, Md5UpdateKeeps DEF M!Hash!Next
<1>3. CASE M!Md5Finalise
  BY <1>3, Md5FinaliseKeeps DEF M!Hash!Next
<1>4. CASE UNCHANGED M!vars
  BY <1>4 DEF M!vars, M!Hash!vars, Md5Inv
<1> QED BY <1>1, <1>2, <1>3, <1>4 DEF M!Next

(* The same of SHA-1.                                                      *)
LEMMA Sha1Step ==
  ASSUME Sha1Inv, [S!Next]_(S!vars)
  PROVE  Sha1Inv' /\ [S!Hash!Next]_(S!Hash!vars)
<1>1. CASE S!Sha1Initialise
  BY <1>1, Sha1InitialiseKeeps DEF S!Hash!Next
<1>2. ASSUME NEW n \in Pieces, S!Sha1Update(n)
      PROVE  Sha1Inv' /\ S!Hash!Next
  BY <1>2, Sha1UpdateKeeps DEF S!Hash!Next
<1>3. CASE S!FinaliseBegins
  BY <1>3, Sha1BeginsKeeps DEF S!Hash!vars
<1>4. CASE S!PadByte
  BY <1>4, Sha1PadByteKeeps DEF S!Hash!vars
<1>5. CASE S!FinaliseEnds
  BY <1>5, Sha1EndsKeeps DEF S!Hash!Next
<1>6. CASE UNCHANGED S!vars
  BY <1>6 DEF S!vars, S!Hash!vars, Sha1Inv, Collected, Sha1Text,
              S!LengthIsHashed, S!Used
<1> QED BY <1>1, <1>2, <1>3, <1>4, <1>5, <1>6 DEF S!Next

-----------------------------------------------------------------------------
(* Cipher block chaining is the same chain and is undone by its inverse    *)
(* however messages are cut into calls, in place or not, for every block   *)
(* cipher and block size.                                                  *)

USE DEF Context, Place

Out == buffer[OutBuffer]
In == buffer[InBuffer]

(* Both buffers of a call are as long as its data.                         *)
SameLength == Len(buffer["out"]) = Len(buffer["in"])

(* The sender has chained the first i blocks of the call to those on the   *)
(* wire, and the others are still in InBuffer.                             *)
Encrypting ==
  op = "encrypt" =>
    /\ Len(sent) = Len(wire) + Len(In)
    /\ accepted = (Len(wire) + Len(In)) * AES_BLOCK_SIZE
    /\ \A j \in i + 1 .. Len(In) : In[j] = sent[Len(wire) + j]
    /\ \A j \in 1 .. i :
         Out[j] = AesEncrypt(XorAesBlock(
                    IF j = 1 THEN Before(Len(wire) + 1) ELSE Out[j - 1],
                    sent[Len(wire) + j]))
    /\ PreviousCipherBlock["sender"] =
         IF i = 0 THEN Before(Len(wire) + 1) ELSE Out[i]

(* The receiver has recovered the first i blocks of the call.              *)
Decrypting ==
  op = "decrypt" =>
    /\ Len(recovered) + Len(In) <= Len(wire)
    /\ \A j \in i + 1 .. Len(In) : In[j] = wire[Len(recovered) + j]
    /\ \A j \in 1 .. i : Out[j] = sent[Len(recovered) + j]
    /\ PreviousCipherBlock["receiver"] = Before(Len(recovered) + i + 1)

(* A context that is in no call is chained to all it has dealt with.       *)
Waiting ==
  /\ op # "encrypt" =>
       /\ Len(sent) = Len(wire)
       /\ PreviousCipherBlock["sender"] = Before(Len(wire) + 1)
  /\ op # "decrypt" =>
       PreviousCipherBlock["receiver"] = Before(Len(recovered) + 1)
  /\ Len(recovered) <= Len(wire)

IInv ==
  /\ TypeOK /\ SameLength
  /\ Encrypting /\ Decrypting /\ Waiting
  /\ WireIsChain /\ RecoveredIsSent /\ AcceptedIsPutOut

-----------------------------------------------------------------------------
(* Decryption undoes the encryption of a block and its chaining.           *)
LEMMA BlockUndone ==
  ASSUME NEW a \in Blocks, NEW p \in Blocks
  PROVE  /\ AesEncrypt(XorAesBlock(p, a)) \in Blocks
         /\ XorAesBlock(AesDecrypt(AesEncrypt(XorAesBlock(p, a))), p) = a
<1>1. XorAesBlock(p, a) \in Blocks /\ XorAesBlock(p, a) = XorAesBlock(a, p)
      /\ XorAesBlock(XorAesBlock(a, p), p) = a
  BY CipherAssumption
<1>2. AesDecrypt(AesEncrypt(XorAesBlock(p, a))) = XorAesBlock(p, a)
      /\ AesEncrypt(XorAesBlock(p, a)) \in Blocks
  BY <1>1, CipherAssumption
<1> QED BY <1>1, <1>2

(* A block written to OutBuffer leaves every other block of it, and the    *)
(* blocks of InBuffer still to come.                                       *)
LEMMA OutputStep ==
  ASSUME TypeOK, SameLength, More, NEW block \in Blocks, Output(block)
  PROVE  /\ buffer' \in [{"in", "out"} -> Seq(Blocks)]
         /\ i' = i + 1 /\ i' \in 1 .. Len(In)
         /\ Len(In') = Len(In) /\ Len(Out) = Len(In) /\ SameLength'
         /\ Out'[i + 1] = block
         /\ \A j \in 1 .. i : Out'[j] = Out[j]
         /\ \A j \in i + 2 .. Len(In) : In'[j] = In[j]
<1>1. /\ buffer["in"] \in Seq(Blocks) /\ buffer["out"] \in Seq(Blocks)
      /\ i \in Nat /\ i + 1 \in 1 .. Len(buffer["in"])
      /\ Len(buffer["out"]) = Len(buffer["in"])
      /\ inPlace \in BOOLEAN
  BY DEF TypeOK, More, InBuffer, SameLength
<1>2. i' = i + 1 /\ inPlace' = inPlace
      /\ buffer' = [buffer EXCEPT ![OutBuffer][i + 1] = block]
  BY DEF Output
<1>3. ASSUME NEW s \in Seq(Blocks), i + 1 \in 1 .. Len(s)
      PROVE  LET t == [s EXCEPT ![i + 1] = block]
             IN  /\ t \in Seq(Blocks) /\ Len(t) = Len(s)
                 /\ t[i + 1] = block
                 /\ \A j \in 1 .. Len(s) : j # i + 1 => t[j] = s[j]
  BY <1>1, <1>3
<1>4. CASE inPlace
  <2>1. OutBuffer = "in" /\ OutBuffer' = "in"
    BY <1>2, <1>4 DEF OutBuffer
  <2>2. /\ buffer'["in"] = [buffer["in"] EXCEPT ![i + 1] = block]
        /\ buffer'["out"] = buffer["out"]
        /\ DOMAIN buffer' = {"in", "out"}
        /\ buffer' = [x \in {"in", "out"} |-> buffer'[x]]
    BY <1>2, <2>1 DEF TypeOK
  <2>3. /\ buffer'["in"] \in Seq(Blocks)
        /\ Len(buffer'["in"]) = Len(buffer["in"])
        /\ buffer'["in"][i + 1] = block
        /\ \A j \in 1 .. Len(buffer["in"]) :
             j # i + 1 => buffer'["in"][j] = buffer["in"][j]
    BY <1>1, <1>3, <2>2
  <2>4. buffer' \in [{"in", "out"} -> Seq(Blocks)]
    BY <1>1, <2>2, <2>3
  <2>5. /\ Out = buffer["in"] /\ Out' = buffer'["in"]
        /\ In = buffer["in"] /\ In' = buffer'["in"]
    BY <2>1 DEF In, Out, InBuffer
  <2>6. SameLength' /\ Len(In') = Len(In) /\ Len(Out) = Len(In)
    BY <1>1, <2>2, <2>3, <2>5 DEF SameLength
  <2>7. /\ Out'[i + 1] = block
        /\ \A j \in 1 .. i : Out'[j] = Out[j]
        /\ \A j \in i + 2 .. Len(In) : In'[j] = In[j]
    BY <1>1, <2>2, <2>3, <2>5
  <2>8. i' = i + 1 /\ i' \in 1 .. Len(In)
    BY <1>1, <1>2, <2>5
  <2> QED BY <2>4, <2>6, <2>7, <2>8
<1>5. CASE ~ inPlace
  <2>1. OutBuffer = "out" /\ OutBuffer' = "out"
    BY <1>2, <1>5 DEF OutBuffer
  <2>2. /\ buffer'["out"] = [buffer["out"] EXCEPT ![i + 1] = block]
        /\ buffer'["in"] = buffer["in"]
        /\ DOMAIN buffer' = {"in", "out"}
        /\ buffer' = [x \in {"in", "out"} |-> buffer'[x]]
    BY <1>2, <2>1 DEF TypeOK
  <2>3. /\ buffer'["out"] \in Seq(Blocks)
        /\ Len(buffer'["out"]) = Len(buffer["out"])
        /\ buffer'["out"][i + 1] = block
        /\ \A j \in 1 .. Len(buffer["out"]) :
             j # i + 1 => buffer'["out"][j] = buffer["out"][j]
    BY <1>1, <1>3, <2>2
  <2>4. buffer' \in [{"in", "out"} -> Seq(Blocks)]
    BY <1>1, <2>2, <2>3
  <2>5. /\ Out = buffer["out"] /\ Out' = buffer'["out"]
        /\ In = buffer["in"] /\ In' = buffer'["in"]
    BY <2>1 DEF In, Out, InBuffer
  <2>6. SameLength' /\ Len(In') = Len(In) /\ Len(Out) = Len(In)
    BY <1>1, <2>2, <2>3, <2>5 DEF SameLength
  <2>7. /\ Out'[i + 1] = block
        /\ \A j \in 1 .. i : Out'[j] = Out[j]
        /\ \A j \in i + 2 .. Len(In) : In'[j] = In[j]
    BY <1>1, <2>2, <2>3, <2>5
  <2>8. i' = i + 1 /\ i' \in 1 .. Len(In)
    BY <1>1, <1>2, <2>5
  <2> QED BY <2>4, <2>6, <2>7, <2>8
<1> QED BY <1>4, <1>5

(* Facts about the state in general, for the steps below.                  *)
LEMMA Facts ==
  ASSUME IInv
  PROVE  /\ IV \in Blocks
         /\ sent \in Seq(Blocks) /\ wire \in Seq(Blocks)
         /\ recovered \in Seq(Blocks)
         /\ Len(sent) \in Nat /\ Len(wire) \in Nat /\ Len(recovered) \in Nat
         /\ Len(recovered) <= Len(wire) /\ Len(wire) <= Len(sent)
         /\ \A k \in 1 .. Len(sent) : sent[k] \in Blocks
         /\ \A k \in 1 .. Len(wire) : wire[k] \in Blocks
         /\ \A k \in 1 .. Len(wire) + 1 : Before(k) \in Blocks
<1>1. /\ IV \in Blocks /\ sent \in Seq(Messages)
      /\ wire \in Seq(Blocks) /\ recovered \in Seq(Blocks)
  BY BlockAssumption, CbcAssumption DEF IInv, TypeOK
<1>2. sent \in Seq(Blocks)
  BY <1>1, BlockAssumption, CbcAssumption
<1>3. Len(recovered) <= Len(wire)
  BY DEF IInv, Waiting
<1>4. Len(wire) <= Len(sent)
  <2>1. CASE op = "encrypt"
    <3>1. Len(sent) = Len(wire) + Len(In) /\ Len(In) \in Nat
      BY <2>1 DEF IInv, Encrypting, TypeOK, In, InBuffer
    <3> QED BY <1>1, <3>1
  <2>2. CASE op # "encrypt"
    BY <1>1, <2>2 DEF IInv, Waiting
  <2> QED BY <2>1, <2>2
<1>5. \A k \in 1 .. Len(wire) + 1 : Before(k) \in Blocks
  BY <1>1 DEF Before
<1> QED BY <1>1, <1>2, <1>3, <1>4, <1>5

LEMMA Initially == Init => IInv
<1> SUFFICES ASSUME Init PROVE IInv
  OBVIOUS
<1> USE DEF Init
<1>1. IV \in Blocks
  BY BlockAssumption, CbcAssumption
<1>2. TypeOK
  <2>1. <<>> \in Seq(Blocks) /\ <<>> \in Seq(Messages) /\ Len(<<>>) = 0
    OBVIOUS
  <2>2. /\ PreviousCipherBlock \in [Context -> Blocks]
        /\ buffer \in [Place -> Seq(Blocks)] /\ buffer[InBuffer] = <<>>
    BY <1>1, <2>1 DEF InBuffer
  <2>3. i \in 0 .. Len(buffer[InBuffer])
    BY <2>1, <2>2
  <2> QED BY <2>1, <2>2, <2>3 DEF TypeOK
<1>3. SameLength /\ Encrypting /\ Decrypting /\ WireIsChain
      /\ RecoveredIsSent
  BY DEF SameLength, Encrypting, Decrypting, WireIsChain, RecoveredIsSent
<1>4. Waiting
  BY DEF Waiting, Before
<1>5. AcceptedIsPutOut
  BY BlockAssumption, CbcAssumption DEF AcceptedIsPutOut
<1> QED BY <1>2, <1>3, <1>4, <1>5 DEF IInv

LEMMA InitialiseKeeps ==
  ASSUME IInv, NEW iv \in IVs, AesCbcInitialise(iv)
  PROVE  IInv'
<1> USE DEF AesCbcInitialise
<1>1. iv \in Blocks /\ AES_BLOCK_SIZE \in Nat
  BY BlockAssumption, CbcAssumption
<1>2. TypeOK'
  BY <1>1 DEF IInv, TypeOK, InBuffer
<1>3. SameLength' /\ Encrypting' /\ Decrypting' /\ WireIsChain'
      /\ RecoveredIsSent'
  BY DEF IInv, SameLength, Encrypting, Decrypting, WireIsChain,
         RecoveredIsSent
<1>4. Waiting'
  BY DEF Waiting, Before
<1>5. AcceptedIsPutOut'
  BY <1>1 DEF AcceptedIsPutOut
<1> QED BY <1>2, <1>3, <1>4, <1>5 DEF IInv

LEMMA RewindKeeps ==
  ASSUME IInv, Rewind
  PROVE  IInv'
<1> USE DEF Rewind
<1>1. IV \in Blocks
  BY Facts
<1>2. TypeOK'
  BY <1>1 DEF IInv, TypeOK, InBuffer
<1>3. SameLength' /\ Encrypting' /\ Decrypting' /\ WireIsChain'
      /\ RecoveredIsSent'
  BY Facts DEF IInv, SameLength, Encrypting, Decrypting, WireIsChain,
               RecoveredIsSent, Before
<1>4. Waiting'
  BY Facts DEF IInv, TypeOK, Waiting, Before
<1>5. AcceptedIsPutOut'
  BY DEF IInv, AcceptedIsPutOut
<1> QED BY <1>2, <1>3, <1>4, <1>5 DEF IInv

(* The elements of two sequences put together.                             *)
LEMMA Joined ==
  ASSUME NEW T, NEW s \in Seq(T), NEW t \in Seq(T)
  PROVE  /\ s \o t \in Seq(T) /\ Len(s \o t) = Len(s) + Len(t)
         /\ Len(s) \in Nat /\ Len(t) \in Nat
         /\ \A k \in 1 .. Len(s) : (s \o t)[k] = s[k]
         /\ \A k \in 1 .. Len(t) : (s \o t)[Len(s) + k] = t[k]
<1>1. /\ s \o t \in Seq(T) /\ Len(s \o t) = Len(s) + Len(t)
      /\ \A k \in 1 .. Len(s) + Len(t) :
           (s \o t)[k] = IF k <= Len(s) THEN s[k] ELSE t[k - Len(s)]
  BY ConcatProperties
<1>2. Len(s) \in Nat /\ Len(t) \in Nat
  OBVIOUS
<1>3. \A k \in 1 .. Len(s) : (s \o t)[k] = s[k]
  BY <1>1, <1>2
<1>4. ASSUME NEW k \in 1 .. Len(t) PROVE (s \o t)[Len(s) + k] = t[k]
  <2>1. /\ Len(s) + k \in 1 .. Len(s) + Len(t) /\ ~ (Len(s) + k <= Len(s))
        /\ (Len(s) + k) - Len(s) = k
    BY <1>2
  <2> QED BY <1>1, <2>1
<1> QED BY <1>1, <1>2, <1>3, <1>4

(* What a call finds in InBuffer, and that OutBuffer is as long.           *)
LEMMA CallStep ==
  ASSUME TypeOK, NEW o \in {"encrypt", "decrypt"}, NEW what \in Seq(Blocks),
         Call(o, what), IV \in Blocks
  PROVE  /\ op = "none" /\ op' = o /\ i' = 0 /\ inPlace' \in BOOLEAN
         /\ buffer' \in [Place -> Seq(Blocks)]
         /\ In' = what /\ SameLength'
<1> DEFINE junk == [k \in 1 .. Len(what) |-> IV]
<1>1. junk \in Seq(Blocks) /\ Len(junk) = Len(what)
  OBVIOUS
<1>2. /\ buffer'["in"] = what /\ buffer'["out"] = junk
      /\ buffer' = [p \in Place |-> IF p = "in" THEN what ELSE junk]
  BY DEF Call, InBuffer
<1> HIDE DEF junk
<1>3. buffer' \in [Place -> Seq(Blocks)]
  BY <1>1, <1>2
<1>4. SameLength'
  BY <1>1, <1>2 DEF SameLength
<1> QED BY <1>2, <1>3, <1>4 DEF Call, In, InBuffer

LEMMA EncryptKeeps ==
  ASSUME IInv, NEW Size \in Sizes, AesCbcEncrypt(Size)
  PROVE  IInv'
<1> DEFINE n == Size \div AES_BLOCK_SIZE
<1>1. PICK data \in [1 .. n -> Messages] :
        /\ Call("encrypt", data)
        /\ accepted' = accepted + Size
        /\ sent' = sent \o data
  BY DEF AesCbcEncrypt
<1>2. UNCHANGED <<IV, PreviousCipherBlock, wire, recovered>>
  BY DEF AesCbcEncrypt
<1>3. /\ Size \in Nat /\ AES_BLOCK_SIZE \in Nat \ {0}
      /\ n \in Nat /\ Size = AES_BLOCK_SIZE * n
  <2>1. /\ Size \in Nat /\ AES_BLOCK_SIZE \in Nat \ {0}
        /\ Size % AES_BLOCK_SIZE = 0
    BY BlockAssumption, CbcAssumption DEF AesCbcEncrypt, Accepts
  <2>2. n \in Nat /\ Size = AES_BLOCK_SIZE * n + (Size % AES_BLOCK_SIZE)
    BY <2>1, DivMod
  <2>3. AES_BLOCK_SIZE * n \in Nat
    BY <2>1, <2>2
  <2> HIDE DEF n
  <2> QED BY <2>1, <2>2, <2>3
<1> HIDE DEF n
<1>4. data \in Seq(Messages) /\ data \in Seq(Blocks) /\ Len(data) = n
  BY <1>3, BlockAssumption, CbcAssumption
<1>5. /\ op = "none" /\ op' = "encrypt" /\ i' = 0 /\ inPlace' \in BOOLEAN
      /\ buffer' \in [Place -> Seq(Blocks)] /\ In' = data /\ SameLength'
  BY <1>1, <1>4, CallStep, Facts DEF IInv
<1>6. /\ sent \in Seq(Messages) /\ sent' \in Seq(Messages)
      /\ Len(sent) \in Nat /\ Len(sent') = Len(sent) + n
      /\ \A k \in 1 .. Len(sent) : sent'[k] = sent[k]
      /\ \A k \in 1 .. n : sent'[Len(sent) + k] = data[k]
  <2>1. sent \in Seq(Messages)
    BY DEF IInv, TypeOK
  <2>2. data \in Seq(Messages) /\ Len(data) = n
    BY <1>4
  <2> DEFINE both == sent \o data
  <2>3. /\ both \in Seq(Messages) /\ Len(both) = Len(sent) + Len(data)
        /\ Len(sent) \in Nat
        /\ \A k \in 1 .. Len(sent) : both[k] = sent[k]
        /\ \A k \in 1 .. Len(data) : both[Len(sent) + k] = data[k]
    BY <2>1, <2>2, Joined
  <2>4. sent' = both
    BY <1>1
  <2> HIDE DEF both
  <2> QED BY <2>1, <2>2, <2>3, <2>4
<1>7. Len(sent) = Len(wire) /\ accepted = Len(wire) * AES_BLOCK_SIZE
      /\ Len(wire) \in Nat /\ accepted \in Nat
  BY <1>5 DEF IInv, Waiting, AcceptedIsPutOut, TypeOK
<1>8. accepted' = (Len(wire) + n) * AES_BLOCK_SIZE /\ accepted' \in Nat
  BY <1>1, <1>3, <1>7
<1>9. TypeOK'
  <2>1. i' \in 0 .. Len(buffer'[InBuffer])
    BY <1>3, <1>4, <1>5 DEF In, InBuffer
  <2> QED BY <1>2, <1>5, <1>6, <1>8, <2>1 DEF IInv, TypeOK, InBuffer
<1>10. Encrypting'
  <2>1. Before(Len(wire) + 1)' = Before(Len(wire) + 1)
    BY <1>2 DEF Before
  <2>2. PreviousCipherBlock["sender"]' = Before(Len(wire) + 1)
    BY <1>2, <1>5 DEF IInv, Waiting
  <2>3. Len(In') = n /\ Len(wire') = Len(wire)
    BY <1>2, <1>4, <1>5
  <2>4. Len(sent') = Len(wire) + n
    BY <1>6, <1>7
  <2>5. \A j \in 1 .. n : In'[j] = sent'[Len(wire) + j]
    BY <1>5, <1>6, <1>7
  <2>6. PreviousCipherBlock'["sender"] = Before(Len(wire) + 1)'
    BY <2>1, <2>2
  <2>7. accepted' = (Len(wire') + Len(In')) * AES_BLOCK_SIZE
        /\ Len(sent') = Len(wire') + Len(In')
    BY <1>8, <2>3, <2>4
  <2>8. /\ \A j \in i' + 1 .. Len(In') : In'[j] = sent'[Len(wire') + j]
        /\ 1 .. i' = {}
    BY <1>2, <1>5, <2>3, <2>5
  <2> QED BY <1>2, <1>5, <2>6, <2>7, <2>8 DEF Encrypting
<1>11. Decrypting' /\ Waiting'
  BY <1>2, <1>5 DEF IInv, Decrypting, Waiting, Before
<1>12. WireIsChain' /\ RecoveredIsSent'
  <2>1. \A k \in 1 .. Len(wire) : sent'[k] = sent[k]
    BY <1>6, <1>7
  <2>2. Len(recovered) \in Nat /\ Len(recovered) <= Len(wire)
    BY Facts
  <2>3. WireIsChain'
    BY <1>2, <1>6, <1>7, <2>1 DEF IInv, WireIsChain, Before
  <2>4. RecoveredIsSent'
    <3>1. \A k \in 1 .. Len(recovered) :
            k \in 1 .. Len(wire) /\ recovered[k] = sent[k]
      BY <1>7, <2>2 DEF IInv, RecoveredIsSent
    <3>2. Len(recovered) <= Len(sent')
      BY <1>3, <1>6, <1>7, <2>2
    <3> QED BY <1>2, <2>1, <3>1, <3>2 DEF RecoveredIsSent
  <2> QED BY <2>3, <2>4
<1>13. AcceptedIsPutOut'
  BY <1>5 DEF AcceptedIsPutOut
<1> QED BY <1>5, <1>9, <1>10, <1>11, <1>12, <1>13 DEF IInv

LEMMA DecryptKeeps ==
  ASSUME IInv, NEW Size \in Sizes, AesCbcDecrypt(Size)
  PROVE  IInv'
<1> DEFINE n == Size \div AES_BLOCK_SIZE
           from == Len(recovered)
           data == SubSeq(wire, from + 1, from + n)
<1>1. /\ n \in Nat /\ from \in Nat /\ from + n <= Len(wire)
      /\ wire \in Seq(Blocks) /\ Len(wire) \in Nat
  <2>1. Size \in Nat /\ AES_BLOCK_SIZE \in Nat \ {0}
    BY BlockAssumption, CbcAssumption
  <2>2. n \in Nat
    BY <2>1, DivMod
  <2> QED BY <2>2, Facts DEF AesCbcDecrypt
<1>2. /\ Call("decrypt", data)
      /\ UNCHANGED <<IV, PreviousCipherBlock, accepted, sent, wire, recovered>>
  BY DEF AesCbcDecrypt
<1> HIDE DEF n, from
<1>3. /\ data \in Seq(Blocks) /\ Len(data) = n
      /\ \A k \in 1 .. n : data[k] = wire[from + k]
  BY <1>1
<1> HIDE DEF data
<1>4. /\ op = "none" /\ op' = "decrypt" /\ i' = 0 /\ inPlace' \in BOOLEAN
      /\ buffer' \in [Place -> Seq(Blocks)] /\ In' = data /\ SameLength'
  BY <1>2, <1>3, CallStep, Facts DEF IInv
<1>5. TypeOK'
  <2>1. i' \in 0 .. Len(buffer'[InBuffer])
    BY <1>1, <1>3, <1>4 DEF In, InBuffer
  <2> QED BY <1>2, <1>4, <2>1 DEF IInv, TypeOK, InBuffer
<1>6. Decrypting'
  <2>1. Before(from + 0 + 1)' = Before(from + 1)
    BY <1>1, <1>2 DEF Before, from
  <2>2. PreviousCipherBlock["receiver"]' = Before(from + 1)
    BY <1>2, <1>4 DEF IInv, Waiting, from
  <2> QED BY <1>1, <1>2, <1>3, <1>4, <2>1, <2>2 DEF Decrypting, from
<1>7. Encrypting' /\ Waiting' /\ WireIsChain' /\ RecoveredIsSent'
      /\ AcceptedIsPutOut'
  BY <1>2, <1>4 DEF IInv, Encrypting, Waiting, WireIsChain, RecoveredIsSent,
                    AcceptedIsPutOut, Before
<1> QED BY <1>4, <1>5, <1>6, <1>7 DEF IInv

LEMMA EncryptBlockKeeps ==
  ASSUME IInv, EncryptBlock
  PROVE  IInv'
<1> DEFINE m == In[i + 1]
           p == PreviousCipherBlock["sender"]
           cipher == AesEncrypt(XorAesBlock(p, m))
<1>1. /\ op = "encrypt" /\ More /\ Output(cipher)
      /\ PreviousCipherBlock' = [PreviousCipherBlock EXCEPT !["sender"] = cipher]
  BY DEF EncryptBlock, In
<1>2. UNCHANGED <<IV, op, inPlace, accepted, sent, wire, recovered>>
  BY <1>1 DEF Output
<1>3. /\ i \in Nat /\ i + 1 \in 1 .. Len(In) /\ Len(In) \in Nat
      /\ In \in Seq(Blocks) /\ m \in Blocks /\ p \in Blocks
  BY <1>1 DEF More, IInv, TypeOK, In, InBuffer
<1>4. m = sent[Len(wire) + (i + 1)]
  BY <1>1, <1>3 DEF IInv, Encrypting
<1>5. cipher \in Blocks
  BY <1>3, BlockUndone
<1>6. /\ PreviousCipherBlock' \in [Context -> Blocks]
      /\ PreviousCipherBlock'["sender"] = cipher
      /\ PreviousCipherBlock'["receiver"] = PreviousCipherBlock["receiver"]
  BY <1>1, <1>5 DEF IInv, TypeOK
<1>7. cipher = AesEncrypt(XorAesBlock(
                 IF i + 1 = 1 THEN Before(Len(wire) + 1) ELSE Out[(i + 1) - 1],
                 sent[Len(wire) + (i + 1)]))
  <2>1. p = IF i + 1 = 1 THEN Before(Len(wire) + 1) ELSE Out[(i + 1) - 1]
    BY <1>1, <1>3 DEF IInv, Encrypting
  <2> QED BY <1>4, <2>1
<1> HIDE DEF m, p, cipher
<1>8. /\ buffer' \in [Place -> Seq(Blocks)]
      /\ i' = i + 1 /\ i' \in 1 .. Len(In)
      /\ Len(In') = Len(In) /\ SameLength'
      /\ Out'[i + 1] = cipher
      /\ \A j \in 1 .. i : Out'[j] = Out[j]
      /\ \A j \in i + 2 .. Len(In) : In'[j] = In[j]
  BY <1>1, <1>5, OutputStep DEF IInv
<1>9. TypeOK'
  <2>1. i' \in 0 .. Len(buffer'[InBuffer])
    BY <1>3, <1>8 DEF In, InBuffer
  <2> QED BY <1>2, <1>6, <1>8, <2>1 DEF IInv, TypeOK, InBuffer
<1>10. Encrypting'
  <2>1. /\ Len(sent) = Len(wire) + Len(In)
        /\ accepted = (Len(wire) + Len(In)) * AES_BLOCK_SIZE
        /\ \A j \in i + 1 .. Len(In) : In[j] = sent[Len(wire) + j]
        /\ \A j \in 1 .. i :
             Out[j] = AesEncrypt(XorAesBlock(
                        IF j = 1 THEN Before(Len(wire) + 1) ELSE Out[j - 1],
                        sent[Len(wire) + j]))
    BY <1>1 DEF IInv, Encrypting
  <2>2. \A j \in i' + 1 .. Len(In') : In'[j] = sent[Len(wire) + j]
    BY <1>3, <1>8, <2>1
  <2>3. ASSUME NEW j \in 1 .. i'
        PROVE  Out'[j] = AesEncrypt(XorAesBlock(
                 IF j = 1 THEN Before(Len(wire) + 1) ELSE Out'[j - 1],
                 sent[Len(wire) + j]))
    <3>1. j # 1 => Out'[j - 1] = Out[j - 1]
      BY <1>3, <1>8, <2>3
    <3>2. CASE j = i + 1
      BY <1>7, <1>8, <3>1, <3>2
    <3>3. CASE j # i + 1
      <4>1. j \in 1 .. i
        BY <1>3, <1>8, <2>3, <3>3
      <4>2. Out'[j] = Out[j]
        BY <1>8, <4>1
      <4> QED BY <2>1, <3>1, <4>1, <4>2
    <3> QED BY <3>2, <3>3
  <2>4. Before(Len(wire) + 1)' = Before(Len(wire) + 1)
    BY <1>2 DEF Before
  <2>5. PreviousCipherBlock'["sender"] = Out'[i'] /\ i' # 0
    BY <1>3, <1>6, <1>8
  <2> QED BY <1>2, <1>8, <2>1, <2>2, <2>3, <2>4, <2>5 DEF Encrypting
<1>11. Decrypting' /\ Waiting'
  BY <1>1, <1>2, <1>6 DEF IInv, Decrypting, Waiting, Before
<1>12. WireIsChain' /\ RecoveredIsSent' /\ AcceptedIsPutOut'
  BY <1>2 DEF IInv, WireIsChain, RecoveredIsSent, AcceptedIsPutOut, Before
<1> QED BY <1>8, <1>9, <1>10, <1>11, <1>12 DEF IInv

LEMMA DecryptBlockKeeps ==
  ASSUME IInv, DecryptBlock
  PROVE  IInv'
<1> DEFINE c == In[i + 1]
           k == Len(recovered) + i + 1
           plain == XorAesBlock(AesDecrypt(c), PreviousCipherBlock["receiver"])
<1>1. /\ op = "decrypt" /\ More /\ Output(plain)
      /\ PreviousCipherBlock' = [PreviousCipherBlock EXCEPT !["receiver"] = c]
  BY DEF DecryptBlock, In
<1>2. UNCHANGED <<IV, op, inPlace, accepted, sent, wire, recovered>>
  BY <1>1 DEF Output
<1>3. /\ i \in Nat /\ i + 1 \in 1 .. Len(In) /\ Len(In) \in Nat
      /\ In \in Seq(Blocks) /\ c \in Blocks
  BY <1>1 DEF More, IInv, TypeOK, In, InBuffer
<1>4. /\ Len(recovered) \in Nat /\ Len(wire) \in Nat
      /\ k \in 1 .. Len(wire) /\ k \in 1 .. Len(sent)
      /\ k \in 1 .. Len(wire) + 1
      /\ sent[k] \in Blocks /\ Before(k) \in Blocks
  <2>1. Len(recovered) + Len(In) <= Len(wire)
    BY <1>1 DEF IInv, Decrypting
  <2>2. /\ Len(recovered) \in Nat /\ Len(wire) \in Nat /\ Len(sent) \in Nat
        /\ Len(wire) <= Len(sent)
    BY Facts
  <2>3. /\ k \in 1 .. Len(wire) /\ k \in 1 .. Len(sent)
        /\ k \in 1 .. Len(wire) + 1
    BY <1>3, <2>1, <2>2
  <2> HIDE DEF k
  <2> QED BY <2>2, <2>3, Facts
<1>5. plain = sent[k]
  <2>1. c = wire[k]
    BY <1>1, <1>3, <1>4 DEF IInv, Decrypting
  <2>2. wire[k] = AesEncrypt(XorAesBlock(Before(k), sent[k]))
    BY <1>4 DEF IInv, WireIsChain
  <2>3. PreviousCipherBlock["receiver"] = Before(k)
    BY <1>1 DEF IInv, Decrypting
  <2> HIDE DEF k
  <2> QED BY <1>4, <2>1, <2>2, <2>3, BlockUndone
<1>6. c = wire[k]
  BY <1>1, <1>3, <1>4 DEF IInv, Decrypting
<1> HIDE DEF c, plain
<1>7. /\ PreviousCipherBlock' \in [Context -> Blocks]
      /\ PreviousCipherBlock'["receiver"] = c
      /\ PreviousCipherBlock'["sender"] = PreviousCipherBlock["sender"]
  BY <1>1, <1>3 DEF IInv, TypeOK
<1>8. /\ buffer' \in [Place -> Seq(Blocks)]
      /\ i' = i + 1 /\ i' \in 1 .. Len(In)
      /\ Len(In') = Len(In) /\ SameLength'
      /\ Out'[i + 1] = plain
      /\ \A j \in 1 .. i : Out'[j] = Out[j]
      /\ \A j \in i + 2 .. Len(In) : In'[j] = In[j]
  BY <1>1, <1>4, <1>5, OutputStep DEF IInv
<1>9. TypeOK'
  <2>1. i' \in 0 .. Len(buffer'[InBuffer])
    BY <1>3, <1>8 DEF In, InBuffer
  <2> QED BY <1>2, <1>7, <1>8, <2>1 DEF IInv, TypeOK, InBuffer
<1>10. Decrypting'
  <2>1. /\ Len(recovered) + Len(In) <= Len(wire)
        /\ \A j \in i + 1 .. Len(In) : In[j] = wire[Len(recovered) + j]
        /\ \A j \in 1 .. i : Out[j] = sent[Len(recovered) + j]
    BY <1>1 DEF IInv, Decrypting
  <2>2. \A j \in i' + 1 .. Len(In') : In'[j] = wire[Len(recovered) + j]
    BY <1>3, <1>8, <2>1
  <2>3. ASSUME NEW j \in 1 .. i'
        PROVE  Out'[j] = sent[Len(recovered) + j]
    <3>1. CASE j = i + 1
      BY <1>3, <1>4, <1>5, <1>8, <3>1
    <3>2. CASE j # i + 1
      <4>1. j \in 1 .. i
        BY <1>3, <1>8, <2>3, <3>2
      <4> QED BY <1>8, <2>1, <4>1
    <3> QED BY <3>1, <3>2
  <2>4. PreviousCipherBlock'["receiver"] = Before(Len(recovered) + i + 1)'
    <3>1. /\ Len(recovered) + i' + 1 # 1
          /\ (Len(recovered) + i' + 1) - 1 = k
      BY <1>3, <1>4, <1>8
    <3> HIDE DEF k
    <3> QED BY <1>2, <1>6, <1>7, <3>1 DEF Before
  <2> QED BY <1>2, <1>8, <2>1, <2>2, <2>3, <2>4 DEF Decrypting
<1>11. Encrypting' /\ Waiting'
  BY <1>1, <1>2, <1>7 DEF IInv, Encrypting, Waiting, Before
<1>12. WireIsChain' /\ RecoveredIsSent' /\ AcceptedIsPutOut'
  BY <1>2 DEF IInv, WireIsChain, RecoveredIsSent, AcceptedIsPutOut, Before
<1> QED BY <1>8, <1>9, <1>10, <1>11, <1>12 DEF IInv

LEMMA ReturnKeeps ==
  ASSUME IInv, Return
  PROVE  IInv'
<1>1. /\ op \in {"encrypt", "decrypt"} /\ op' = "none"
      /\ i = Len(In) /\ i \in Nat
      /\ Out \in Seq(Blocks) /\ Len(Out) = i
      /\ UNCHANGED <<IV, PreviousCipherBlock, accepted, sent>>
      /\ buffer' = [p \in Place |-> <<>>] /\ i' = 0 /\ inPlace' = FALSE
  BY DEF Return, More, IInv, TypeOK, SameLength, In, Out, InBuffer, OutBuffer
<1>2. /\ buffer' \in [Place -> Seq(Blocks)] /\ SameLength'
      /\ i' \in 0 .. Len(buffer'[InBuffer])
  <2>1. <<>> \in Seq(Blocks) /\ Len(<<>>) = 0
    OBVIOUS
  <2>2. buffer'["in"] = <<>> /\ buffer'["out"] = <<>>
    BY <1>1
  <2> QED BY <1>1, <2>1, <2>2 DEF SameLength, InBuffer
<1>3. Encrypting' /\ Decrypting'
  BY <1>1 DEF Encrypting, Decrypting
<1>4. CASE op = "encrypt"
  <2> DEFINE both == wire \o Out
  <2>1. wire' = both /\ recovered' = recovered
    BY <1>4 DEF Return, Out
  <2>2. /\ wire \in Seq(Blocks)
        /\ Len(wire) \in Nat /\ Len(recovered) \in Nat
        /\ Len(recovered) <= Len(wire)
    BY Facts
  <2>3. /\ both \in Seq(Blocks) /\ Len(both) = Len(wire) + i
        /\ \A k \in 1 .. Len(wire) : both[k] = wire[k]
        /\ \A k \in 1 .. i : both[Len(wire) + k] = Out[k]
    <3>1. Out \in Seq(Blocks) /\ Len(Out) = i
      BY <1>1
    <3>2. /\ both \in Seq(Blocks) /\ Len(both) = Len(wire) + Len(Out)
          /\ \A k \in 1 .. Len(wire) : both[k] = wire[k]
          /\ \A k \in 1 .. Len(Out) : both[Len(wire) + k] = Out[k]
      BY <2>2, <3>1, Joined
    <3> HIDE DEF both
    <3> QED BY <3>1, <3>2
  <2> HIDE DEF both
  <2>4. /\ Len(sent) = Len(wire) + i
        /\ accepted = (Len(wire) + i) * AES_BLOCK_SIZE
        /\ \A j \in 1 .. i :
             Out[j] = AesEncrypt(XorAesBlock(
                        IF j = 1 THEN Before(Len(wire) + 1) ELSE Out[j - 1],
                        sent[Len(wire) + j]))
        /\ PreviousCipherBlock["sender"] =
             IF i = 0 THEN Before(Len(wire) + 1) ELSE Out[i]
    BY <1>1, <1>4 DEF IInv, Encrypting
  <2> DEFINE after(k) == IF k = 1 THEN IV ELSE both[k - 1]
  <2>5. \A k \in 1 .. Len(wire) + 1 : after(k) = Before(k)
    <3> SUFFICES ASSUME NEW k \in 1 .. Len(wire) + 1, k # 1
                 PROVE  both[k - 1] = wire[k - 1]
      BY DEF Before
    <3>1. k - 1 \in 1 .. Len(wire)
      BY <2>2
    <3> QED BY <2>3, <3>1
  <2>6. ASSUME NEW j \in 1 .. i
        PROVE  after(Len(wire) + j + 1) = Out[j]
    <3>1. /\ Len(wire) + j + 1 # 1 /\ (Len(wire) + j + 1) - 1 = Len(wire) + j
      BY <1>1, <2>2
    <3>2. after(Len(wire) + j + 1) = both[Len(wire) + j]
      BY <3>1
    <3> QED BY <2>3, <3>2
  <2>7. TypeOK'
    BY <1>1, <1>2, <2>1, <2>3 DEF IInv, TypeOK, InBuffer
  <2>8. WireIsChain'
    <3> SUFFICES ASSUME NEW k \in 1 .. Len(both)
                 PROVE  both[k] = AesEncrypt(XorAesBlock(after(k), sent[k]))
      BY <1>1, <2>1 DEF WireIsChain, Before
    <3> HIDE DEF after
    <3>1. CASE k <= Len(wire)
      <4>1. k \in 1 .. Len(wire) /\ k \in 1 .. Len(wire) + 1
        BY <2>2, <2>3, <3>1
      <4>2. wire[k] = AesEncrypt(XorAesBlock(Before(k), sent[k]))
        BY <4>1 DEF IInv, WireIsChain
      <4> QED BY <2>3, <2>5, <4>1, <4>2
    <3>2. CASE ~ (k <= Len(wire))
      <4>1. PICK j \in 1 .. i : k = Len(wire) + j
        <5>1. k - Len(wire) \in 1 .. i /\ k = Len(wire) + (k - Len(wire))
          BY <1>1, <2>2, <2>3, <3>2
        <5> QED BY <5>1
      <4>2. after(k) = IF j = 1 THEN Before(Len(wire) + 1) ELSE Out[j - 1]
        <5>1. CASE j = 1
          <6>1. k = Len(wire) + 1 /\ k \in 1 .. Len(wire) + 1
            BY <2>2, <4>1, <5>1
          <6> QED BY <2>5, <5>1, <6>1
        <5>2. CASE j # 1
          <6>1. j - 1 \in 1 .. i /\ k = Len(wire) + (j - 1) + 1
            BY <1>1, <2>2, <4>1, <5>2
          <6> QED BY <2>6, <5>2, <6>1
        <5> QED BY <5>1, <5>2
      <4> QED BY <2>3, <2>4, <4>1, <4>2
    <3> QED BY <3>1, <3>2
  <2>9. RecoveredIsSent' /\ AcceptedIsPutOut'
    BY <1>1, <2>1, <2>3, <2>4
       DEF IInv, RecoveredIsSent, AcceptedIsPutOut
  <2>10. Waiting'
    <3>1. PreviousCipherBlock["sender"] = after(Len(both) + 1)
      <4> HIDE DEF after
      <4>1. CASE i = 0
        <5>1. Len(both) + 1 = Len(wire) + 1
              /\ Len(wire) + 1 \in 1 .. Len(wire) + 1
          BY <2>2, <2>3, <4>1
        <5> QED BY <2>4, <2>5, <4>1, <5>1
      <4>2. CASE i # 0
        <5>1. i \in 1 .. i
          BY <1>1, <4>2
        <5> QED BY <2>3, <2>4, <2>6, <4>2, <5>1
      <4> QED BY <4>1, <4>2
    <3>2. PreviousCipherBlock["receiver"] = after(Len(recovered) + 1)
      <4> HIDE DEF after
      <4>1. PreviousCipherBlock["receiver"] = Before(Len(recovered) + 1)
        BY <1>4 DEF IInv, Waiting
      <4>2. Len(recovered) + 1 \in 1 .. Len(wire) + 1
        BY <2>2
      <4> QED BY <2>5, <4>1, <4>2
    <3>3. Len(sent) = Len(both) /\ Len(recovered) <= Len(both)
      BY <1>1, <2>2, <2>3, <2>4
    <3> QED BY <1>1, <2>1, <3>1, <3>2, <3>3 DEF Waiting, Before
  <2> QED BY <1>2, <1>3, <2>7, <2>8, <2>9, <2>10 DEF IInv
<1>5. CASE op = "decrypt"
  <2> DEFINE both == recovered \o Out
  <2>1. wire' = wire /\ recovered' = both
    BY <1>5 DEF Return, Out
  <2>2. /\ recovered \in Seq(Blocks) /\ wire \in Seq(Blocks)
        /\ Len(wire) \in Nat /\ Len(recovered) \in Nat
    BY Facts
  <2>3. /\ both \in Seq(Blocks) /\ Len(both) = Len(recovered) + i
        /\ \A k \in 1 .. Len(recovered) : both[k] = recovered[k]
        /\ \A k \in 1 .. i : both[Len(recovered) + k] = Out[k]
    <3>1. Out \in Seq(Blocks) /\ Len(Out) = i
      BY <1>1
    <3>2. ASSUME NEW t \in Seq(Blocks)
          PROVE  LET s == recovered \o t
                 IN  /\ s \in Seq(Blocks) /\ Len(s) = Len(recovered) + Len(t)
                     /\ \A k \in 1 .. Len(recovered) : s[k] = recovered[k]
                     /\ \A k \in 1 .. Len(t) : s[Len(recovered) + k] = t[k]
      BY <2>2, Joined
    <3>3. /\ both \in Seq(Blocks) /\ Len(both) = Len(recovered) + Len(Out)
          /\ \A k \in 1 .. Len(recovered) : both[k] = recovered[k]
          /\ \A k \in 1 .. Len(Out) : both[Len(recovered) + k] = Out[k]
      BY <3>1, <3>2
    <3> HIDE DEF both
    <3> QED BY <3>1, <3>3
  <2> HIDE DEF both
  <2>4. /\ Len(recovered) + i <= Len(wire)
        /\ \A j \in 1 .. i : Out[j] = sent[Len(recovered) + j]
        /\ PreviousCipherBlock["receiver"] = Before(Len(recovered) + i + 1)
    BY <1>1, <1>5 DEF IInv, Decrypting
  <2>5. TypeOK'
    BY <1>1, <1>2, <2>1, <2>3 DEF IInv, TypeOK, InBuffer
  <2>6. WireIsChain' /\ AcceptedIsPutOut'
    BY <1>1, <1>5, <2>1 DEF IInv, WireIsChain, AcceptedIsPutOut, Before
  <2>7. RecoveredIsSent'
    <3>1. Len(both) <= Len(sent)
      BY <1>5, <2>2, <2>3, <2>4 DEF IInv, Waiting
    <3>2. ASSUME NEW k \in 1 .. Len(both) PROVE both[k] = sent[k]
      <4>1. CASE k <= Len(recovered)
        <5>1. k \in 1 .. Len(recovered)
          BY <2>2, <2>3, <4>1
        <5> QED BY <2>3, <5>1 DEF IInv, RecoveredIsSent
      <4>2. CASE ~ (k <= Len(recovered))
        <5>1. PICK j \in 1 .. i : k = Len(recovered) + j
          <6>1. /\ k - Len(recovered) \in 1 .. i
                /\ k = Len(recovered) + (k - Len(recovered))
            BY <1>1, <2>2, <2>3, <4>2
          <6> QED BY <6>1
        <5> QED BY <2>3, <2>4, <5>1
      <4> QED BY <4>1, <4>2
    <3> QED BY <1>1, <2>1, <3>1, <3>2 DEF RecoveredIsSent
  <2>8. Waiting'
    BY <1>1, <1>5, <2>1, <2>2, <2>3, <2>4 DEF IInv, Waiting, Before
  <2> QED BY <1>2, <1>3, <2>5, <2>6, <2>7, <2>8 DEF IInv
<1> QED BY <1>1, <1>4, <1>5

LEMMA Inductive == IInv /\ [Next]_vars => IInv'
<1> SUFFICES ASSUME IInv, [Next]_vars PROVE IInv'
  OBVIOUS
<1>1. ASSUME NEW iv \in IVs, AesCbcInitialise(iv) PROVE IInv'
  BY <1>1, InitialiseKeeps
<1>2. CASE Rewind
  BY <1>2, RewindKeeps
<1>3. ASSUME NEW Size \in Sizes, AesCbcEncrypt(Size) PROVE IInv'
  BY <1>3, EncryptKeeps
<1>4. ASSUME NEW Size \in Sizes, AesCbcDecrypt(Size) PROVE IInv'
  BY <1>4, DecryptKeeps
<1>5. CASE EncryptBlock
  BY <1>5, EncryptBlockKeeps
<1>6. CASE DecryptBlock
  BY <1>6, DecryptBlockKeeps
<1>7. CASE Return
  BY <1>7, ReturnKeeps
<1>8. CASE UNCHANGED vars
  <2> USE <1>8 DEF vars
  <2>1. TypeOK' /\ SameLength'
    BY DEF IInv, TypeOK, SameLength, InBuffer
  <2>2. Encrypting'
    BY DEF IInv, Encrypting, In, Out, InBuffer, OutBuffer, Before
  <2>3. Decrypting'
    BY DEF IInv, Decrypting, In, Out, InBuffer, OutBuffer, Before
  <2>4. Waiting'
    BY DEF IInv, Waiting, Before
  <2>5. WireIsChain' /\ RecoveredIsSent' /\ AcceptedIsPutOut'
    BY DEF IInv, WireIsChain, RecoveredIsSent, AcceptedIsPutOut, Before
  <2> QED BY <2>1, <2>2, <2>3, <2>4, <2>5 DEF IInv
<1> QED BY <1>1, <1>2, <1>3, <1>4, <1>5, <1>6, <1>7, <1>8 DEF Next

LEMMA Invariance == Spec => []IInv
BY Initially, Inductive, PTL DEF Spec

-----------------------------------------------------------------------------
(* Buffers, contexts and indices stay well formed in any use of the calls. *)
THEOREM TypeCorrect == Spec => []TypeOK
<1>1. IInv => TypeOK
  BY DEF IInv
<1> QED BY <1>1, Invariance, PTL

(* The cipher text is the chain over the message, for every block cipher,  *)
(* however the message is cut into calls (AesCbc.c:115-118).               *)
THEOREM CipherTextIsChain == Spec => []WireIsChain
<1>1. IInv => WireIsChain
  BY DEF IInv
<1> QED BY <1>1, Invariance, PTL

(* Decryption gives the message back, whatever the cuts on either side and *)
(* with the buffers in one place or two (AesCbc.c:163-164).                *)
THEOREM MessageIsRecovered == Spec => []RecoveredIsSent
<1>1. IInv => RecoveredIsSent
  BY DEF IInv
<1> QED BY <1>1, Invariance, PTL

(* Every byte of an accepted call is put out, for every block size.        *)
THEOREM NothingIsDropped == Spec => []AcceptedIsPutOut
<1>1. IInv => AcceptedIsPutOut
  BY DEF IInv
<1> QED BY <1>1, Invariance, PTL

(* Between calls the contexts hold all that the chain needs.               *)
THEOREM ContextsStayChained == Spec => []ContextsChained
<1>1. IInv => ContextsChained
  BY DEF IInv, Waiting, ContextsChained
<1> QED BY <1>1, Invariance, PTL

(* Whatever the cipher, the block size, the message and the cuts: the      *)
(* message that is recovered is the one that was sent over the chain.      *)
THEOREM MessageArrives == Spec => []ChainKept
BY CipherTextIsChain, MessageIsRecovered, PTL DEF ChainKept

(* And calls of any sizes join: none keeps anything back.                  *)
THEOREM CallsJoin == Spec => []CallsJoined
BY NothingIsDropped, ContextsStayChained, PTL DEF CallsJoined

-----------------------------------------------------------------------------
(* The stream modes and the library as a whole.                            *)

B == AES_BLOCK_SIZE

-----------------------------------------------------------------------------
(* The context of the counter mode, and the call that uses it.             *)

(* The context stands in the block it holds, unless a caller was careless. *)
InBlock ==
  ~ ctr_loose => ctr_index = ctr_position \div AES_BLOCK_SIZE

CtrInv ==
  /\ ctr_IV \in IVs /\ ctr_position \in Nat /\ ctr_loose \in BOOLEAN
  /\ ctr_index \in Nat
  /\ Ctr!CipherBlockIsCurrent /\ InBlock

NoWrap == \A n \in Sizes : n + AES_BLOCK_SIZE < SizeModulus

(* A call from inside the block at hand uses the right bytes and leaves    *)
(* the context in the block of the new position if it got to its end.      *)
LEMMA CtrXorFollowsStream ==
  ASSUME CtrInv, NoWrap, ~ ctr_loose, NEW n \in Sizes
  PROVE  /\ \A k \in 1 .. n :
              Ctr!StreamByte(n, k - 1) = <<ctr_IV, ctr_position + k - 1>>
         /\ n >= Ctr!AmountAvailableInBlock =>
              /\ Ctr!NumIterations(n) > 0
              /\ ctr_index + Ctr!NumIterations(n)
                   = (ctr_position + n) \div AES_BLOCK_SIZE
         /\ Ctr!NumIterations(n) \in Nat
<1> DEFINE c == ctr_index
           m == ctr_position % B
           first == Ctr!FirstChunkSize(n)
<1>1. /\ B \in Nat \ {0} /\ n \in Nat /\ SizeModulus \in Nat \ {0}
      /\ n + B < SizeModulus
  BY BlockAssumption, CtrAssumption DEF NoWrap, B
<1>2. /\ c \in Nat /\ m \in 0 .. B - 1 /\ ctr_position = B * c + m
      /\ B * c \in Nat
  <2>1. c \in Nat /\ ctr_position \in Nat /\ c = ctr_position \div B
    BY DEF CtrInv, InBlock, B
  <2>2. m \in 0 .. B - 1 /\ ctr_position = B * (ctr_position \div B) + m
    BY <1>1, <2>1, DivMod
  <2> HIDE DEF c, m
  <2> QED BY <1>1, <2>1, <2>2
<1>3. Ctr!AmountAvailableInBlock = B - m
  BY DEF Ctr!AmountAvailableInBlock, B
<1>4. /\ first \in 0 .. n /\ first <= B - m
      /\ first = n \/ first = B - m
      /\ n >= B - m => first = B - m
  BY <1>1, <1>2, <1>3 DEF Ctr!FirstChunkSize
<1> HIDE DEF c, m, first
<1>5. Ctr!NumIterations(n) = (n - first + B) \div B
  <2>1. n - first + B \in 0 .. SizeModulus - 1
    BY <1>1, <1>4
  <2>2. (n - first + B) % SizeModulus = n - first + B
    BY <1>1, <2>1, DivUnique
  <2> QED BY <2>2 DEF Ctr!NumIterations, first, B
<1>6. /\ Ctr!NumIterations(n) = ((n - first) \div B) + 1
      /\ (n - first) \div B \in Nat
      /\ Ctr!NumIterations(n) \in Nat /\ Ctr!NumIterations(n) > 0
  <2> DEFINE left == n - first
  <2>1. left \in Nat
    BY <1>1, <1>4
  <2> HIDE DEF left
  <2>2. (left + B) \div B = (left \div B) + 1 /\ left \div B \in Nat
    BY <1>1, <2>1, DivNext, DivMod
  <2> QED BY <1>5, <2>2 DEF left
<1>7. ASSUME NEW k \in 1 .. n
      PROVE  Ctr!StreamByte(n, k - 1) = <<ctr_IV, ctr_position + k - 1>>
  <2> DEFINE turn == (k - 1 - first) \div B
             rest == (k - 1 - first) % B
  <2>1. CASE k - 1 < first
    <3>1. Ctr!StreamByte(n, k - 1) = Ctr!KeyByte(ctr_block, m + k - 1)
      BY <1>1, <1>2, <1>3, <1>4, <2>1 DEF Ctr!StreamByte, first, B
    <3>2. ctr_block[1] = ctr_IV /\ ctr_block[2] = c
      BY DEF CtrInv, Ctr!CipherBlockIsCurrent, c
    <3>3. c * B = B * c
      BY <1>1, <1>2
    <3> QED BY <1>1, <1>2, <3>1, <3>2, <3>3 DEF Ctr!KeyByte, B
  <2>2. CASE ~ (k - 1 < first)
    <3>1. /\ k - 1 - first \in Nat /\ first = B - m
          /\ k - 1 - first <= n - first
      BY <1>1, <1>4, <2>2
    <3>2. /\ turn \in Nat /\ rest \in 0 .. B - 1
          /\ k - 1 - first = B * turn + rest /\ B * turn \in Nat
      <4> DEFINE x == k - 1 - first
      <4>1. x \in Nat
        BY <3>1
      <4> HIDE DEF x
      <4>2. /\ x \div B \in Nat /\ x % B \in 0 .. B - 1
            /\ x = B * (x \div B) + (x % B)
        BY <1>1, <4>1, DivMod
      <4>3. B * (x \div B) \in Nat
        BY <1>1, <4>2
      <4> QED BY <4>2, <4>3 DEF x
    <3>3. turn < Ctr!NumIterations(n)
      <4>1. n - first \in Nat
        BY <1>1, <1>4
      <4>2. turn <= (n - first) \div B
        BY <1>1, <3>1, <4>1, DivMonotone
      <4> HIDE DEF turn
      <4> QED BY <1>6, <3>2, <4>2
    <3>4. Ctr!StreamByte(n, k - 1)
            = Ctr!KeyByte(<<ctr_IV, c + 1 + turn>>, rest)
      BY <2>2, <3>3 DEF Ctr!StreamByte, first, c, B
    <3> HIDE DEF turn, rest
    <3>5. (c + 1 + turn) * B + rest = ctr_position + k - 1
      <4>1. (c + 1 + turn) * B = B * c + B + B * turn
        BY <1>1, <1>2, <3>2
      <4> QED BY <1>1, <1>2, <3>1, <3>2, <4>1
    <3> QED BY <3>4, <3>5 DEF Ctr!KeyByte, B
  <2> QED BY <2>1, <2>2
<1>8. ASSUME n >= Ctr!AmountAvailableInBlock
      PROVE  c + Ctr!NumIterations(n) = (ctr_position + n) \div B
  <2>1. first = B - m /\ n - first + B = n + m /\ n + m \in Nat
    BY <1>1, <1>2, <1>3, <1>4, <1>8
  <2>2. ctr_position + n = B * c + (n + m)
    BY <1>1, <1>2, <2>1
  <2>3. \A z \in Nat : (B * c + z) \div B = c + (z \div B)
    BY <1>1, <1>2, DivShift
  <2> QED BY <1>5, <2>1, <2>2, <2>3
<1> QED BY <1>6, <1>7, <1>8 DEF c, B

(* No call of a careful caller takes the context out of its block.         *)
LEMMA CtrKeeps ==
  ASSUME CtrInv, NoWrap, Careful, [Ctr!Next]_(Ctr!vars)
  PROVE  CtrInv'
<1> USE DEF CtrInv, Ctr!CipherBlockIsCurrent, InBlock,
            Ctr!CreateCurrentCipherBlock
<1>1. ASSUME NEW to \in IVs, Ctr!AesCtrInitialise(to) PROVE CtrInv'
  <2>1. 0 \div AES_BLOCK_SIZE = 0
    BY BlockAssumption, CtrAssumption, DivUnique
  <2> QED BY <1>1, <2>1 DEF Ctr!AesCtrInitialise
<1>2. ASSUME NEW p \in Positions, Ctr!AesCtrSetStreamIndex(p) PROVE CtrInv'
  <2>1. p \in Nat /\ p \div AES_BLOCK_SIZE \in Nat
    BY BlockAssumption, CtrAssumption, DivMod
  <2> QED BY <1>2, <2>1 DEF Ctr!AesCtrSetStreamIndex, Ctr!BlockOf
<1>3. ASSUME NEW n \in Sizes, Ctr!AesCtrXor(n) PROVE CtrInv'
  <2>1. ~ ctr_loose
    BY <1>3 DEF Ctr!AesCtrXor
  <2>2. n \in Nat /\ Ctr!NumIterations(n) \in Nat
    BY <2>1, CtrXorFollowsStream, BlockAssumption, CtrAssumption
  <2>3. /\ ctr_IV' \in IVs /\ ctr_position' \in Nat /\ ctr_loose' \in BOOLEAN
        /\ ctr_index' \in Nat /\ Ctr!CipherBlockIsCurrent'
    BY <1>3, <2>2 DEF Ctr!AesCtrXor
  <2>4. Ctr!AmountAvailableInBlock \in Int
    BY BlockAssumption, CtrAssumption, DivMod DEF Ctr!AmountAvailableInBlock
  <2>5. ASSUME ~ ctr_loose'
        PROVE  (ctr_index = ctr_position \div AES_BLOCK_SIZE)'
    <3>1. n >= Ctr!AmountAvailableInBlock
      <4>1. ctr_loose' = (n < Ctr!AmountAvailableInBlock)
        BY <1>3 DEF Ctr!AesCtrXor
      <4>2. ~ (n < Ctr!AmountAvailableInBlock)
        BY <2>5, <4>1
      <4> QED BY <2>2, <2>4, <4>2
    <3>2. /\ Ctr!NumIterations(n) > 0
          /\ ctr_index + Ctr!NumIterations(n)
               = (ctr_position + n) \div AES_BLOCK_SIZE
      BY <2>1, <3>1, CtrXorFollowsStream
    <3> QED BY <1>3, <3>2 DEF Ctr!AesCtrXor
  <2> QED BY <2>3, <2>5
<1>4. CASE UNCHANGED Ctr!vars
  BY <1>4 DEF Ctr!vars
<1> QED BY <1>1, <1>2, <1>3, <1>4 DEF Ctr!Next

(* Each call is a step of the key stream.                                  *)
LEMMA CtrFollows ==
  ASSUME CtrInv, NoWrap, Careful, [Ctr!Next]_(Ctr!vars)
  PROVE  [Ctr!Stream!Next]_(Ctr!Stream!vars)
<1>1. ASSUME NEW to \in IVs, Ctr!AesCtrInitialise(to) PROVE Ctr!Stream!Next
  BY <1>1 DEF Ctr!AesCtrInitialise, Ctr!Stream!Next, Ctr!Stream!Restart
<1>2. ASSUME NEW p \in Positions, Ctr!AesCtrSetStreamIndex(p)
      PROVE  Ctr!Stream!Next
  BY <1>2 DEF Ctr!AesCtrSetStreamIndex, Ctr!BlockOf, Ctr!Stream!Next,
              Ctr!Stream!Seek
<1>3. ASSUME NEW n \in Sizes, Ctr!AesCtrXor(n) PROVE Ctr!Stream!Next
  <2>1. \A k \in 1 .. n :
          Ctr!StreamByte(n, k - 1) = <<ctr_IV, ctr_position + k - 1>>
    BY <1>3, CtrXorFollowsStream DEF Ctr!AesCtrXor
  <2>2. ctr_out' = [k \in 1 .. n |-> <<ctr_IV, ctr_position + k - 1>>]
    BY <1>3, <2>1 DEF Ctr!AesCtrXor
  <2>3. Ctr!Stream!Take(n)
    BY <1>3, <2>2 DEF Ctr!AesCtrXor, Ctr!Stream!Take
  <2> QED BY <2>3 DEF Ctr!Stream!Next
<1>4. CASE UNCHANGED Ctr!vars
  BY <1>4 DEF Ctr!vars, Ctr!Stream!vars
<1> QED BY <1>1, <1>2, <1>3, <1>4 DEF Ctr!Next

(* A context starts in the first block of the stream.                      *)
LEMMA CtrStarts == Ctr!Init => CtrInv /\ Ctr!Stream!Init
<1> SUFFICES ASSUME Ctr!Init PROVE CtrInv /\ Ctr!Stream!Init
  OBVIOUS
<1>1. 0 \div AES_BLOCK_SIZE = 0
  BY BlockAssumption, CtrAssumption, DivUnique
<1>2. InBlock
  BY <1>1 DEF Ctr!Init, InBlock
<1> QED BY <1>2 DEF Ctr!Init, CtrInv, Ctr!CipherBlockIsCurrent,
                    Ctr!CreateCurrentCipherBlock, Ctr!Stream!Init

(* What holds of the context whoever calls, and whatever the sizes: it     *)
(* holds the block its index names.                                        *)
CtrTyped ==
  /\ ctr_IV \in IVs /\ ctr_position \in Nat /\ ctr_loose \in BOOLEAN
  /\ ctr_index \in Nat
  /\ Ctr!CipherBlockIsCurrent
  /\ DOMAIN ctr_out = 1 .. Len(ctr_out)

(* It is as the calls expect it.                                           *)
LEMMA CtrIsTyped == CtrTyped => Ctr!TypeOK
BY DEF CtrTyped, Ctr!CipherBlockIsCurrent, Ctr!TypeOK

(* The buffer of no call.                                                  *)
LEMMA NoBytes == DOMAIN <<>> = 1 .. Len(<<>>)
OBVIOUS

(* So it is at first.                                                      *)
LEMMA CtrTypedStarts == Ctr!Init => CtrTyped
<1> SUFFICES ASSUME Ctr!Init PROVE CtrTyped
  OBVIOUS
<1>1. /\ ctr_IV \in IVs /\ ctr_position \in Nat /\ ctr_loose \in BOOLEAN
      /\ ctr_index \in Nat /\ Ctr!CipherBlockIsCurrent
  BY DEF Ctr!Init, Ctr!CipherBlockIsCurrent, Ctr!CreateCurrentCipherBlock
<1>2. DOMAIN ctr_out = 1 .. Len(ctr_out)
  BY NoBytes, Zenon DEF Ctr!Init
<1> QED BY <1>1, <1>2 DEF CtrTyped

(* No size, however close to the modulus, makes a negative index.          *)
LEMMA CtrIterations ==
  ASSUME ctr_position \in Nat, NEW n \in Sizes
  PROVE  Ctr!NumIterations(n) \in Nat /\ n \in Nat
<1> DEFINE first == Ctr!FirstChunkSize(n)
           left == n - first + B
           m == ctr_position % B
<1>1. B \in Nat \ {0} /\ n \in Nat /\ SizeModulus \in Nat \ {0}
  BY BlockAssumption, CtrAssumption DEF B
<1>2. m \in 0 .. B - 1
  BY <1>1, DivMod
<1>3. first = IF B - m < n THEN B - m ELSE n
  BY DEF Ctr!FirstChunkSize, Ctr!AmountAvailableInBlock, B
<1> HIDE DEF m, first
<1>4. left \in Nat
  BY <1>1, <1>2, <1>3
<1>5. Ctr!NumIterations(n) = (left % SizeModulus) \div B
  BY DEF Ctr!NumIterations, first, B
<1> HIDE DEF left
<1>6. left % SizeModulus \in Nat
  BY <1>1, <1>4, DivMod
<1>7. (left % SizeModulus) \div B \in Nat
  BY <1>1, <1>6, DivMod
<1> QED BY <1>1, <1>5, <1>7

(* Every call keeps the context typed, those of careless callers too.      *)
LEMMA CtrTypedKeeps ==
  ASSUME CtrTyped, [Ctr!Next]_(Ctr!vars)
  PROVE  CtrTyped'
<1> USE DEF CtrTyped, Ctr!CipherBlockIsCurrent, Ctr!CreateCurrentCipherBlock
<1>1. ASSUME NEW to \in IVs, Ctr!AesCtrInitialise(to) PROVE CtrTyped'
  <2>1. /\ ctr_IV' \in IVs /\ ctr_position' \in Nat /\ ctr_loose' \in BOOLEAN
        /\ ctr_index' \in Nat /\ Ctr!CipherBlockIsCurrent'
    BY <1>1 DEF Ctr!AesCtrInitialise
  <2>2. DOMAIN ctr_out' = 1 .. Len(ctr_out')
    BY <1>1, NoBytes, Zenon DEF Ctr!AesCtrInitialise
  <2> QED BY <2>1, <2>2
<1>2. ASSUME NEW p \in Positions, Ctr!AesCtrSetStreamIndex(p) PROVE CtrTyped'
  <2>1. p \in Nat /\ p \div AES_BLOCK_SIZE \in Nat
    BY BlockAssumption, CtrAssumption, DivMod
  <2>2. /\ ctr_IV' \in IVs /\ ctr_position' \in Nat /\ ctr_loose' \in BOOLEAN
        /\ ctr_index' \in Nat /\ Ctr!CipherBlockIsCurrent'
    BY <1>2, <2>1 DEF Ctr!AesCtrSetStreamIndex, Ctr!BlockOf
  <2>3. DOMAIN ctr_out' = 1 .. Len(ctr_out')
    BY <1>2, NoBytes, Zenon DEF Ctr!AesCtrSetStreamIndex
  <2> QED BY <2>2, <2>3
<1>3. ASSUME NEW n \in Sizes, Ctr!AesCtrXor(n) PROVE CtrTyped'
  <2>1. n \in Nat /\ Ctr!NumIterations(n) \in Nat
    BY CtrIterations
  <2>2. /\ ctr_IV' \in IVs /\ ctr_position' \in Nat /\ ctr_loose' \in BOOLEAN
        /\ ctr_index' \in Nat /\ Ctr!CipherBlockIsCurrent'
    BY <1>3, <2>1 DEF Ctr!AesCtrXor
  <2>3. DOMAIN ctr_out' = 1 .. Len(ctr_out')
    BY <1>3, <2>1 DEF Ctr!AesCtrXor
  <2> QED BY <2>2, <2>3
<1>4. CASE UNCHANGED Ctr!vars
  BY <1>4 DEF Ctr!vars
<1> QED BY <1>1, <1>2, <1>3, <1>4 DEF Ctr!Next

-----------------------------------------------------------------------------
OfbInv ==
  /\ ofb_IV \in IVs
  /\ ofb_block \in Nat
  /\ ofb_index \in 0 .. AES_BLOCK_SIZE

(* The position of the context in the key stream.                          *)
OfbPosition == ofb_block * AES_BLOCK_SIZE + ofb_index

(* The first chunk ends the call or the block.                             *)
LEMMA OfbFirstChunk ==
  ASSUME OfbInv, NEW n \in Sizes
  PROVE  /\ B \in Nat \ {0} /\ n \in Nat
         /\ Ofb!FirstChunkSize(n) \in 0 .. n
         /\ Ofb!FirstChunkSize(n) <= B - ofb_index
         /\ Ofb!FirstChunkSize(n) = n
              \/ Ofb!FirstChunkSize(n) = B - ofb_index
         /\ ofb_block * B \in Nat
<1>1. B \in Nat \ {0} /\ n \in Nat /\ ofb_index \in 0 .. B
      /\ ofb_block \in Nat
  BY BlockAssumption DEF OfbInv, B
<1>2. ofb_block * B \in Nat
  BY <1>1
<1> QED BY <1>1, <1>2 DEF Ofb!FirstChunkSize, Ofb!AmountAvailableInBlock, B

(* The loop takes whole blocks and then between one byte and a block.      *)
LEMMA OfbRounds ==
  ASSUME OfbInv, NEW n \in Sizes
  PROVE  /\ Ofb!Rounds(n) \in Nat
         /\ Ofb!Rounds(n) = 0 => Ofb!FirstChunkSize(n) = n
         /\ Ofb!Rounds(n) > 0 =>
              /\ Ofb!FirstChunkSize(n) = B - ofb_index
              /\ Ofb!LastChunkSize(n) \in 1 .. B
              /\ n = Ofb!FirstChunkSize(n) + (Ofb!Rounds(n) - 1) * B
                       + Ofb!LastChunkSize(n)
<1> DEFINE left == n - Ofb!FirstChunkSize(n)
           z == left + B - 1
           m == z % B
           R == Ofb!Rounds(n)
<1>1. left \in Nat /\ B \in Nat \ {0}
  BY OfbFirstChunk
<1>2. z \in Nat /\ R = z \div B
  BY <1>1 DEF Ofb!Rounds, B
<1> HIDE DEF z, R
<1>3. R \in Nat /\ m \in 0 .. B - 1 /\ z = B * R + m
  BY <1>1, <1>2, DivMod
<1> HIDE DEF m
<1>4. left + B - 1 = B * R + m
  BY <1>3 DEF z
<1>5. ASSUME R = 0 PROVE left = 0
  BY <1>1, <1>3, <1>4, <1>5
<1>6. ASSUME left = 0 PROVE R = 0
  <2>1. z = B * 0 + (B - 1)
    BY <1>1, <1>6 DEF z
  <2>2. z \div B = 0
    BY <1>1, <1>2, <2>1, DivUnique
  <2> QED BY <1>2, <2>2
<1>7. ASSUME R > 0
      PROVE  /\ Ofb!LastChunkSize(n) = left - (R - 1) * B
             /\ left - (R - 1) * B = m + 1
  <2>1. Ofb!LastChunkSize(n) = left - (R - 1) * B
    BY <1>3, <1>7 DEF Ofb!LastChunkSize, R, B
  <2>2. (R - 1) * B = B * R - B /\ B * R \in Nat
    BY <1>1, <1>3
  <2> QED BY <1>1, <1>3, <1>4, <2>1, <2>2
<1>8. (R - 1) * B \in Int
  BY <1>1, <1>3
<1> HIDE DEF left
<1>9. /\ left = n - Ofb!FirstChunkSize(n)
      /\ Ofb!FirstChunkSize(n) \in 0 .. n /\ n \in Nat
  BY OfbFirstChunk DEF left
<1>10. R > 0 => /\ Ofb!LastChunkSize(n) \in 1 .. B
                /\ left = (R - 1) * B + Ofb!LastChunkSize(n)
  BY <1>1, <1>3, <1>7, <1>8
<1>11. R > 0 => Ofb!FirstChunkSize(n) = B - ofb_index
  BY <1>6, <1>9, OfbFirstChunk
<1> QED BY <1>3, <1>5, <1>8, <1>9, <1>10, <1>11 DEF R

(* A call uses the bytes of the key stream from the position on.           *)
LEMMA OfbBytes ==
  ASSUME OfbInv, NEW n \in Sizes, NEW k \in 1 .. n
  PROVE  Ofb!StreamByte(n, k - 1) = <<ofb_IV, OfbPosition + k - 1>>
<1> DEFINE first == Ofb!FirstChunkSize(n)
           c == ofb_block
           ix == ofb_index
           x == k - 1 - first
<1>1. /\ B \in Nat \ {0} /\ n \in Nat /\ first \in 0 .. n /\ first <= B - ix
      /\ first = n \/ first = B - ix
      /\ c * B \in Nat /\ c \in Nat /\ ix \in 0 .. B
  BY OfbFirstChunk DEF OfbInv, B
<1>2. CASE k - 1 < first
  BY <1>1, <1>2 DEF Ofb!StreamByte, Ofb!AmountAvailableInBlock, OfbPosition, B
<1>3. CASE ~ (k - 1 < first)
  <2>1. x \in Nat /\ first = B - ix
    BY <1>1, <1>3
  <2>2. Ofb!StreamByte(n, k - 1)
          = <<ofb_IV, (c + 1 + (x \div B)) * B + (x % B)>>
    BY <1>3 DEF Ofb!StreamByte, B
  <2>3. OfbPosition = c * B + ix
    BY DEF OfbPosition, B
  <2>4. x = k - 1 - first
    OBVIOUS
  <2> HIDE DEF x, first, c, ix
  <2>5. /\ x \div B \in Nat /\ x % B \in 0 .. B - 1
        /\ x = B * (x \div B) + (x % B)
    BY <1>1, <2>1, DivMod
  <2>7. \A q \in Nat : B * q \in Nat
    BY <1>1
  <2>6. \A q \in Nat : (c + 1 + q) * B = c * B + B + B * q
    BY <1>1
  <2>8. (c + 1 + (x \div B)) * B = c * B + B + B * (x \div B)
    BY <2>5, <2>6
  <2>9. (c + 1 + (x \div B)) * B + (x % B) = c * B + B + x
    BY <1>1, <2>5, <2>7, <2>8
  <2>10. c * B + B + x = c * B + ix + (k - 1)
    BY <1>1, <2>1, <2>4
  <2>11. c * B + ix + (k - 1) = OfbPosition + k - 1
    BY <1>1, <2>3
  <2> QED BY <2>2, <2>9, <2>10, <2>11
<1> QED BY <1>2, <1>3

(* A call moves the context on by its size.                                *)
LEMMA OfbMoves ==
  ASSUME OfbInv, NEW n \in Sizes, Ofb!AesOfbXor(n)
  PROVE  OfbInv' /\ OfbPosition' = OfbPosition + n
<1> DEFINE first == Ofb!FirstChunkSize(n)
           c == ofb_block
           ix == ofb_index
           R == Ofb!Rounds(n)
           last == Ofb!LastChunkSize(n)
<1>1. /\ B \in Nat \ {0} /\ n \in Nat /\ first \in 0 .. n /\ first <= B - ix
      /\ c * B \in Nat /\ c \in Nat /\ ix \in 0 .. B /\ R \in Nat
  BY OfbFirstChunk, OfbRounds DEF OfbInv, B
<1>2. /\ OfbPosition = c * B + ix /\ OfbPosition' = c' * B + ix'
      /\ ofb_IV' \in IVs
  BY DEF OfbPosition, B, Ofb!AesOfbXor, OfbInv
<1>3. IF last = B THEN c' = c + R + 1 /\ ix' = 0
                  ELSE c' = c + R /\ ix' = Ofb!IndexAfter(n)
  BY DEF Ofb!AesOfbXor, B
<1>4. CASE R = 0
  <2>1. last = first /\ first = n /\ Ofb!IndexAfter(n) = ix + first
    BY <1>4, OfbRounds DEF Ofb!LastChunkSize, Ofb!IndexAfter
  <2> HIDE DEF first, c, ix, R, last
  <2>2. (c + 1) * B = c * B + B
    BY <1>1
  <2>3. c' \in Nat /\ ix' \in 0 .. B /\ c' * B + ix' = c * B + ix + n
    BY <1>1, <1>3, <1>4, <2>1, <2>2
  <2> QED BY <1>2, <2>3 DEF OfbInv, B, c, ix
<1>5. CASE R > 0
  <2>1. /\ first = B - ix /\ last \in 1 .. B /\ n = first + (R - 1) * B + last
        /\ Ofb!IndexAfter(n) = last
    BY <1>5, OfbRounds DEF Ofb!IndexAfter
  <2> HIDE DEF first, c, ix, R, last
  <2>2. /\ (c + R) * B = c * B + R * B /\ (c + R + 1) * B = c * B + R * B + B
        /\ (R - 1) * B = R * B - B /\ R * B \in Nat
    BY <1>1
  <2>3. c' \in Nat /\ ix' \in 0 .. B /\ c' * B + ix' = c * B + ix + n
    BY <1>1, <1>3, <1>5, <2>1, <2>2
  <2> QED BY <1>2, <2>3 DEF OfbInv, B, c, ix
<1> QED BY <1>1, <1>4, <1>5

(* No call takes the index out of its block.                               *)
LEMMA OfbKeeps == OfbInv /\ [Ofb!Next]_(Ofb!vars) => OfbInv'
<1> SUFFICES ASSUME OfbInv, [Ofb!Next]_(Ofb!vars) PROVE OfbInv' OBVIOUS
<1>1. ASSUME NEW to \in IVs, Ofb!AesOfbInitialise(to) PROVE OfbInv'
  BY <1>1, BlockAssumption DEF Ofb!AesOfbInitialise, OfbInv
<1>2. ASSUME NEW n \in Sizes, Ofb!AesOfbXor(n) PROVE OfbInv'
  BY <1>2, OfbMoves
<1>3. CASE UNCHANGED Ofb!vars
  BY <1>3 DEF Ofb!vars, OfbInv
<1> QED BY <1>1, <1>2, <1>3 DEF Ofb!Next

(* Each call is a step of the key stream.                                  *)
LEMMA OfbFollows ==
  OfbInv /\ [Ofb!Next]_(Ofb!vars) => [Ofb!Stream!Next]_(Ofb!Stream!vars)
<1> SUFFICES ASSUME OfbInv, [Ofb!Next]_(Ofb!vars)
             PROVE  [Ofb!Stream!Next]_(Ofb!Stream!vars)
  OBVIOUS
<1>1. ASSUME NEW to \in IVs, Ofb!AesOfbInitialise(to) PROVE Ofb!Stream!Next
  <2>1. 0 * AES_BLOCK_SIZE + 0 = 0
    BY BlockAssumption
  <2> QED BY <1>1, <2>1 DEF Ofb!AesOfbInitialise, Ofb!Stream!Next,
                            Ofb!Stream!Restart
<1>2. ASSUME NEW n \in Sizes, Ofb!AesOfbXor(n) PROVE Ofb!Stream!Next
  <2>1. ofb_out' = [k \in 1 .. n |-> <<ofb_IV, OfbPosition + k - 1>>]
    BY <1>2, OfbBytes DEF Ofb!AesOfbXor
  <2>2. OfbPosition' = OfbPosition + n /\ UNCHANGED ofb_IV
    BY <1>2, OfbMoves DEF Ofb!AesOfbXor
  <2>3. Ofb!Stream!Take(n)
    BY <2>1, <2>2 DEF Ofb!Stream!Take, OfbPosition
  <2> QED BY <2>3 DEF Ofb!Stream!Next
<1>3. CASE UNCHANGED Ofb!vars
  BY <1>3 DEF Ofb!vars, Ofb!Stream!vars
<1> QED BY <1>1, <1>2, <1>3 DEF Ofb!Next

(* A context starts at the start of the stream.                            *)
LEMMA OfbStarts == Ofb!Init => OfbInv /\ Ofb!Stream!Init
<1> SUFFICES ASSUME Ofb!Init PROVE OfbInv /\ Ofb!Stream!Init OBVIOUS
<1>1. 0 * AES_BLOCK_SIZE + 0 = 0
  BY BlockAssumption
<1> QED BY <1>1, BlockAssumption DEF Ofb!Init, OfbInv, Ofb!Stream!Init

(* The buffer of a call has a byte for each place in it.                   *)
OfbTyped == OfbInv /\ DOMAIN ofb_out = 1 .. Len(ofb_out)

(* It is as the calls expect it.                                           *)
LEMMA OfbIsTyped == OfbTyped => Ofb!TypeOK
BY DEF OfbTyped, OfbInv, Ofb!TypeOK

(* So it is at first.                                                      *)
LEMMA OfbTypedStarts == Ofb!Init => OfbTyped
BY OfbStarts DEF Ofb!Init, OfbTyped

(* And every call keeps it so.                                             *)
LEMMA OfbTypedKeeps ==
  ASSUME OfbTyped, [Ofb!Next]_(Ofb!vars)
  PROVE  OfbTyped'
<1>1. OfbInv'
  BY OfbKeeps DEF OfbTyped
<1>2. ASSUME NEW to \in IVs, Ofb!AesOfbInitialise(to)
      PROVE  (DOMAIN ofb_out = 1 .. Len(ofb_out))'
  BY <1>2 DEF Ofb!AesOfbInitialise
<1>3. ASSUME NEW n \in Sizes, Ofb!AesOfbXor(n)
      PROVE  (DOMAIN ofb_out = 1 .. Len(ofb_out))'
  <2>1. n \in Nat
    BY BlockAssumption
  <2> QED BY <1>3, <2>1 DEF Ofb!AesOfbXor
<1>4. ASSUME UNCHANGED Ofb!vars
      PROVE  (DOMAIN ofb_out = 1 .. Len(ofb_out))'
  <2>1. ofb_out' = ofb_out
    BY <1>4 DEF Ofb!vars
  <2>2. DOMAIN ofb_out = 1 .. Len(ofb_out)
    BY DEF OfbTyped
  <2> QED BY <2>1, <2>2
<1>5. (DOMAIN ofb_out = 1 .. Len(ofb_out))'
  BY <1>2, <1>3, <1>4 DEF Ofb!Next
<1> QED BY <1>1, <1>5 DEF OfbTyped

-----------------------------------------------------------------------------
(* The parts side by side: a step of the library is a step of one of them  *)
(* and leaves the others alone.                                            *)

(* All parts start in their initial states.                                *)
LEMMA EachStarts ==
  LibraryInit =>
    /\ Init /\ Ctr!Init /\ Ofb!Init
    /\ H!Init /\ M!Init /\ S!Init
BY DEF LibraryInit

(* For each part, a step of the library is a step or a stutter.            *)
LEMMA EachStep ==
  [LibraryNext]_<<algorithm, vars, ctr, ofb, sha2, md5, sha1>> =>
    /\ [Next]_vars /\ [Ctr!Next]_(Ctr!vars) /\ [Ofb!Next]_(Ofb!vars)
    /\ [H!Next]_(H!vars) /\ [M!Next]_(M!vars) /\ [S!Next]_(S!vars)
<1> SUFFICES ASSUME [LibraryNext]_
                      <<algorithm, vars, ctr, ofb, sha2, md5, sha1>>
             PROVE  /\ [Next]_vars /\ [Ctr!Next]_(Ctr!vars)
                    /\ [Ofb!Next]_(Ofb!vars) /\ [H!Next]_(H!vars)
                    /\ [M!Next]_(M!vars) /\ [S!Next]_(S!vars)
  OBVIOUS
<1>1. /\ ctr = Ctr!vars /\ ofb = Ofb!vars
      /\ sha2 = H!vars /\ md5 = M!vars /\ sha1 = S!vars
  BY DEF ctr, ofb, sha2, md5, sha1, Ctr!vars, Ofb!vars, H!vars, M!vars, S!vars
<1>2. /\ UNCHANGED ctr => UNCHANGED Ctr!vars
      /\ UNCHANGED ofb => UNCHANGED Ofb!vars
      /\ UNCHANGED sha2 => UNCHANGED H!vars
      /\ UNCHANGED md5 => UNCHANGED M!vars
      /\ UNCHANGED sha1 => UNCHANGED S!vars
  BY DEF ctr, ofb, sha2, md5, sha1, Ctr!vars, Ofb!vars, H!vars, M!vars, S!vars
<1>3. CASE LibraryNext
  BY <1>2, <1>3, Zenon DEF LibraryNext
<1>4. CASE UNCHANGED <<algorithm, vars, ctr, ofb, sha2, md5, sha1>>
  BY <1>2, <1>4
<1> QED BY <1>3, <1>4

-----------------------------------------------------------------------------
(* No index of a stream mode or block of a chaining call leaves its range, *)
(* and no hash is left with a full buffer or with a word its carry does    *)
(* not expect (AesOfb.c:170-174, AesCbc.c:141, Sha256.c:188-191, 234-237,  *)
(* Md5.c:222, Sha1.c:192).                                                 *)
THEOREM LibraryIsTyped == LibrarySpec => []ContextsTyped
<1> DEFINE Inv == /\ IInv /\ CtrTyped /\ OfbTyped
                  /\ Sha2Inv /\ Md5Inv /\ Sha1Inv
<1>1. LibraryInit => Inv
  BY EachStarts, Initially, CtrTypedStarts, OfbTypedStarts, Sha2Starts,
     Md5Starts, Sha1Starts
<1>2. Inv /\ [LibraryNext]_<<algorithm, vars, ctr, ofb, sha2, md5, sha1>>
        => Inv'
  BY EachStep, Inductive, CtrTypedKeeps, OfbTypedKeeps, Sha2Step, Md5Step,
     Sha1Step
<1>3. Inv => ContextsTyped
  BY CtrIsTyped, OfbIsTyped, Sha2Places, Md5Places, Sha1Places
     DEF ContextsTyped, IInv
<1> HIDE DEF Inv
<1> QED BY <1>1, <1>2, <1>3, PTL DEF LibrarySpec

(* Each byte of a message is hashed, in the buffer or still to be taken,   *)
(* and counted (Md5.c:221-252, Sha1.c:190-213, 243, Sha256.c:193-216).     *)
THEOREM EveryByteIsKept == LibrarySpec => []EveryByteKept
<1> DEFINE Inv == Sha2Inv /\ Md5Inv /\ Sha1Inv
<1>1. LibraryInit => Inv
  BY EachStarts, Sha2Starts, Md5Starts, Sha1Starts
<1>2. Inv /\ [LibraryNext]_<<algorithm, vars, ctr, ofb, sha2, md5, sha1>>
        => Inv'
  BY EachStep, Sha2Step, Md5Step, Sha1Step
<1>3. Inv => EveryByteKept
  BY Sha2Places, Md5Places, Sha1Places DEF EveryByteKept
<1> HIDE DEF Inv
<1> QED BY <1>1, <1>2, <1>3, PTL DEF LibrarySpec

(* However a message is cut into pieces, the digest is that of the message *)
(* with its padding (Md5.c:209-315, Sha1.c:179-248, Sha256.c:178-266).     *)
THEOREM DigestsAreKept == LibrarySpec => DigestsKept
<1> DEFINE Inv == Sha2Inv /\ Md5Inv /\ Sha1Inv
           Starts == H!Hash!Init /\ M!Hash!Init /\ S!Hash!Init
           H2 == [H!Hash!Next]_(H!Hash!vars)
           M5 == [M!Hash!Next]_(M!Hash!vars)
           S1 == [S!Hash!Next]_(S!Hash!vars)
<1>1. LibraryInit => Inv /\ Starts
  BY EachStarts, Sha2Starts, Md5Starts, Sha1Starts
<1>2. Inv /\ [LibraryNext]_<<algorithm, vars, ctr, ofb, sha2, md5, sha1>>
        => Inv' /\ H2 /\ M5 /\ S1
  BY EachStep, Sha2Step, Md5Step, Sha1Step
<1> HIDE DEF Inv
<1> QED BY <1>1, <1>2, PTL
        DEF LibrarySpec, DigestsKept, H!HashKept, M!HashKept, S!HashKept,
            H!Hash!Spec, M!Hash!Spec, S!Hash!Spec

(* Whatever the calls a message is cut into, the stream modes use the      *)
(* bytes of their key streams one each and in order; the counter mode if   *)
(* its callers seek after a call that stops inside a block and pass no     *)
(* size within a block of the modulus (AesOfb.c:120-175,                   *)
(* AesCtr.c:148-248).                                                      *)
THEOREM StreamsAreKept ==
  ASSUME NoWrap, Careful
  PROVE  LibrarySpec => StreamsKept
<1> DEFINE Inv == CtrInv /\ OfbInv
<1>1. LibraryInit => Inv /\ Ctr!Stream!Init /\ Ofb!Stream!Init
  BY EachStarts, CtrStarts, OfbStarts
<1>2. Inv /\ [LibraryNext]_<<algorithm, vars, ctr, ofb, sha2, md5, sha1>>
        => /\ Inv'
           /\ [Ctr!Stream!Next]_(Ctr!Stream!vars)
           /\ [Ofb!Stream!Next]_(Ofb!Stream!vars)
  BY EachStep, CtrKeeps, CtrFollows, OfbKeeps, OfbFollows
<1> HIDE DEF Inv
<1> QED BY <1>1, <1>2, PTL
        DEF LibrarySpec, StreamsKept, Ctr!StreamKept, Ofb!StreamKept,
            Ctr!Stream!Spec, Ofb!Stream!Spec

(* Output feedback asks nothing of its callers, nor of their sizes.        *)
THEOREM OfbCallsFollowTheStream == LibrarySpec => Ofb!StreamKept
<1>1. LibraryInit => OfbInv /\ Ofb!Stream!Init
  BY EachStarts, OfbStarts
<1>2. OfbInv /\ [LibraryNext]_<<algorithm, vars, ctr, ofb, sha2, md5, sha1>>
        => OfbInv' /\ [Ofb!Stream!Next]_(Ofb!Stream!vars)
  BY EachStep, OfbKeeps, OfbFollows
<1> QED BY <1>1, <1>2, PTL DEF LibrarySpec, Ofb!StreamKept, Ofb!Stream!Spec
=============================================================================
