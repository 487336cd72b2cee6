---------------------------- MODULE BufferProofs ----------------------------
(***************************************************************************)
(* muduo::net::Buffer implements a byte queue, for any sizes and any       *)
(* bytes: the indices stay in order inside the vector, and no byte is      *)
(* lost, repeated or overwritten.  On top of it, the protobuf codec takes  *)
(* the messages out of the stream in the order they were sent.             *)
(***************************************************************************)
EXTENDS BufferQueue, ProtobufCodec, SequenceTheorems, TLAPS

BufferType(X) == [data : Seq(X), reader : Nat, writer : Nat, decrypt : 0..(SizeModulus - 1)]

(* The layout of a Buffer: BufTypeOK, of any buffer and any set of bytes. *)
Sound(b, X) == /\ b \in BufferType(X)
               /\ b.reader <= b.writer
               /\ b.writer <= Len(b.data)
               /\ kCheapPrepend <= Len(b.data)

-----------------------------------------------------------------------------
(* Arithmetic modulo the size of a size_t. *)
LEMMA ModType ==
    ASSUME NEW n \in Int
    PROVE  n % SizeModulus \in 0..(SizeModulus - 1)
<1>1. SizeModulus \in Nat \ {0}
    BY BufferAssumption
<1> QED BY <1>1

(* A function on an interval with bytes as values is a sequence of bytes. *)
LEMMA BytesAreSeq ==
    ASSUME NEW X, NEW n \in Nat, NEW f, f \in [1..n -> X]
    PROVE  f \in Seq(X) /\ Len(f) = n
    OBVIOUS

(* The fields of a Buffer after an assignment to them. *)
Assigns(c, b, d, r, w, e) == c = [b EXCEPT !.data = d, !.reader = r, !.writer = w, !.decrypt = e]

(* They are of the types they had. *)
LEMMA Assigned ==
    ASSUME NEW X, NEW b \in BufferType(X), NEW d \in Seq(X), NEW r \in Nat, NEW w \in Nat,
           NEW e \in 0..(SizeModulus - 1), NEW c, Assigns(c, b, d, r, w, e)
    PROVE  c \in BufferType(X) /\ c.data = d /\ c.reader = r /\ c.writer = w /\ c.decrypt = e
BY DEF BufferType, Assigns

(* What memcpy does. *)
LEMMA CopyToBytes ==
    ASSUME NEW X, NEW memory \in Seq(X), NEW at \in Nat, NEW bytes \in Seq(X)
    PROVE  /\ CopyTo(memory, at, bytes) \in Seq(X)
           /\ Len(CopyTo(memory, at, bytes)) = Len(memory)
           /\ \A i \in 1..Len(memory) :
                 CopyTo(memory, at, bytes)[i] =
                    IF at < i /\ i <= at + Len(bytes) THEN bytes[i - at] ELSE memory[i]
<1> DEFINE f == CopyTo(memory, at, bytes)
<1>1. f = [i \in 1..Len(memory) |->
              IF at < i /\ i <= at + Len(bytes) THEN bytes[i - at] ELSE memory[i]]
    BY DEF CopyTo
<1>2. ASSUME NEW i \in 1..Len(memory)
      PROVE  (IF at < i /\ i <= at + Len(bytes) THEN bytes[i - at] ELSE memory[i]) \in X
    <2>1. at < i /\ i <= at + Len(bytes) => i - at \in 1..Len(bytes)
        OBVIOUS
    <2> QED BY <2>1
<1>3. f \in [1..Len(memory) -> X]
    BY <1>1, <1>2
<1>4. Len(memory) \in Nat
    OBVIOUS
<1> QED BY <1>1, <1>3, <1>4, BytesAreSeq

(* A part of a sequence of bytes. *)
LEMMA Part ==
    ASSUME NEW X, NEW s \in Seq(X), NEW m \in Nat, NEW n \in Nat, m <= n, n <= Len(s)
    PROVE  /\ SubSeq(s, m + 1, n) \in Seq(X)
           /\ Len(SubSeq(s, m + 1, n)) = n - m
           /\ \A i \in 1..(n - m) : SubSeq(s, m + 1, n)[i] = s[m + i]
<1>1. \A i \in (m + 1)..n : s[i] \in X
    OBVIOUS
<1>2. m + 1 \in Int /\ n \in Int
    OBVIOUS
<1>3. /\ SubSeq(s, m + 1, n) \in Seq(X)
      /\ Len(SubSeq(s, m + 1, n)) = IF m + 1 <= n THEN n - (m + 1) + 1 ELSE 0
      /\ \A i \in 1..(n - (m + 1) + 1) : SubSeq(s, m + 1, n)[i] = s[m + 1 + i - 1]
    BY <1>1, <1>2, SubSeqProperties
<1>4. n - (m + 1) + 1 = n - m /\ \A i \in Int : m + 1 + i - 1 = m + i
    OBVIOUS
<1> QED BY <1>3, <1>4

(* One sequence of bytes after another. *)
LEMMA Joined ==
    ASSUME NEW X, NEW s \in Seq(X), NEW t \in Seq(X)
    PROVE  /\ s \o t \in Seq(X)
           /\ Len(s \o t) = Len(s) + Len(t)
           /\ \A i \in 1..(Len(s) + Len(t)) :
                 (s \o t)[i] = IF i <= Len(s) THEN s[i] ELSE t[i - Len(s)]
BY ConcatProperties

(* The bytes behind index m up to index n. *)
Piece(s, m, n) == SubSeq(s, m + 1, n)

(* There is room for bytes behind index at of memory, between r and w. *)
Fits(memory, bytes, r, at, w, X) ==
    /\ memory \in Seq(X) /\ bytes \in Seq(X)
    /\ r \in Nat /\ at \in Nat /\ w \in Nat
    /\ r <= at /\ at + Len(bytes) <= w /\ w <= Len(memory)

(* The bytes that are copied are between what is in front of them and what *)
(* is behind.                                                              *)
Between(memory, bytes, r, at, w) ==
    Piece(CopyTo(memory, at, bytes), r, w) =
        Piece(memory, r, at) \o bytes \o Piece(memory, at + Len(bytes), w)

(* So it is wherever they fit. *)
LEMMA CopiedBetween ==
    ASSUME NEW X, NEW memory, NEW bytes, NEW r, NEW at, NEW w, Fits(memory, bytes, r, at, w, X)
    PROVE  Between(memory, bytes, r, at, w)
<1>0. /\ memory \in Seq(X) /\ bytes \in Seq(X)
      /\ r \in Nat /\ at \in Nat /\ w \in Nat
      /\ r <= at /\ at + Len(bytes) <= w /\ w <= Len(memory)
    BY DEF Fits
<1> DEFINE d == CopyTo(memory, at, bytes)
           n == Len(bytes)
           x == SubSeq(d, r + 1, w)
           front == SubSeq(memory, r + 1, at)
           back == SubSeq(memory, at + n + 1, w)
<1>1. n \in Nat /\ Len(memory) \in Nat /\ at + n \in Nat
    BY <1>0
<1>2. /\ d \in Seq(X) /\ Len(d) = Len(memory)
      /\ \A i \in 1..Len(memory) : d[i] = IF at < i /\ i <= at + n THEN bytes[i - at] ELSE memory[i]
    BY <1>0, CopyToBytes
<1> USE <1>0
<1> HIDE DEF d, n
<1>3. /\ x \in Seq(X) /\ Len(x) = w - r
      /\ \A i \in 1..(w - r) : x[i] = d[r + i]
    <2>1. r <= w /\ w <= Len(d)
        BY <1>1, <1>2 DEF n
    <2> QED BY <2>1, <1>2, Part
<1>4. /\ front \in Seq(X) /\ Len(front) = at - r
      /\ \A i \in 1..(at - r) : front[i] = memory[r + i]
    <2>1. r <= at /\ at <= Len(memory)
        BY <1>1 DEF n
    <2> QED BY <2>1, Part
<1>5. /\ back \in Seq(X) /\ Len(back) = w - (at + n)
      /\ \A i \in 1..(w - (at + n)) : back[i] = memory[at + n + i]
    <2>1. at + n <= w /\ w <= Len(memory)
        BY <1>1 DEF n
    <2> QED BY <2>1, <1>1, Part
<1> DEFINE y == front \o bytes
           z == y \o back
<1> HIDE DEF x, front, back
<1>6. /\ y \in Seq(X) /\ Len(y) = (at - r) + n
      /\ \A i \in 1..((at - r) + n) : y[i] = IF i <= at - r THEN front[i] ELSE bytes[i - (at - r)]
    <2>1. bytes \in Seq(X) /\ Len(bytes) = n
        BY DEF n
    <2>2. /\ y \in Seq(X) /\ Len(y) = Len(front) + Len(bytes)
          /\ \A i \in 1..(Len(front) + Len(bytes)) :
                y[i] = IF i <= Len(front) THEN front[i] ELSE bytes[i - Len(front)]
        BY <1>4, <2>1, Joined, Zenon
    <2> QED BY <1>4, <2>1, <2>2, Zenon
<1> HIDE DEF y
<1>7. /\ z \in Seq(X) /\ Len(z) = ((at - r) + n) + (w - (at + n))
      /\ \A i \in 1..Len(z) : z[i] = IF i <= (at - r) + n THEN y[i] ELSE back[i - ((at - r) + n)]
    <2>1. /\ z \in Seq(X) /\ Len(z) = Len(y) + Len(back)
          /\ \A i \in 1..(Len(y) + Len(back)) :
                z[i] = IF i <= Len(y) THEN y[i] ELSE back[i - Len(y)]
        BY <1>5, <1>6, Joined, Zenon
    <2> QED BY <1>5, <1>6, <2>1, Zenon
<1> HIDE DEF z
<1>8. Len(z) = w - r
    BY <1>7, <1>1
<1>9. ASSUME NEW i \in 1..(w - r) PROVE x[i] = z[i]
    <2>1. i \in Nat /\ i \in 1..Len(z) /\ r + i \in 1..Len(memory) /\ x[i] = d[r + i]
        <3>1. i \in Nat /\ r + i \in 1..Len(memory)
            BY <1>1
        <3>2. i \in 1..Len(z)
            BY <1>8
        <3>3. x[i] = d[r + i]
            BY <1>3, Zenon
        <3> QED BY <3>1, <3>2, <3>3
    <2>2. d[r + i] = IF at < r + i /\ r + i <= at + n THEN bytes[r + i - at] ELSE memory[r + i]
        BY <1>2, <2>1
    <2>3. CASE i <= at - r
        <3>1. ~(at < r + i) /\ i <= (at - r) + n /\ i \in 1..(at - r) /\ i \in 1..((at - r) + n)
            BY <2>1, <2>3, <1>1
        <3>2. z[i] = memory[r + i]
            BY <3>1, <2>1, <2>3, <1>4, <1>6, <1>7
        <3> QED BY <3>1, <3>2, <2>1, <2>2
    <2>4. CASE i > at - r /\ i <= (at - r) + n
        <3>1. at < r + i /\ r + i <= at + n /\ r + i - at = i - (at - r) /\ i \in 1..((at - r) + n)
              /\ ~(i <= at - r)
            BY <2>1, <2>4, <1>1
        <3>2. z[i] = bytes[i - (at - r)]
            BY <3>1, <2>1, <2>4, <1>6, <1>7
        <3>3. d[r + i] = bytes[i - (at - r)]
            BY <3>1, <2>2
        <3> QED BY <3>2, <3>3, <2>1
    <2>5. CASE i > (at - r) + n
        <3> DEFINE q == i - ((at - r) + n)
        <3>0. q \in Int /\ q >= 1 /\ q <= w - (at + n) /\ at + n + q = r + i
            BY <2>1, <2>5, <1>1
        <3>1. ~(r + i <= at + n) /\ ~(i <= (at - r) + n) /\ q \in 1..(w - (at + n))
            BY <2>1, <2>5, <1>1, <3>0
        <3>2. z[i] = back[q]
            BY <3>1, <2>1, <1>7
        <3>3. back[q] = memory[r + i]
            <4> HIDE DEF q
            <4> QED BY <3>0, <3>1, <1>5
        <3> QED BY <3>1, <3>2, <3>3, <2>1, <2>2
    <2> QED BY <2>1, <2>3, <2>4, <2>5, <1>1
<1>10. x = z
    BY <1>3, <1>7, <1>8, <1>9, SeqEqual
<1> QED BY <1>10, Zenon DEF x, z, y, front, back, d, n, Piece, Between

(* An empty part. *)
LEMMA NoPart ==
    ASSUME NEW X, NEW s \in Seq(X), NEW n \in Nat
    PROVE  SubSeq(s, n + 1, n) = <<>>
BY SubSeqEmpty

(* The empty sequence is neutral. *)
LEMMA Neutral ==
    ASSUME NEW X, NEW s \in Seq(X)
    PROVE  <<>> \o s = s /\ s \o <<>> = s
BY ConcatEmptySeq

(* The content, byte by byte. *)
LEMMA ReadableBytes ==
    ASSUME NEW X, NEW b, Sound(b, X)
    PROVE  /\ Readable(b) \in Seq(X)
           /\ Len(Readable(b)) = readableBytes(b)
           /\ readableBytes(b) \in Nat
           /\ \A i \in 1..readableBytes(b) : Readable(b)[i] = b.data[b.reader + i]
<1>1. b.data \in Seq(X) /\ b.reader \in Nat /\ b.writer \in Nat
      /\ b.reader <= b.writer /\ b.writer <= Len(b.data)
    BY DEF Sound, BufferType
<1> DEFINE s == b.data
           m == b.reader
           n == b.writer
<1>2. s \in Seq(X) /\ m \in Nat /\ n \in Nat /\ m <= n /\ n <= Len(s)
    BY <1>1
<1>3. Readable(b) = SubSeq(s, m + 1, n) /\ readableBytes(b) = n - m
    BY DEF Readable, readableBytes
<1> HIDE DEF s, m, n
<1>4. /\ SubSeq(s, m + 1, n) \in Seq(X)
      /\ Len(SubSeq(s, m + 1, n)) = n - m
      /\ \A i \in 1..(n - m) : SubSeq(s, m + 1, n)[i] = s[m + i]
    BY <1>2, Part
<1>5. n - m \in Nat
    BY <1>2
<1> QED BY <1>3, <1>4, <1>5 DEF s, m

(* Two buffers with the same bytes have the same content. *)
LEMMA SameContent ==
    ASSUME NEW X, NEW b, NEW c, Sound(b, X), Sound(c, X), readableBytes(c) = readableBytes(b),
           \A i \in 1..readableBytes(b) : c.data[c.reader + i] = b.data[b.reader + i]
    PROVE  Readable(c) = Readable(b)
<1>1. \A i \in 1..Len(Readable(b)) : Readable(c)[i] = Readable(b)[i]
    BY ReadableBytes
<1> QED BY <1>1, ReadableBytes, SeqEqual

-----------------------------------------------------------------------------
(* makeSpace, whether it grows the vector or moves the content: there is   *)
(* room, and the content is what it was.                                   *)
LEMMA EnsureContent ==
    ASSUME NEW X, Zero \in X, NEW b, Sound(b, X), NEW len \in Nat
    PROVE  LET c == ensureWritableBytes(b, len)
           IN Sound(c, X) /\ Readable(c) = Readable(b) /\ writableBytes(c) >= len
<1> DEFINE c == ensureWritableBytes(b, len)
<1>0. /\ b.data \in Seq(X) /\ b.reader \in Nat /\ b.writer \in Nat
      /\ b.reader <= b.writer /\ b.writer <= Len(b.data) /\ kCheapPrepend <= Len(b.data)
      /\ kCheapPrepend \in Nat /\ Zero \in X /\ Len(b.data) \in Nat
      /\ b.decrypt \in 0..(SizeModulus - 1) /\ SizeModulus \in Nat
      /\ b \in BufferType(X)
    BY BufferAssumption DEF Sound, BufferType
<1>1. CASE writableBytes(b) >= len
    <2>1. c = b
        BY <1>1, <1>0 DEF ensureWritableBytes, writableBytes
    <2> QED BY <2>1, <1>1
<1>2. CASE writableBytes(b) < len /\ writableBytes(b) + prependableBytes(b) < len + kCheapPrepend
    <2> DEFINE d == [i \in 1..(b.writer + len) |-> IF i <= Len(b.data) THEN b.data[i] ELSE Zero]
    <2>1. c = [b EXCEPT !.data = d]
        BY <1>2 DEF ensureWritableBytes, makeSpace
    <2>2. d \in Seq(X) /\ Len(d) = b.writer + len
        <3>1. d \in [1..(b.writer + len) -> X]
            BY <1>0
        <3>2. b.writer + len \in Nat
            BY <1>0
        <3> HIDE DEF d
        <3> QED BY <3>1, <3>2, BytesAreSeq
    <2>3. \A i \in 1..b.writer : d[i] = b.data[i]
        BY <1>0
    <2> HIDE DEF d
    <2>4. c.data = d /\ c.reader = b.reader /\ c.writer = b.writer /\ c \in BufferType(X)
        BY <2>1, <2>2, <1>0 DEF BufferType
    <2>5. Sound(c, X) /\ writableBytes(c) >= len /\ readableBytes(c) = readableBytes(b)
        BY <2>4, <2>2, <1>0, <1>2 DEF Sound, writableBytes, readableBytes
    <2>6. \A i \in 1..readableBytes(b) : c.data[c.reader + i] = b.data[b.reader + i]
        BY <2>3, <2>4, <1>0, SMTT(30) DEF readableBytes
    <2> HIDE DEF c
    <2>7. Readable(c) = Readable(b)
        BY <2>5, <2>6, SameContent
    <2> QED BY <2>5, <2>7 DEF c
<1>3. CASE writableBytes(b) < len /\ writableBytes(b) + prependableBytes(b) >= len + kCheapPrepend
    <2> DEFINE q == Readable(b)
               d == CopyTo(b.data, kCheapPrepend, q)
               w == kCheapPrepend + readableBytes(b)
               e == (kCheapPrepend + decryptedBytes(b)) % SizeModulus
    <2>1. c = [b EXCEPT !.data = d, !.reader = kCheapPrepend, !.writer = w, !.decrypt = e]
        <3>1. /\ writableBytes(b) < len
              /\ ~(writableBytes(b) + prependableBytes(b) < len + kCheapPrepend)
            BY <1>3, <1>0 DEF writableBytes, prependableBytes
        <3> QED BY <3>1 DEF ensureWritableBytes, makeSpace
    <2>2. q \in Seq(X) /\ Len(q) = readableBytes(b) /\ readableBytes(b) \in Nat
        BY ReadableBytes
    <2>3. w \in Nat /\ w = kCheapPrepend + Len(q) /\ w + len <= Len(b.data)
        BY <2>2, <1>3, <1>0 DEF writableBytes, prependableBytes, readableBytes
    <2>4. d \in Seq(X) /\ Len(d) = Len(b.data)
        BY <2>2, <1>0, CopyToBytes
    <2>5. e \in 0..(SizeModulus - 1)
        <3>1. b.decrypt - b.reader \in Int
            BY <1>0
        <3>2. decryptedBytes(b) \in 0..(SizeModulus - 1)
            BY <3>1, ModType DEF decryptedBytes
        <3>3. kCheapPrepend + decryptedBytes(b) \in Int
            BY <3>2, <1>0
        <3> QED BY <3>3, ModType
    <2>6. SubSeq(d, kCheapPrepend + 1, w) = q
        <3>1. SubSeq(d, kCheapPrepend + 1, w) =
                 SubSeq(b.data, kCheapPrepend + 1, kCheapPrepend) \o q
                    \o SubSeq(b.data, kCheapPrepend + Len(q) + 1, w)
            <4> DEFINE s == b.data
            <4>1. /\ kCheapPrepend <= kCheapPrepend /\ kCheapPrepend + Len(q) <= w /\ w <= Len(s)
                  /\ s \in Seq(X) /\ kCheapPrepend \in Nat
                BY <2>3, <1>0
            <4> HIDE DEF q, w, s
            <4>2. Between(s, q, kCheapPrepend, kCheapPrepend, w)
                BY <4>1, <2>2, <2>3, CopiedBetween DEF Fits
            <4> QED BY <4>2, Zenon DEF s, Piece, d, Between
        <3>2. /\ SubSeq(b.data, kCheapPrepend + 1, kCheapPrepend) = <<>>
              /\ SubSeq(b.data, kCheapPrepend + Len(q) + 1, w) = <<>>
            <4> HIDE DEF q, w
            <4> QED BY <2>3, <1>0, NoPart
        <3> HIDE DEF q, d, w
        <3> QED BY <3>1, <3>2, <2>2, Neutral
    <2> HIDE DEF q, d, w, e
    <2>7. c.data = d /\ c.reader = kCheapPrepend /\ c.writer = w /\ c \in BufferType(X)
        <3> HIDE DEF c
        <3>1. b \in BufferType(X) /\ kCheapPrepend \in Nat /\ w \in Nat
            BY <2>3, <1>0
        <3>2. Assigns(c, b, d, kCheapPrepend, w, e)
            BY <2>1, Zenon DEF Assigns
        <3> QED BY <3>1, <3>2, <2>4, <2>5, Assigned
    <2> HIDE DEF c
    <2>8. Sound(c, X) /\ writableBytes(c) >= len
        BY <2>3, <2>4, <2>7, <1>0, <2>2 DEF Sound, writableBytes
    <2>9. Readable(c) = Readable(b)
        BY <2>6, <2>7 DEF Readable, q
    <2> QED BY <2>8, <2>9 DEF c
<1>4. writableBytes(b) \in Int /\ prependableBytes(b) \in Int
    BY <1>0 DEF writableBytes, prependableBytes
<1> QED BY <1>1, <1>2, <1>3, <1>4, <1>0

(* Bytes written to the room behind the content are appended to it. *)
LEMMA WrittenContent ==
    ASSUME NEW X, NEW b, Sound(b, X), NEW bytes \in Seq(X), Len(bytes) <= writableBytes(b)
    PROVE  LET c == hasWritten([b EXCEPT !.data = CopyTo(@, b.writer, bytes)], Len(bytes))
           IN Sound(c, X) /\ Readable(c) = Readable(b) \o bytes /\ c.writer = b.writer + Len(bytes)
<1> DEFINE d == CopyTo(b.data, b.writer, bytes)
           w == b.writer + Len(bytes)
           c == hasWritten([b EXCEPT !.data = CopyTo(@, b.writer, bytes)], Len(bytes))
<1>0. /\ b.data \in Seq(X) /\ b.reader \in Nat /\ b.writer \in Nat
      /\ b.reader <= b.writer /\ b.writer <= Len(b.data) /\ kCheapPrepend <= Len(b.data)
      /\ kCheapPrepend \in Nat /\ Len(b.data) \in Nat /\ Len(bytes) \in Nat
      /\ b \in BufferType(X)
    BY BufferAssumption DEF Sound, BufferType
<1>1. w \in Nat /\ w <= Len(b.data) /\ b.writer <= w
    BY <1>0 DEF writableBytes
<1>2. d \in Seq(X) /\ Len(d) = Len(b.data)
    BY <1>0, CopyToBytes
<1>3. c = [[b EXCEPT !.data = d] EXCEPT !.writer = @ + Len(bytes)]
    BY DEF hasWritten
<1>4. SubSeq(d, b.reader + 1, w) =
         SubSeq(b.data, b.reader + 1, b.writer) \o bytes \o SubSeq(b.data, w + 1, w)
    <2> DEFINE s == b.data
               r == b.reader
               at == b.writer
    <2>1. /\ s \in Seq(X) /\ r \in Nat /\ at \in Nat /\ w \in Nat
          /\ r <= at /\ at + Len(bytes) <= w /\ w <= Len(s)
        BY <1>0, <1>1
    <2>2. w = at + Len(bytes)
        OBVIOUS
    <2> HIDE DEF s, r, at, w
    <2>3. Between(s, bytes, r, at, w)
        BY <2>1, CopiedBetween DEF Fits
    <2> QED BY <2>2, <2>3, Zenon DEF s, r, at, Piece, d, Between
<1> HIDE DEF d
<1>5. c.data = d /\ c.reader = b.reader /\ c.writer = w /\ c \in BufferType(X)
    <2>1. c = [b EXCEPT !.data = d, !.writer = w]
        BY <1>3, <1>0 DEF BufferType
    <2> QED BY <2>1, <1>1, <1>2, <1>0 DEF BufferType
<1> HIDE DEF c
<1>6. Sound(c, X)
    BY <1>5, <1>2, <1>1, <1>0 DEF Sound
<1>7. Readable(c) = Readable(b) \o bytes
    <2>1. SubSeq(b.data, w + 1, w) = <<>>
        BY <1>0, <1>1, NoPart
    <2>2. Readable(b) \o bytes \in Seq(X)
        BY ReadableBytes, ConcatProperties
    <2>3. Readable(c) = Readable(b) \o bytes \o <<>>
        BY <1>4, <1>5, <2>1 DEF Readable
    <2> QED BY <2>2, <2>3, Neutral
<1> QED BY <1>5, <1>6, <1>7 DEF c

(* append *)
LEMMA AppendContent ==
    ASSUME NEW X, Zero \in X, NEW b, Sound(b, X), NEW bytes \in Seq(X)
    PROVE  Sound(append(b, bytes), X) /\ Readable(append(b, bytes)) = Readable(b) \o bytes
<1> DEFINE c == ensureWritableBytes(b, Len(bytes))
<1>1. Sound(c, X) /\ Readable(c) = Readable(b) /\ Len(bytes) <= writableBytes(c)
    <2>1. Len(bytes) \in Nat
        OBVIOUS
    <2>2. Sound(c, X) /\ Readable(c) = Readable(b) /\ writableBytes(c) >= Len(bytes)
        BY <2>1, EnsureContent
    <2> QED BY <2>2
<1>2. append(b, bytes) = hasWritten([c EXCEPT !.data = CopyTo(@, c.writer, bytes)], Len(bytes))
    BY DEF append
<1> HIDE DEF c
<1> QED BY <1>1, <1>2, WrittenContent

(* A new Buffer is empty. *)
LEMMA NewContent ==
    ASSUME NEW X, Zero \in X
    PROVE  Sound(NewBuffer(kInitialSize), X) /\ Readable(NewBuffer(kInitialSize)) = <<>>
<1> DEFINE d == [i \in 1..(kCheapPrepend + kInitialSize) |-> Zero]
           c == NewBuffer(kInitialSize)
<1>1. /\ kCheapPrepend \in Nat /\ kInitialSize \in Nat /\ kCheapPrepend + kInitialSize \in Nat
      /\ kCheapPrepend \in 0..(SizeModulus - 1)
      /\ Zero \in X
    BY BufferAssumption
<1>2. d \in Seq(X) /\ Len(d) = kCheapPrepend + kInitialSize
    <2>1. d \in [1..(kCheapPrepend + kInitialSize) -> X]
        BY <1>1
    <2> HIDE DEF d
    <2> QED BY <2>1, <1>1, BytesAreSeq
<1>3. c = [data |-> d, reader |-> kCheapPrepend, writer |-> kCheapPrepend, decrypt |-> kCheapPrepend]
    BY DEF NewBuffer
<1> HIDE DEF c, d
<1>4. Sound(c, X) /\ c.data = d /\ c.reader = kCheapPrepend /\ c.writer = kCheapPrepend
    BY <1>1, <1>2, <1>3 DEF Sound, BufferType
<1>5. Readable(c) = <<>>
    BY <1>1, <1>2, <1>4, NoPart DEF Readable
<1> QED BY <1>4, <1>5 DEF c

(* shrink *)
LEMMA ShrinkContent ==
    ASSUME NEW X, Zero \in X, NEW b, Sound(b, X), NEW reserve \in Nat
    PROVE  Sound(shrink(b, reserve), X) /\ Readable(shrink(b, reserve)) = Readable(b)
<1> DEFINE n == readableBytes(b) + reserve
           c == ensureWritableBytes(NewBuffer(kInitialSize), n)
<1>1. n \in Nat /\ Readable(b) \in Seq(X)
    BY ReadableBytes
<1>2. Sound(c, X) /\ Readable(c) = <<>>
    <2> HIDE DEF n
    <2> QED BY <1>1, NewContent, EnsureContent
<1>3. shrink(b, reserve) = append(c, Readable(b))
    BY DEF shrink
<1> HIDE DEF c
<1>4. Sound(append(c, Readable(b)), X) /\ Readable(append(c, Readable(b))) = Readable(c) \o Readable(b)
    BY <1>1, <1>2, AppendContent
<1> QED BY <1>1, <1>2, <1>3, <1>4, Neutral

(* retrieveAll *)
LEMMA RetrieveAllContent ==
    ASSUME NEW X, NEW b, Sound(b, X)
    PROVE  Sound(retrieveAll(b), X) /\ Readable(retrieveAll(b)) = <<>>
<1> DEFINE c == retrieveAll(b)
<1>1. /\ b \in BufferType(X) /\ b.data \in Seq(X) /\ kCheapPrepend <= Len(b.data)
      /\ kCheapPrepend \in Nat /\ kCheapPrepend \in 0..(SizeModulus - 1)
    BY BufferAssumption DEF Sound, BufferType
<1>2. /\ c \in BufferType(X) /\ c.data = b.data
      /\ c.reader = kCheapPrepend /\ c.writer = kCheapPrepend
    BY <1>1 DEF retrieveAll, BufferType
<1> HIDE DEF c
<1>3. Sound(c, X)
    BY <1>1, <1>2 DEF Sound
<1>4. Readable(c) = <<>>
    BY <1>1, <1>2, NoPart DEF Readable
<1> QED BY <1>3, <1>4 DEF c

(* A piece of a piece. *)
LEMMA PieceOfPiece ==
    ASSUME NEW X, NEW s \in Seq(X), NEW r \in Nat, NEW w \in Nat, NEW m \in Nat, NEW n \in Nat,
           r <= w, w <= Len(s), m <= n, n <= w - r
    PROVE  SubSeq(SubSeq(s, r + 1, w), m + 1, n) = SubSeq(s, r + m + 1, r + n)
<1> DEFINE p == SubSeq(s, r + 1, w)
           x == SubSeq(p, m + 1, n)
           y == SubSeq(s, r + m + 1, r + n)
<1>1. p \in Seq(X) /\ Len(p) = w - r /\ \A i \in 1..(w - r) : p[i] = s[r + i]
    BY Part
<1> HIDE DEF p
<1>2. x \in Seq(X) /\ Len(x) = n - m /\ \A i \in 1..(n - m) : x[i] = p[m + i]
    BY <1>1, Part
<1>3. y \in Seq(X) /\ Len(y) = n - m /\ \A i \in 1..(n - m) : y[i] = s[r + m + i]
    <2>1. /\ r + m \in Nat /\ r + n \in Nat /\ r + m <= r + n /\ r + n <= Len(s)
          /\ (r + n) - (r + m) = n - m
        OBVIOUS
    <2> QED BY <2>1, Part
<1>4. ASSUME NEW i \in 1..(n - m) PROVE x[i] = y[i]
    <2>1. m + i \in 1..(w - r) /\ r + (m + i) = r + m + i
        OBVIOUS
    <2> QED BY <2>1, <1>1, <1>2, <1>3
<1>5. x = y
    <2> HIDE DEF x, y
    <2> QED BY <1>2, <1>3, <1>4, SeqEqual
<1> QED BY <1>5 DEF p

(* The content between two other indices of the same vector. *)
LEMMA MovedContent ==
    ASSUME NEW X, NEW b, Sound(b, X), NEW c \in BufferType(X), c.data = b.data,
           NEW m \in Nat, NEW n \in Nat, m <= n, n <= readableBytes(b),
           c.reader = b.reader + m, c.writer = b.reader + n
    PROVE  Sound(c, X) /\ Readable(c) = SubSeq(Readable(b), m + 1, n)
<1> DEFINE s == b.data
           r == b.reader
           w == b.writer
<1>1. /\ s \in Seq(X) /\ r \in Nat /\ w \in Nat /\ r <= w /\ w <= Len(s)
      /\ kCheapPrepend <= Len(s) /\ n <= w - r
    BY DEF Sound, BufferType, readableBytes
<1>2. /\ Readable(b) = SubSeq(s, r + 1, w)
      /\ Readable(c) = SubSeq(s, r + m + 1, r + n)
    BY DEF Readable
<1>3. Sound(c, X)
    BY <1>1 DEF Sound
<1> HIDE DEF s, r, w
<1>4. SubSeq(SubSeq(s, r + 1, w), m + 1, n) = SubSeq(s, r + m + 1, r + n)
    BY <1>1, PieceOfPiece
<1> QED BY <1>2, <1>3, <1>4

(* retrieve *)
LEMMA RetrieveContent ==
    ASSUME NEW X, NEW b, Sound(b, X), NEW n \in 0..readableBytes(b)
    PROVE  /\ Sound(retrieve(b, n), X)
           /\ Readable(retrieve(b, n)) = SubSeq(Readable(b), n + 1, Len(Readable(b)))
<1>1. /\ readableBytes(b) \in Nat /\ Len(Readable(b)) = readableBytes(b) /\ n \in Nat
      /\ Readable(b) \in Seq(X)
    BY ReadableBytes
<1>2. CASE n < readableBytes(b)
    <2> DEFINE c == retrieve(b, n)
               k == readableBytes(b)
    <2>1. c = [b EXCEPT !.reader = @ + n]
        BY <1>2 DEF retrieve
    <2>2. /\ b \in BufferType(X) /\ b.reader \in Nat /\ b.writer \in Nat
          /\ b.writer = b.reader + k
        BY DEF Sound, BufferType, readableBytes
    <2>3. c \in BufferType(X) /\ c.data = b.data /\ c.reader = b.reader + n /\ c.writer = b.reader + k
        BY <2>1, <2>2, <1>1 DEF BufferType
    <2> HIDE DEF c
    <2>4. Sound(c, X) /\ Readable(c) = SubSeq(Readable(b), n + 1, k)
        BY <2>3, <1>1, <1>2, MovedContent
    <2> QED BY <2>4, <1>1 DEF c
<1>3. CASE n = readableBytes(b)
    <2>1. retrieve(b, n) = retrieveAll(b)
        BY <1>1, <1>3 DEF retrieve
    <2>2. SubSeq(Readable(b), n + 1, Len(Readable(b))) = <<>>
        BY <1>1, <1>3, NoPart
    <2> QED BY <2>1, <2>2, RetrieveAllContent
<1> QED BY <1>1, <1>2, <1>3

(* unwrite *)
LEMMA UnwriteContent ==
    ASSUME NEW X, NEW b, Sound(b, X), NEW n \in 0..readableBytes(b)
    PROVE  /\ Sound(unwrite(b, n), X)
           /\ Readable(unwrite(b, n)) = SubSeq(Readable(b), 1, Len(Readable(b)) - n)
<1> DEFINE c == unwrite(b, n)
           k == readableBytes(b) - n
<1>1. readableBytes(b) \in Nat /\ Len(Readable(b)) = readableBytes(b) /\ n \in Nat /\ k \in Nat
    BY ReadableBytes
<1>2. /\ b \in BufferType(X) /\ b.reader \in Nat /\ b.writer \in Nat
      /\ b.writer - n = b.reader + k /\ b.reader = b.reader + 0 /\ b.reader + k \in Nat
    BY <1>1 DEF Sound, BufferType, readableBytes
<1>3. c \in BufferType(X) /\ c.data = b.data /\ c.reader = b.reader + 0 /\ c.writer = b.reader + k
    BY <1>2, <1>1 DEF BufferType, unwrite
<1>4. k <= readableBytes(b) /\ 0 <= k
    BY <1>1
<1> HIDE DEF c, k
<1>5. Sound(c, X) /\ Readable(c) = SubSeq(Readable(b), 0 + 1, k)
    BY <1>3, <1>1, <1>4, MovedContent
<1> QED BY <1>5, <1>1 DEF c, k

(* prepend *)
LEMMA PrependContent ==
    ASSUME NEW X, NEW b, Sound(b, X), NEW bytes \in Seq(X), Len(bytes) <= prependableBytes(b)
    PROVE  Sound(prepend(b, bytes), X) /\ Readable(prepend(b, bytes)) = bytes \o Readable(b)
<1> DEFINE at == b.reader - Len(bytes)
           s == b.data
           w == b.writer
           d == CopyTo(s, at, bytes)
           c == prepend(b, bytes)
<1>0. /\ s \in Seq(X) /\ b.reader \in Nat /\ w \in Nat
      /\ b.reader <= w /\ w <= Len(s) /\ kCheapPrepend <= Len(s)
      /\ Len(bytes) \in Nat /\ b \in BufferType(X)
    BY DEF Sound, BufferType
<1>1. at \in Nat /\ at + Len(bytes) = b.reader /\ at <= w
    BY <1>0 DEF prependableBytes
<1>2. d \in Seq(X) /\ Len(d) = Len(s)
    <2> HIDE DEF at, s
    <2> QED BY <1>0, <1>1, CopyToBytes
<1>3. c = [b EXCEPT !.reader = @ - Len(bytes), !.data = d]
    BY DEF prepend
<1>4. Readable(b) = Piece(s, b.reader, w)
    BY DEF Readable, Piece
<1>5. Between(s, bytes, at, at, w)
    <2>1. at <= at
        BY <1>1
    <2> HIDE DEF s, w, at
    <2> QED BY <2>1, <1>0, <1>1, CopiedBetween DEF Fits
<1>6. Piece(d, at, w) = Piece(s, at, at) \o bytes \o Piece(s, b.reader, w)
    BY <1>5, <1>1, Zenon DEF Between
<1>7. Piece(s, at, at) = <<>>
    <2> HIDE DEF s, at
    <2> QED BY <1>0, <1>1, NoPart DEF Piece
<1> HIDE DEF d
<1>8. c \in BufferType(X) /\ c.data = d /\ c.reader = at /\ c.writer = w
    BY <1>0, <1>1, <1>2, <1>3 DEF BufferType
<1> HIDE DEF c
<1>9. Sound(c, X)
    BY <1>0, <1>1, <1>2, <1>8 DEF Sound
<1>10. Readable(c) = <<>> \o bytes \o Readable(b)
    <2>1. Readable(c) = Piece(d, at, w)
        BY <1>8, Zenon DEF Readable, Piece
    <2> QED BY <2>1, <1>4, <1>6, <1>7, Zenon
<1>11. <<>> \o bytes = bytes
    BY Neutral
<1> QED BY <1>9, <1>10, <1>11, Zenon DEF c

(* A sequence is its first bytes and then the rest. *)
LEMMA SplitAt ==
    ASSUME NEW X, NEW s \in Seq(X), NEW k \in 0..Len(s)
    PROVE  SubSeq(s, 1, k) \o SubSeq(s, k + 1, Len(s)) = s
<1> DEFINE x == SubSeq(s, 1, k)
           y == SubSeq(s, k + 1, Len(s))
           z == x \o y
<1>0. k \in Nat /\ k <= Len(s) /\ Len(s) \in Nat
    OBVIOUS
<1>1. x \in Seq(X) /\ Len(x) = k /\ \A i \in 1..k : x[i] = s[i]
    BY <1>0
<1>2. y \in Seq(X) /\ Len(y) = Len(s) - k /\ \A i \in 1..(Len(s) - k) : y[i] = s[k + i]
    BY <1>0, Part
<1> HIDE DEF x, y
<1>3. /\ z \in Seq(X) /\ Len(z) = Len(x) + Len(y)
      /\ \A i \in 1..(Len(x) + Len(y)) : z[i] = IF i <= Len(x) THEN x[i] ELSE y[i - Len(x)]
    BY <1>1, <1>2, Joined, Zenon
<1> HIDE DEF z
<1>4. Len(z) = Len(s)
    BY <1>0, <1>1, <1>2, <1>3
<1>5. ASSUME NEW i \in 1..Len(s) PROVE z[i] = s[i]
    <2>1. i \in 1..(Len(x) + Len(y)) /\ i \in Nat
        BY <1>0, <1>1, <1>2
    <2>2. CASE i <= k
        BY <2>1, <2>2, <1>1, <1>3
    <2>3. CASE i > k
        <3> DEFINE j == i - k
        <3>1. ~(i <= k) /\ j \in 1..(Len(s) - k) /\ k + j = i
            BY <2>1, <2>3, <1>0
        <3>2. z[i] = y[j]
            BY <2>1, <3>1, <1>1, <1>3
        <3> HIDE DEF j
        <3> QED BY <3>1, <3>2, <1>2
    <2> QED BY <2>1, <2>2, <2>3, <1>0
<1>6. z = s
    BY <1>3, <1>4, <1>5, SeqEqual
<1> QED BY <1>6 DEF x, y, z

(* readFd, whether or not the bytes fit: all that readv returned is        *)
(* appended.                                                               *)
LEMMA ReadFdContent ==
    ASSUME NEW X, Zero \in X, NEW b, Sound(b, X), NEW bytes \in Seq(X)
    PROVE  Sound(readFd(b, bytes), X) /\ Readable(readFd(b, bytes)) = Readable(b) \o bytes
<1> DEFINE k == writableBytes(b)
           n == Len(bytes)
<1>0. k \in Nat /\ n \in Nat /\ b.writer \in Nat /\ k = Len(b.data) - b.writer
      /\ b \in BufferType(X) /\ Len(b.data) \in Nat
    BY DEF Sound, BufferType, writableBytes
<1>1. CASE n <= k
    <2>1. readFd(b, bytes) = hasWritten([b EXCEPT !.data = CopyTo(@, b.writer, bytes)], n)
        BY <1>1 DEF readFd
    <2> QED BY <2>1, <1>1, WrittenContent
<1>2. CASE ~(n <= k)
    <2> DEFINE x == SubSeq(bytes, 1, k)
               y == SubSeq(bytes, k + 1, n)
               c == hasWritten([b EXCEPT !.data = CopyTo(@, b.writer, x)], Len(x))
    <2>1. x \in Seq(X) /\ y \in Seq(X) /\ Len(x) = k
        <3>1. 0 <= k /\ k <= Len(bytes) /\ k <= n /\ n <= Len(bytes)
            BY <1>0, <1>2
        <3>2. SubSeq(bytes, 0 + 1, k) \in Seq(X) /\ Len(SubSeq(bytes, 0 + 1, k)) = k - 0
            BY <3>1, <1>0, Part
        <3>3. SubSeq(bytes, k + 1, n) \in Seq(X)
            BY <3>1, <1>0, Part
        <3> QED BY <3>2, <3>3, <1>0
    <2>2. x \o y = bytes
        <3>1. k \in 0..Len(bytes)
            BY <1>0, <1>2
        <3> HIDE DEF k
        <3> QED BY <3>1, SplitAt
    <2>3. readFd(b, bytes) = append(c, y)
        <3>1. readFd(b, bytes) = append([b EXCEPT !.data   = CopyTo(@, b.writer, x),
                                                  !.writer = Len(b.data)], y)
            BY <1>2 DEF readFd
        <3>2. c = [b EXCEPT !.data = CopyTo(@, b.writer, x), !.writer = Len(b.data)]
            <4>1. b.writer + Len(x) = Len(b.data)
                BY <2>1, <1>0
            <4> HIDE DEF x
            <4> QED BY <4>1, <1>0 DEF hasWritten, BufferType
        <3> QED BY <3>1, <3>2, Zenon
    <2>4. Sound(c, X) /\ Readable(c) = Readable(b) \o x
        <3> HIDE DEF x
        <3>1. Len(x) <= writableBytes(b)
            BY <2>1, <1>0
        <3> QED BY <3>1, <2>1, WrittenContent
    <2> HIDE DEF x, y, c
    <2>5. Sound(append(c, y), X) /\ Readable(append(c, y)) = (Readable(b) \o x) \o y
        BY <2>1, <2>4, AppendContent
    <2>6. (Readable(b) \o x) \o y = Readable(b) \o (x \o y)
        <3>1. Readable(b) \in Seq(X)
            BY ReadableBytes
        <3> QED BY <3>1, <2>1, ConcatAssociative, SMTT(30)
    <2> QED BY <2>2, <2>3, <2>5, <2>6, Zenon
<1> QED BY <1>1, <1>2

(* hasDecrypt *)
LEMMA HasDecryptContent ==
    ASSUME NEW X, NEW b, Sound(b, X), NEW n \in Nat
    PROVE  Sound(hasDecrypt(b, n), X) /\ Readable(hasDecrypt(b, n)) = Readable(b)
<1> DEFINE c == hasDecrypt(b, n)
           e == (b.decrypt + n) % SizeModulus
<1>1. b \in BufferType(X) /\ b.decrypt + n \in Int
    BY BufferAssumption DEF Sound, BufferType
<1>2. e \in 0..(SizeModulus - 1)
    BY <1>1, ModType
<1>3. c = [b EXCEPT !.decrypt = e]
    BY DEF hasDecrypt
<1> HIDE DEF e
<1>4. /\ c \in BufferType(X)
      /\ c.data = b.data /\ c.reader = b.reader /\ c.writer = b.writer
    BY <1>1, <1>2, <1>3 DEF BufferType
<1> HIDE DEF c
<1> QED BY <1>4 DEF Sound, Readable, c
-----------------------------------------------------------------------------
(* The bytes of a call are a sequence of bytes. *)
LEMMA ChunkType == Chunk \subseteq Seq(Byte)
<1> SUFFICES ASSUME NEW n \in 0..MaxBytes, NEW f \in [1..n -> Byte] PROVE f \in Seq(Byte)
    BY DEF Chunk
<1>1. n \in Nat
    BY QueueAssumption
<1> QED BY <1>1, BytesAreSeq

(* Every call keeps the layout and is the step of the byte queue that it   *)
(* is named for, with its own argument.                                    *)
LEMMA BufferStep ==
    ASSUME BufTypeOK, BufNext
    PROVE  BufTypeOK' /\ Abstract!QueueNext
<1> DEFINE q == Readable(buf)
<1>0. Sound(buf, Byte) /\ (Sound(buf, Byte)' => BufTypeOK')
    BY DEF BufTypeOK, Sound, BufferType
<1>q. q \in Seq(Byte) /\ Len(q) = readableBytes(buf) /\ readableBytes(buf) \in Nat
    BY <1>0, ReadableBytes
<1> USE DEF Abstract!QueueNext
<1>1. CASE BufAppend
    <2> PICK bytes \in Chunk : buf' = append(buf, bytes) /\ call' = [op |-> "putBack", bytes |-> bytes]
        BY <1>1 DEF BufAppend
    <2>1. bytes \in Seq(Byte)
        BY ChunkType
    <2>2. Sound(buf', Byte) /\ Readable(buf') = q \o bytes
        BY <2>1, <1>0, AppendContent, QueueAssumption
    <2>3. call'.op = "putBack" /\ call'.bytes = bytes
        OBVIOUS
    <2>4. Abstract!PutBack
        BY <2>1, <2>2, <2>3 DEF Abstract!PutBack
    <2> QED BY <2>2, <2>4, <1>0
<1>2. CASE BufReadFd
    <2> PICK bytes \in Chunk : buf' = readFd(buf, bytes) /\ call' = [op |-> "putBack", bytes |-> bytes]
        BY <1>2 DEF BufReadFd
    <2>1. bytes \in Seq(Byte)
        BY ChunkType
    <2>2. Sound(buf', Byte) /\ Readable(buf') = q \o bytes
        BY <2>1, <1>0, ReadFdContent, QueueAssumption
    <2>3. call'.op = "putBack" /\ call'.bytes = bytes
        OBVIOUS
    <2>4. Abstract!PutBack
        BY <2>1, <2>2, <2>3 DEF Abstract!PutBack
    <2> QED BY <2>2, <2>4, <1>0
<1>3. CASE BufRetrieve
    <2> PICK n \in 0..readableBytes(buf) : buf' = retrieve(buf, n) /\ call' = [op |-> "takeFront", n |-> n]
        BY <1>3 DEF BufRetrieve
    <2>1. Sound(buf', Byte) /\ Readable(buf') = SubSeq(q, n + 1, Len(q))
        BY <1>0, RetrieveContent
    <2>2. n \in 0..Len(q)
        BY <1>q
    <2>3. call'.op = "takeFront" /\ call'.n = n
        OBVIOUS
    <2>4. Abstract!TakeFront
        BY <2>1, <2>2, <2>3 DEF Abstract!TakeFront
    <2> QED BY <2>1, <2>4, <1>0
<1>4. CASE BufRetrieveAll
    <2>1. Sound(buf', Byte) /\ Readable(buf') = <<>>
        BY <1>4, <1>0, RetrieveAllContent DEF BufRetrieveAll
    <2>2. SubSeq(q, Len(q) + 1, Len(q)) = <<>> /\ Len(q) \in 0..Len(q)
        <3> HIDE DEF q
        <3>1. Len(q) \in Nat
            BY <1>q
        <3> QED BY <3>1, <1>q, NoPart
    <2>3. call'.op = "takeFront" /\ call'.n = Len(q)
        BY <1>4, <1>q DEF BufRetrieveAll
    <2>4. Abstract!TakeFront
        BY <2>1, <2>2, <2>3 DEF Abstract!TakeFront
    <2> QED BY <2>1, <2>4, <1>0
<1>5. CASE BufUnwrite
    <2> PICK n \in 0..readableBytes(buf) : buf' = unwrite(buf, n) /\ call' = [op |-> "takeBack", n |-> n]
        BY <1>5 DEF BufUnwrite
    <2>1. Sound(buf', Byte) /\ Readable(buf') = SubSeq(q, 1, Len(q) - n)
        BY <1>0, UnwriteContent
    <2>2. n \in 0..Len(q)
        BY <1>q
    <2>3. call'.op = "takeBack" /\ call'.n = n
        OBVIOUS
    <2>4. Abstract!TakeBack
        BY <2>1, <2>2, <2>3 DEF Abstract!TakeBack
    <2> QED BY <2>1, <2>4, <1>0
<1>6. CASE BufPrepend
    <2> PICK bytes \in Chunk : Len(bytes) <= prependableBytes(buf) /\ buf' = prepend(buf, bytes) /\ call' = [op |-> "putFront", bytes |-> bytes]
        BY <1>6 DEF BufPrepend
    <2>1. bytes \in Seq(Byte)
        BY ChunkType
    <2>2. Sound(buf', Byte) /\ Readable(buf') = bytes \o q
        BY <2>1, <1>0, PrependContent, QueueAssumption
    <2>3. call'.op = "putFront" /\ call'.bytes = bytes
        OBVIOUS
    <2>4. Abstract!PutFront
        BY <2>1, <2>2, <2>3 DEF Abstract!PutFront
    <2> QED BY <2>2, <2>4, <1>0
<1>7. CASE BufShrink
    <2> PICK reserve \in 0..MaxBytes : buf' = shrink(buf, reserve) /\ call' = [op |-> "arrange"]
        BY <1>7 DEF BufShrink
    <2>1. reserve \in Nat
        BY QueueAssumption
    <2>2. Sound(buf', Byte) /\ Readable(buf') = q
        BY <2>1, <1>0, ShrinkContent, QueueAssumption
    <2>3. Abstract!Arrange
        BY <2>2 DEF Abstract!Arrange
    <2> QED BY <2>2, <2>3, <1>0
<1>8. CASE BufEnsure
    <2> PICK n \in 0..MaxBytes : buf' = ensureWritableBytes(buf, n) /\ call' = [op |-> "arrange"]
        BY <1>8 DEF BufEnsure
    <2>1. n \in Nat
        BY QueueAssumption
    <2>2. Sound(buf', Byte) /\ Readable(buf') = q
        BY <2>1, <1>0, EnsureContent, QueueAssumption
    <2>3. Abstract!Arrange
        BY <2>2 DEF Abstract!Arrange
    <2> QED BY <2>2, <2>3, <1>0
<1>9. CASE BufHasDecrypt
    <2> PICK n \in 0..MaxBytes : buf' = hasDecrypt(buf, n) /\ call' = [op |-> "arrange"]
        BY <1>9 DEF BufHasDecrypt
    <2>1. n \in Nat
        BY QueueAssumption
    <2>2. Sound(buf', Byte) /\ Readable(buf') = q
        BY <2>1, <1>0, HasDecryptContent, QueueAssumption
    <2>3. Abstract!Arrange
        BY <2>2 DEF Abstract!Arrange
    <2> QED BY <2>2, <2>3, <1>0
<1> QED BY <1>1, <1>2, <1>3, <1>4, <1>5, <1>6, <1>7, <1>8, <1>9 DEF BufNext

(* The layout drawn in Buffer.h is an invariant of a Buffer under any      *)
(* sequence of legal calls.                                                *)
THEOREM BufferLayout == BufSpec => []BufTypeOK
<1>1. BufInit => BufTypeOK
    BY NewContent, QueueAssumption DEF BufInit, BufTypeOK, Sound, BufferType
<1>2. BufTypeOK /\ [BufNext]_bufVars => BufTypeOK'
    <2>1. CASE BufNext
        BY <2>1, BufferStep
    <2>2. CASE UNCHANGED bufVars
        BY <2>2 DEF BufTypeOK, bufVars
    <2> QED BY <2>1, <2>2
<1> QED BY <1>1, <1>2, PTL DEF BufSpec

(* A Buffer is a byte queue: append, readFd and prepend add the bytes they *)
(* are given, retrieve and unwrite take away the number of bytes they are  *)
(* given, ensureWritableBytes, shrink and hasDecrypt leave the content     *)
(* alone, for any sizes and any bytes, and nothing else happens to it.     *)
THEOREM BufferIsByteQueue == BufSpec => ImplementsByteQueue
<1>1. BufInit => Abstract!QueueInit
    BY NewContent, QueueAssumption DEF BufInit, Abstract!QueueInit
<1>2. BufTypeOK /\ [BufNext]_bufVars => [Abstract!QueueNext]_<<Readable(buf), call>>
    <2>1. CASE BufNext
        BY <2>1, BufferStep
    <2>2. CASE UNCHANGED bufVars
        BY <2>2 DEF Readable, bufVars
    <2> QED BY <2>1, <2>2
<1> QED BY <1>1, <1>2, BufferLayout, PTL DEF BufSpec, ImplementsByteQueue, Abstract!QueueSpec

-----------------------------------------------------------------------------
(* ProtobufCodec. *)

(* The blocks are not empty. *)
LEMMA BlockPositive == BlockSize \in Nat /\ BlockSize > 0
BY CodecAssumption

(* Multiples of the size of a block, and what is left over. *)
LEMMA Multiple ==
    ASSUME NEW x \in Int, x % BlockSize = 0
    PROVE  \E q \in Int : x = q * BlockSize
<1>1. x = BlockSize * (x \div BlockSize) + (x % BlockSize)
    BY BlockPositive, Z3
<1>2. x \div BlockSize \in Int
    BY BlockPositive
<1>3. x = (x \div BlockSize) * BlockSize
    BY <1>1, <1>2, BlockPositive, Z3
<1> QED BY <1>2, <1>3

(* A number of whole blocks is a multiple. *)
LEMMA MultipleOf ==
    ASSUME NEW q \in Int
    PROVE  (q * BlockSize) % BlockSize = 0
BY BlockPositive, Z3

(* Sums and differences of multiples are multiples. *)
LEMMA SumMultiple ==
    ASSUME NEW x \in Int, NEW y \in Int, x % BlockSize = 0, y % BlockSize = 0
    PROVE  (x + y) % BlockSize = 0 /\ (x - y) % BlockSize = 0
<1>1. PICK p \in Int : x = p * BlockSize
    BY Multiple
<1>2. PICK q \in Int : y = q * BlockSize
    BY Multiple
<1>3. x + y = (p + q) * BlockSize /\ x - y = (p - q) * BlockSize
    BY <1>1, <1>2, BlockPositive, Z3
<1>4. p + q \in Int /\ p - q \in Int
    OBVIOUS
<1>5. ((p + q) * BlockSize) % BlockSize = 0 /\ ((p - q) * BlockSize) % BlockSize = 0
    BY <1>4, MultipleOf
<1> QED BY <1>3, <1>5

(* Two different multiples are at least a block apart. *)
LEMMA NextMultiple ==
    ASSUME NEW x \in Int, NEW y \in Int, x % BlockSize = 0, y % BlockSize = 0, x < y
    PROVE  x + BlockSize <= y
<1>1. PICK p \in Int : x = p * BlockSize
    BY Multiple
<1>2. PICK q \in Int : y = q * BlockSize
    BY Multiple
<1>3. p < q
    BY <1>1, <1>2, BlockPositive, Z3
<1>4. (p + 1) * BlockSize <= q * BlockSize
    BY <1>3, BlockPositive, Z3
<1>5. (p + 1) * BlockSize = p * BlockSize + BlockSize
    BY BlockPositive, Z3
<1> QED BY <1>1, <1>2, <1>4, <1>5, BlockPositive

(* The whole blocks in n bytes. *)
LEMMA WholeBlocks ==
    ASSUME NEW n \in Int
    PROVE  /\ n % BlockSize \in Int /\ 0 <= n % BlockSize /\ n % BlockSize < BlockSize
           /\ InBlocks(n) \in Int /\ InBlocks(n) % BlockSize = 0
           /\ InBlocks(n) <= n /\ n < InBlocks(n) + BlockSize
<1>1. n % BlockSize \in Int /\ 0 <= n % BlockSize /\ n % BlockSize < BlockSize
    BY BlockPositive
<1>2. (n - (n % BlockSize)) % BlockSize = 0
    BY BlockPositive
<1> QED BY <1>1, <1>2, BlockPositive DEF InBlocks

(* Of a number that is not negative they are not negative. *)
LEMMA BlocksNat ==
    ASSUME NEW n \in Nat
    PROVE  InBlocks(n) \in Nat
<1>1. /\ InBlocks(n) \in Int /\ InBlocks(n) % BlockSize = 0 /\ n < InBlocks(n) + BlockSize
    BY WholeBlocks
<1>2. CASE InBlocks(n) < 0
    <2>1. 0 % BlockSize = 0
        BY BlockPositive
    <2>2. InBlocks(n) + BlockSize <= 0
        BY <1>1, <1>2, <2>1, NextMultiple
    <2> QED BY <1>1, <2>2, BlockPositive
<1> QED BY <1>1, <1>2

-----------------------------------------------------------------------------
(* How far decryptIndex_ is ahead of readerIndex_, and that it is between  *)
(* readerIndex_ and writerIndex_ of a vector whose size a size_t can hold. *)
Ahead(b) == b.decrypt - b.reader

InReach(b) == b.reader <= b.decrypt /\ b.decrypt <= b.writer /\ Len(b.data) < SizeModulus

(* A size_t that has not wrapped around. *)
LEMMA NoWrap ==
    ASSUME NEW n \in Int, 0 <= n, n < SizeModulus
    PROVE  n % SizeModulus = n
BY BufferAssumption

(* The bytes that decryptBuffer finds. *)
LEMMA BehindDecrypt ==
    ASSUME NEW X, NEW b, Sound(b, X), InReach(b)
    PROVE  /\ unDecryptedBytes(b) = readableBytes(b) - Ahead(b)
           /\ Ahead(b) \in Nat /\ Ahead(b) <= readableBytes(b)
<1>1. /\ b.reader \in Nat /\ b.writer \in Nat /\ b.decrypt \in Int /\ Len(b.data) \in Nat
      /\ b.writer <= Len(b.data) /\ SizeModulus \in Nat
    BY BufferAssumption DEF Sound, BufferType
<1>2. (b.writer - b.decrypt) % SizeModulus = b.writer - b.decrypt
    <2>0. PICK x : x = b.writer - b.decrypt
        BY Zenon
    <2>1. x \in Int /\ 0 <= x /\ x < SizeModulus
        BY <1>1, <2>0 DEF InReach
    <2>2. x % SizeModulus = x
        BY <2>1, NoWrap
    <2> QED BY <2>0, <2>2
<1>3. Ahead(b) \in Nat /\ Ahead(b) <= readableBytes(b)
    BY <1>1 DEF Ahead, InReach, readableBytes
<1>4. unDecryptedBytes(b) = b.writer - b.decrypt
    BY <1>2 DEF unDecryptedBytes
<1>5. b.writer - b.decrypt = readableBytes(b) - Ahead(b)
    BY <1>1 DEF readableBytes, Ahead
<1> QED BY <1>3, <1>4, <1>5

(* makeSpace moves it with the content. *)
LEMMA EnsureAhead ==
    ASSUME NEW X, NEW b, Sound(b, X), InReach(b), NEW len \in Nat
    PROVE  Ahead(ensureWritableBytes(b, len)) = Ahead(b)
<1>1. /\ b.reader \in Nat /\ b.writer \in Nat /\ b.decrypt \in Int /\ Len(b.data) \in Nat
      /\ b.writer <= Len(b.data) /\ SizeModulus \in Nat /\ kCheapPrepend \in Nat
      /\ b \in BufferType(X)
    BY BufferAssumption DEF Sound, BufferType
<1> DEFINE c == ensureWritableBytes(b, len)
<1>2. CASE writableBytes(b) >= len
    BY <1>1, <1>2 DEF ensureWritableBytes, writableBytes, Ahead
<1>3. CASE writableBytes(b) < len /\ writableBytes(b) + prependableBytes(b) < len + kCheapPrepend
    <2>1. c.decrypt = b.decrypt /\ c.reader = b.reader
        BY <1>1, <1>3 DEF ensureWritableBytes, makeSpace, BufferType
    <2> QED BY <2>1 DEF Ahead
<1>4. CASE writableBytes(b) < len /\ ~(writableBytes(b) + prependableBytes(b) < len + kCheapPrepend)
    <2>1. /\ c.decrypt = (kCheapPrepend + decryptedBytes(b)) % SizeModulus
          /\ c.reader = kCheapPrepend
        BY <1>1, <1>4 DEF ensureWritableBytes, makeSpace, BufferType
    <2>2. decryptedBytes(b) = Ahead(b)
        <3>1. Ahead(b) \in Int /\ 0 <= Ahead(b) /\ Ahead(b) < SizeModulus
            BY <1>1 DEF Ahead, InReach
        <3>2. Ahead(b) % SizeModulus = Ahead(b)
            BY <3>1, NoWrap
        <3> QED BY <3>2 DEF decryptedBytes, Ahead
    <2>3. (kCheapPrepend + Ahead(b)) % SizeModulus = kCheapPrepend + Ahead(b)
        <3>1. kCheapPrepend + Ahead(b) \in Int /\ 0 <= kCheapPrepend + Ahead(b)
            BY <1>1 DEF Ahead, InReach
        <3>2. kCheapPrepend + Ahead(b) < SizeModulus
            BY <1>1, <1>4 DEF Ahead, InReach, writableBytes, prependableBytes
        <3> QED BY <3>1, <3>2, NoWrap
    <2>4. Ahead(b) \in Int
        BY <1>1 DEF Ahead
    <2> QED BY <1>1, <2>1, <2>2, <2>3, <2>4 DEF Ahead
<1>5. writableBytes(b) \in Int
    BY <1>1 DEF writableBytes
<1> QED BY <1>2, <1>3, <1>4, <1>5

(* append leaves it where it is, in the content. *)
LEMMA AppendAhead ==
    ASSUME NEW X, Zero \in X, NEW b, Sound(b, X), InReach(b), NEW bytes \in Seq(X)
    PROVE  Ahead(append(b, bytes)) = Ahead(b)
<1> DEFINE c == ensureWritableBytes(b, Len(bytes))
           e == [c EXCEPT !.data = CopyTo(@, c.writer, bytes)]
<1>1. Ahead(c) = Ahead(b) /\ Sound(c, X)
    <2>1. Len(bytes) \in Nat
        OBVIOUS
    <2> QED BY <2>1, EnsureAhead, EnsureContent
<1>2. append(b, bytes) = [e EXCEPT !.writer = @ + Len(bytes)]
    BY DEF append, hasWritten
<1>3. c \in BufferType(X)
    BY <1>1 DEF Sound
<1> HIDE DEF c
<1>4. append(b, bytes).decrypt = c.decrypt /\ append(b, bytes).reader = c.reader
    BY <1>2, <1>3 DEF BufferType
<1> QED BY <1>1, <1>4 DEF Ahead

(* readFd, with or without the buffer on the stack. *)
LEMMA ReadFdAhead ==
    ASSUME NEW X, Zero \in X, NEW b, Sound(b, X), InReach(b), NEW bytes \in Seq(X)
    PROVE  Ahead(readFd(b, bytes)) = Ahead(b)
<1> DEFINE k == writableBytes(b)
           n == Len(bytes)
<1>0. /\ k \in Nat /\ n \in Nat /\ b.reader \in Nat /\ b.writer \in Nat /\ k = Len(b.data) - b.writer
      /\ b \in BufferType(X) /\ Len(b.data) \in Nat /\ b.data \in Seq(X) /\ b.decrypt \in Int
    BY DEF Sound, BufferType, writableBytes
<1>1. CASE n <= k
    <2>1. readFd(b, bytes) = [[b EXCEPT !.data = CopyTo(@, b.writer, bytes)] EXCEPT !.writer = @ + n]
        BY <1>1 DEF readFd, hasWritten
    <2>2. readFd(b, bytes).decrypt = b.decrypt /\ readFd(b, bytes).reader = b.reader
        BY <1>0, <2>1 DEF BufferType
    <2> QED BY <2>2 DEF Ahead
<1>2. CASE n > k
    <2> DEFINE x == SubSeq(bytes, 1, k)
               y == SubSeq(bytes, k + 1, n)
               c == [b EXCEPT !.data = CopyTo(@, b.writer, x), !.writer = Len(b.data)]
    <2>1. readFd(b, bytes) = append(c, y)
        <3>1. ~(n <= k)
            BY <1>0, <1>2
        <3> QED BY <3>1 DEF readFd
    <2>2. x \in Seq(X) /\ y \in Seq(X)
        BY <1>0, <1>2
    <2>3. CopyTo(b.data, b.writer, x) \in Seq(X) /\ Len(CopyTo(b.data, b.writer, x)) = Len(b.data)
        <3> HIDE DEF x
        <3> QED BY <1>0, <2>2, CopyToBytes
    <2>4. /\ c \in BufferType(X) /\ c.decrypt = b.decrypt /\ c.reader = b.reader /\ c.writer = Len(b.data)
          /\ Len(c.data) = Len(b.data)
        <3> HIDE DEF x
        <3> QED BY <1>0, <2>3 DEF BufferType
    <2> HIDE DEF c, y
    <2>5. Sound(c, X) /\ InReach(c)
        BY <1>0, <2>4 DEF Sound, InReach
    <2>6. Ahead(append(c, y)) = Ahead(c)
        BY <2>2, <2>5, AppendAhead
    <2> QED BY <2>1, <2>4, <2>6 DEF Ahead
<1> QED BY <1>0, <1>1, <1>2

(* What is retrieved has been decrypted. *)
LEMMA RetrieveAhead ==
    ASSUME NEW X, NEW b, Sound(b, X), InReach(b), NEW n \in Nat, n <= Ahead(b)
    PROVE  Ahead(retrieve(b, n)) = Ahead(b) - n
<1>1. /\ b.reader \in Nat /\ b.writer \in Nat /\ b.decrypt \in Int /\ b \in BufferType(X)
      /\ kCheapPrepend \in Nat
    BY BufferAssumption DEF Sound, BufferType
<1>2. CASE n < readableBytes(b)
    <2>1. retrieve(b, n).decrypt = b.decrypt /\ retrieve(b, n).reader = b.reader + n
        BY <1>1, <1>2 DEF retrieve, BufferType
    <2> QED BY <1>1, <2>1 DEF Ahead
<1>3. CASE ~(n < readableBytes(b))
    <2>1. retrieve(b, n).decrypt = kCheapPrepend /\ retrieve(b, n).reader = kCheapPrepend
        BY <1>1, <1>3 DEF retrieve, retrieveAll, BufferType
    <2>2. Ahead(b) = n
        BY <1>1, <1>3 DEF Ahead, InReach, readableBytes
    <2> QED BY <1>1, <2>1, <2>2 DEF Ahead
<1> QED BY <1>2, <1>3

-----------------------------------------------------------------------------
(* The stream of frames. *)

(* Bytes of the stream, and what send makes of a message. *)
CodecByte == [kind : {"plain", "cipher", "junk"}, msg : Nat, at : Nat]

Message == [len : MessageLens, outcome : {"kNoError", "kUnknownMessageType"}]

(* The frame of message m of those sent, as it goes out. *)
Whole(m, a) == IF a THEN PaddedLen(m.len) ELSE FrameLen(m.len)

Even(m) == FrameLen(m.len) % BlockSize = 0

AllEven(se, l, m) == \A j \in l..m : Even(se[j])

(* The frames of the messages se, one behind the other in N bytes that     *)
(* begin where message k was retrieved: S[m] bytes are in front of that of *)
(* message m.                                                              *)
Laid(S, se, a, k, N) ==
    /\ S \in [1..(Len(se) + 1) -> Int]
    /\ \A m \in 1..Len(se) : S[m + 1] = S[m] + Whole(se[m], a)
    /\ \A l \in 1..Len(se), m \in 1..(Len(se) + 1) : l < m => S[l + 1] <= S[m]
    /\ S[Len(se) + 1] = N
    /\ k \in 0..Len(se)
    /\ S[k + 1] = 0 \/ (k > 0 /\ S[k + 1] = Whole(se[k], a) - FrameLen(se[k].len))
    /\ \A i \in 1..N : \E m \in 1..Len(se) : S[m] < i /\ i <= S[m + 1]

(* A byte of the stream, of which the first r have been read. *)
Genuine(x, m, at, a, unread) ==
    /\ x \in {Junk, PlainByte(m, at), CipherByte(m, at)}
    /\ unread => x # Junk
    /\ ~a => x = PlainByte(m, at)

Matches(W, S, se, a, r) ==
    \A m \in 1..Len(se), i \in 1..Len(W) :
        S[m] < i /\ i <= S[m + 1] => Genuine(W[i], m, i - 1 - S[m], a, i > r)

(* What has been decrypted, d bytes, are whole blocks; so are the frames   *)
(* behind messages without padding.                                        *)
Veiled(W, S, se, d, m) ==
    \A i \in 1..Len(W) : S[m] < i /\ i <= S[m] + EncryptedLen(se[m].len) =>
        W[i] = IF i <= d THEN PlainByte(m, i - 1 - S[m]) ELSE CipherByte(m, i - 1 - S[m])

Neat(W, S, se, k, r, d) ==
    /\ d \in 0..r /\ d % BlockSize = 0
    /\ \E m \in (k + 1)..(Len(se) + 1) : r = S[m]
    /\ \A m \in (k + 1)..Len(se) :
          AllEven(se, k + 1, m - 1) => S[m] % BlockSize = 0 /\ Veiled(W, S, se, d, m)

(* The condition under which encrypted messages can be read. *)
Orderly(a, p, se, k) == a /\ ~p /\ AllEven(se, 1, k)

(* Where the stream is, in the buffer b and on its way, after k messages.  *)
Arranged(S, b, st, se, k, a, p) ==
    /\ Laid(S, se, a, k, readableBytes(b) + Len(st))
    /\ Matches(Readable(b) \o st, S, se, a, readableBytes(b))
    /\ Orderly(a, p, se, k) => Neat(Readable(b) \o st, S, se, k, readableBytes(b), Ahead(b))

Decoded(b, st, se, k, a, p) == \E S : Arranged(S, b, st, se, k, a, p)

(* The sizes of a frame. *)
LEMMA FrameSizes ==
    ASSUME NEW len \in MessageLens
    PROVE  /\ len \in Nat /\ FrameLen(len) \in Nat /\ FrameLen(len) = len + 1 /\ FrameLen(len) >= 2
           /\ PaddedLen(len) \in Nat /\ FrameLen(len) <= PaddedLen(len)
           /\ EncryptedLen(len) \in Nat /\ EncryptedLen(len) % BlockSize = 0
           /\ EncryptedLen(len) <= PaddedLen(len)
           /\ FrameLen(len) % BlockSize = 0 => /\ PaddedLen(len) = FrameLen(len)
                                               /\ EncryptedLen(len) = FrameLen(len)
<1>1. len \in Nat /\ len >= 1 /\ kHeaderLen = 1
    BY CodecAssumption
<1>2. FrameLen(len) \in Nat /\ FrameLen(len) = len + 1 /\ FrameLen(len) >= 2
    BY <1>1 DEF FrameLen
<1>3. PICK f \in Nat : f = FrameLen(len)
    BY <1>2
<1>4. PICK t : t = f % BlockSize
    BY Zenon
<1>5. t \in Nat
    BY <1>4, WholeBlocks
<1>6. PaddedLen(len) = f + t
    BY <1>3, <1>4 DEF PaddedLen, PaddingLen
<1>7. f + t \in Nat /\ f <= f + t
    BY <1>5
<1>8. InBlocks(f + t) \in Nat /\ InBlocks(f + t) % BlockSize = 0 /\ InBlocks(f + t) <= f + t
    BY <1>7, WholeBlocks, BlocksNat
<1>9. t = 0 => InBlocks(f + t) = f
    <2>1. t = 0 => f + t = f /\ f - 0 = f
        OBVIOUS
    <2> QED BY <2>1, <1>4 DEF InBlocks
<1> QED BY <1>1, <1>2, <1>3, <1>4, <1>5, <1>6, <1>7, <1>8, <1>9 DEF EncryptedLen

(* Those of a message on the stream. *)
LEMMA WholeSizes ==
    ASSUME NEW x \in Message, NEW a \in BOOLEAN
    PROVE  /\ x.len \in Nat /\ FrameLen(x.len) \in Nat /\ FrameLen(x.len) = x.len + 1 /\ FrameLen(x.len) >= 2
           /\ Whole(x, a) \in Nat /\ FrameLen(x.len) <= Whole(x, a)
           /\ EncryptedLen(x.len) \in Nat /\ EncryptedLen(x.len) % BlockSize = 0
           /\ a => EncryptedLen(x.len) <= Whole(x, a)
           /\ ~a => Whole(x, a) = FrameLen(x.len)
           /\ Even(x) => Whole(x, a) = FrameLen(x.len) /\ EncryptedLen(x.len) = FrameLen(x.len)
<1>1. x.len \in MessageLens
    BY DEF Message
<1>2. PICK len \in MessageLens : len = x.len
    BY <1>1
<1> QED BY <1>2, FrameSizes DEF Whole, Even

(* What Laid says. *)
LEMMA LaidFacts ==
    ASSUME NEW S, NEW se \in Seq(Message), NEW a \in BOOLEAN, NEW k, NEW N, Laid(S, se, a, k, N)
    PROVE  /\ Len(se) \in Nat /\ k \in Nat /\ k <= Len(se)
           /\ \A m \in 1..(Len(se) + 1) : S[m] \in Int
           /\ \A m \in 1..Len(se) : se[m] \in Message /\ S[m + 1] = S[m] + Whole(se[m], a) /\ S[m] + 2 <= S[m + 1]
           /\ S[k + 1] >= 0 /\ N = S[Len(se) + 1] /\ N \in Int
           /\ \A l, m \in 1..(Len(se) + 1) : l <= m => S[l] <= S[m]
<1>1. Len(se) \in Nat /\ k \in Nat /\ k <= Len(se)
    BY DEF Laid
<1>2. \A m \in 1..(Len(se) + 1) : S[m] \in Int
    BY DEF Laid
<1>3. ASSUME NEW m \in 1..Len(se)
      PROVE  se[m] \in Message /\ S[m + 1] = S[m] + Whole(se[m], a) /\ S[m] + 2 <= S[m + 1]
    <2>1. se[m] \in Message
        OBVIOUS
    <2>2. S[m + 1] = S[m] + Whole(se[m], a)
        BY DEF Laid
    <2>3. Whole(se[m], a) \in Nat /\ Whole(se[m], a) >= 2
        BY <2>1, WholeSizes
    <2>4. S[m] \in Int
        BY <1>1, <1>2
    <2> QED BY <2>1, <2>2, <2>3, <2>4
<1>4. S[k + 1] >= 0
    <2>1. CASE S[k + 1] = 0
        BY <2>1
    <2>2. CASE k > 0 /\ S[k + 1] = Whole(se[k], a) - FrameLen(se[k].len)
        <3>1. k \in 1..Len(se)
            BY <1>1, <2>2
        <3>2. se[k] \in Message
            BY <3>1
        <3> QED BY <2>2, <3>2, WholeSizes
    <2> QED BY <2>1, <2>2 DEF Laid
<1>5. N = S[Len(se) + 1] /\ N \in Int
    BY <1>1, <1>2 DEF Laid
<1>6. ASSUME NEW l \in 1..(Len(se) + 1), NEW m \in 1..(Len(se) + 1), l <= m
      PROVE  S[l] <= S[m]
    <2>1. CASE l = m
        BY <1>2, <2>1
    <2>2. CASE l < m
        <3>1. l \in 1..Len(se)
            BY <1>1, <2>2
        <3>2. S[l + 1] <= S[m]
            BY <2>2, <3>1 DEF Laid
        <3>3. S[l] + 2 <= S[l + 1]
            BY <3>1, <1>3
        <3>4. S[l] \in Int /\ S[m] \in Int /\ S[l + 1] \in Int
            BY <1>1, <1>2, <3>1
        <3> QED BY <3>2, <3>3, <3>4
    <2> QED BY <1>6, <2>1, <2>2
<1> QED BY <1>1, <1>2, <1>3, <1>4, <1>5, <1>6

(* The only frame that begins with the stream is that of the next message. *)
LEMMA FrontFrame ==
    ASSUME NEW S, NEW se \in Seq(Message), NEW a \in BOOLEAN, NEW k, NEW N, Laid(S, se, a, k, N),
           NEW m \in 1..Len(se), S[m] = 0
    PROVE  m = k + 1
<1>1. /\ Len(se) \in Nat /\ k \in Nat /\ k <= Len(se)
      /\ \A j \in 1..(Len(se) + 1) : S[j] \in Int
      /\ \A j \in 1..Len(se) : S[j] + 2 <= S[j + 1]
      /\ S[k + 1] >= 0
      /\ \A i, j \in 1..(Len(se) + 1) : i <= j => S[i] <= S[j]
    BY LaidFacts
<1>2. CASE m > k + 1
    <2>1. k + 1 \in 1..Len(se) /\ k + 2 \in 1..(Len(se) + 1) /\ k + 2 <= m /\ m \in 1..(Len(se) + 1)
        BY <1>1, <1>2
    <2>2. S[k + 2] <= S[m]
        BY <1>1, <2>1
    <2>3. S[k + 1] + 2 <= S[k + 2]
        BY <1>1, <2>1
    <2>4. S[k + 1] \in Int /\ S[k + 2] \in Int
        BY <1>1, <2>1
    <2> QED BY <1>1, <2>2, <2>3, <2>4
<1>3. CASE m < k + 1
    <2>1. m <= k /\ k \in 1..Len(se) /\ k \in 1..(Len(se) + 1) /\ m \in 1..(Len(se) + 1)
        BY <1>1, <1>3
    <2>2. S[m] <= S[k]
        BY <1>1, <2>1
    <2>3. S[k] + 2 <= S[k + 1]
        BY <1>1, <2>1
    <2>4. S[k] \in Int /\ S[k + 1] \in Int
        BY <1>1, <2>1
    <2>5. CASE S[k + 1] = 0
        BY <2>2, <2>3, <2>4, <2>5
    <2>6. CASE S[k + 1] = Whole(se[k], a) - FrameLen(se[k].len)
        <3>1. se[k] \in Message /\ S[k + 1] = S[k] + Whole(se[k], a)
            BY <2>1 DEF Laid
        <3>2. FrameLen(se[k].len) \in Nat /\ FrameLen(se[k].len) >= 2 /\ Whole(se[k], a) \in Nat
            BY <3>1, WholeSizes
        <3> QED BY <2>2, <2>4, <2>6, <3>1, <3>2
    <2> QED BY <2>5, <2>6 DEF Laid
<1> QED BY <1>1, <1>2, <1>3

(* One more frame at the end. *)
Extended(S, n, N) == [m \in 1..(n + 2) |-> IF m <= n + 1 THEN S[m] ELSE N]

(* send puts it behind the others. *)
LEMMA LaidSend ==
    ASSUME NEW S, NEW se \in Seq(Message), NEW a \in BOOLEAN, NEW k, NEW N, Laid(S, se, a, k, N),
           NEW x \in Message, N \in Nat
    PROVE  Laid(Extended(S, Len(se), N + Whole(x, a)), Append(se, x), a, k, N + Whole(x, a))
<1> DEFINE n == Len(se)
           t == Append(se, x)
           M == N + Whole(x, a)
           Q == Extended(S, n, M)
<1>1. /\ n \in Nat /\ k \in Nat /\ k <= n
      /\ \A j \in 1..(n + 1) : S[j] \in Int
      /\ \A j \in 1..n : se[j] \in Message /\ S[j + 1] = S[j] + Whole(se[j], a)
      /\ N = S[n + 1]
      /\ \A i, j \in 1..(n + 1) : i <= j => S[i] <= S[j]
    BY LaidFacts
<1>2. Whole(x, a) \in Nat /\ M \in Nat /\ N <= M
    BY WholeSizes
<1>3. Len(t) = n + 1 /\ (\A j \in 1..n : t[j] = se[j]) /\ t[n + 1] = x
    OBVIOUS
<1>4. \A l \in 1..n, m \in 1..(n + 1) : l < m => S[l + 1] <= S[m]
    BY DEF Laid
<1>5. S[k + 1] = 0 \/ (k > 0 /\ S[k + 1] = Whole(se[k], a) - FrameLen(se[k].len))
    BY DEF Laid
<1>6. \A i \in 1..N : \E m \in 1..n : S[m] < i /\ i <= S[m + 1]
    BY DEF Laid
<1>7. (\A m \in 1..(n + 1) : Q[m] = S[m]) /\ Q[n + 2] = M /\ DOMAIN Q = 1..(n + 2)
    BY <1>1 DEF Extended
<1> HIDE DEF n, t, M, Q
<1>8. Q \in [1..(n + 2) -> Int]
    <2>1. ASSUME NEW m \in 1..(n + 2) PROVE Q[m] \in Int
        <3>1. m \in 1..(n + 1) \/ m = n + 2
            BY <1>1
        <3>2. M \in Int
            BY <1>2
        <3> QED BY <1>1, <1>7, <3>1, <3>2
    <2>2. Q = [m \in 1..(n + 2) |-> Q[m]]
        BY DEF Q, Extended
    <2> QED BY <2>1, <2>2
<1>9. ASSUME NEW m \in 1..(n + 1) PROVE Q[m + 1] = Q[m] + Whole(t[m], a)
    <2>1. CASE m \in 1..n
        <3>1. m + 1 \in 1..(n + 1)
            BY <1>1, <2>1
        <3> QED BY <1>1, <1>3, <1>7, <2>1, <3>1
    <2>2. CASE m = n + 1
        <3>1. m + 1 = n + 2
            BY <1>1, <2>2
        <3> QED BY <1>1, <1>2, <1>3, <1>7, <2>2, <3>1 DEF M
    <2>3. m \in 1..n \/ m = n + 1
        BY <1>1
    <2> QED BY <2>1, <2>2, <2>3, Zenon
<1>10. ASSUME NEW l \in 1..(n + 1), NEW m \in 1..(n + 2), l < m PROVE Q[l + 1] <= Q[m]
    <2>1. CASE m \in 1..(n + 1)
        <3>1. l \in 1..n /\ l + 1 \in 1..(n + 1)
            BY <1>1, <1>10, <2>1
        <3> QED BY <1>4, <1>7, <1>10, <2>1, <3>1
    <2>2. CASE m = n + 2
        <3>1. CASE l = n + 1
            <4>1. l + 1 = n + 2
                BY <1>1, <3>1
            <4> QED BY <1>2, <1>7, <2>2, <4>1
        <3>2. CASE l \in 1..n
            <4>1. l + 1 \in 1..(n + 1) /\ n + 1 \in 1..(n + 1) /\ l + 1 <= n + 1
                BY <1>1, <3>2
            <4>2. S[l + 1] <= S[n + 1] /\ S[l + 1] \in Int
                BY <1>1, <4>1
            <4> QED BY <1>1, <1>2, <1>7, <2>2, <4>1, <4>2
        <3> QED BY <1>1, <3>1, <3>2
    <2> QED BY <1>1, <2>1, <2>2
<1>11. Q[k + 1] = 0 \/ (k > 0 /\ Q[k + 1] = Whole(t[k], a) - FrameLen(t[k].len))
    <2>1. k + 1 \in 1..(n + 1) /\ (k > 0 => k \in 1..n)
        BY <1>1
    <2> QED BY <1>3, <1>5, <1>7, <2>1
<1>12. ASSUME NEW i \in 1..M PROVE \E m \in 1..(n + 1) : Q[m] < i /\ i <= Q[m + 1]
    <2>1. CASE i <= N
        <3>1. i \in 1..N
            BY <2>1
        <3>2. PICK m \in 1..n : S[m] < i /\ i <= S[m + 1]
            BY <1>6, <3>1
        <3>3. m \in 1..(n + 1) /\ m + 1 \in 1..(n + 1)
            BY <1>1
        <3>4. Q[m] < i /\ i <= Q[m + 1]
            BY <1>7, <3>2, <3>3
        <3> QED BY <3>3, <3>4
    <2>2. CASE i > N
        <3>1. n + 1 \in 1..(n + 1) /\ (n + 1) + 1 = n + 2
            BY <1>1
        <3>2. Q[n + 1] < i /\ i <= Q[(n + 1) + 1]
            BY <1>1, <1>2, <1>7, <2>2, <3>1
        <3> QED BY <3>1, <3>2
    <2> QED BY <2>1, <2>2
<1>13. k \in 0..(n + 1) /\ (n + 1) + 1 = n + 2
    BY <1>1
<1>14. Laid(Q, t, a, k, M)
    BY <1>3, <1>7, <1>8, <1>9, <1>10, <1>11, <1>12, <1>13 DEF Laid
<1> QED BY <1>14 DEF n, t, M, Q

(* c bytes fewer in front. *)
Shifted(S, n, c) == [m \in 1..(n + 1) |-> S[m] - c]

(* retrieve takes a message off. *)
LEMMA LaidDrop ==
    ASSUME NEW S, NEW se \in Seq(Message), NEW a \in BOOLEAN, NEW k, NEW N, Laid(S, se, a, k, N),
           N \in Nat, k < Len(se), S[k + 1] = 0, NEW c, c = FrameLen(se[k + 1].len), c <= N
    PROVE  Laid(Shifted(S, Len(se), c), se, a, k + 1, N - c)
<1> DEFINE n == Len(se)
           Q == Shifted(S, n, c)
<1>1. /\ n \in Nat /\ k \in Nat /\ k <= n
      /\ \A j \in 1..(n + 1) : S[j] \in Int
      /\ \A j \in 1..n : se[j] \in Message /\ S[j + 1] = S[j] + Whole(se[j], a)
      /\ N = S[n + 1]
    BY LaidFacts
<1>2. k + 1 \in 1..n
    BY <1>1
<1>3. c \in Nat /\ Whole(se[k + 1], a) \in Nat
    BY <1>1, <1>2, WholeSizes
<1>4. \A l \in 1..n, m \in 1..(n + 1) : l < m => S[l + 1] <= S[m]
    BY DEF Laid
<1>6. \A i \in 1..N : \E m \in 1..n : S[m] < i /\ i <= S[m + 1]
    BY DEF Laid
<1>7. \A m \in 1..(n + 1) : Q[m] = S[m] - c
    BY DEF Shifted
<1>8. Q \in [1..(n + 1) -> Int]
    BY <1>1, <1>3 DEF Shifted
<1> HIDE DEF n, Q
<1>9. ASSUME NEW m \in 1..n PROVE Q[m + 1] = Q[m] + Whole(se[m], a)
    <2>1. m \in 1..(n + 1) /\ m + 1 \in 1..(n + 1)
        BY <1>1
    <2>2. Whole(se[m], a) \in Nat
        BY <1>1, WholeSizes
    <2>3. S[m + 1] = S[m] + Whole(se[m], a) /\ S[m] \in Int
        BY <1>1, <2>1
    <2>4. Q[m + 1] = S[m + 1] - c /\ Q[m] = S[m] - c
        BY <1>7, <2>1
    <2> QED BY <1>3, <2>2, <2>3, <2>4
<1>10. ASSUME NEW l \in 1..n, NEW m \in 1..(n + 1), l < m PROVE Q[l + 1] <= Q[m]
    <2>1. l + 1 \in 1..(n + 1)
        BY <1>1
    <2>2. S[l + 1] <= S[m] /\ S[l + 1] \in Int /\ S[m] \in Int
        BY <1>1, <1>4, <1>10, <2>1
    <2> QED BY <1>3, <1>7, <2>1, <2>2
<1>11. k + 1 > 0 /\ Q[(k + 1) + 1] = Whole(se[k + 1], a) - FrameLen(se[k + 1].len)
    <2>1. (k + 1) + 1 \in 1..(n + 1) /\ k + 1 > 0
        BY <1>1, <1>2
    <2>2. S[(k + 1) + 1] = 0 + Whole(se[k + 1], a)
        BY <1>1, <1>2
    <2> QED BY <1>3, <1>7, <2>1, <2>2
<1>12. ASSUME NEW i \in 1..(N - c) PROVE \E m \in 1..n : Q[m] < i /\ i <= Q[m + 1]
    <2>1. i + c \in 1..N
        BY <1>3
    <2>2. PICK m \in 1..n : S[m] < i + c /\ i + c <= S[m + 1]
        BY <1>6, <2>1
    <2>3. m \in 1..(n + 1) /\ m + 1 \in 1..(n + 1)
        BY <1>1
    <2>4. S[m] \in Int /\ S[m + 1] \in Int
        BY <1>1, <2>3
    <2>5. Q[m] < i /\ i <= Q[m + 1]
        BY <1>3, <1>7, <2>2, <2>3, <2>4
    <2> QED BY <2>5
<1>13. k + 1 \in 0..n /\ Q[n + 1] = N - c
    BY <1>1, <1>2, <1>7
<1>14. Laid(Q, se, a, k + 1, N - c)
    BY <1>8, <1>9, <1>10, <1>11, <1>12, <1>13 DEF Laid, n
<1> QED BY <1>14 DEF n, Q

(* The bytes of a frame as send makes it. *)
Sealed(m, x, a) == IF a THEN EncryptedFrame(m, x.len) ELSE Frame(m, x.len)

(* Its length, and which of them are encrypted. *)
LEMMA SealedBytes ==
    ASSUME NEW m \in Nat \ {0}, NEW x \in Message, NEW a \in BOOLEAN
    PROVE  /\ Sealed(m, x, a) \in Seq(CodecByte) /\ Len(Sealed(m, x, a)) = Whole(x, a)
           /\ \A i \in 1..Whole(x, a) :
                 Sealed(m, x, a)[i] = IF a /\ i <= EncryptedLen(x.len) THEN CipherByte(m, i - 1)
                                                                      ELSE PlainByte(m, i - 1)
<1>1. Whole(x, a) \in Nat
    BY WholeSizes
<1>2. \A i \in Nat \ {0} : PlainByte(m, i - 1) \in CodecByte /\ CipherByte(m, i - 1) \in CodecByte
    BY DEF PlainByte, CipherByte, CodecByte
<1>3. CASE a
    <2>1. Whole(x, a) = PaddedLen(x.len)
        BY <1>3 DEF Whole
    <2>2. PICK t \in Nat : t = PaddedLen(x.len)
        BY <1>1, <2>1
    <2>3. Sealed(m, x, a) = [i \in 1..t |-> IF i <= EncryptedLen(x.len) THEN CipherByte(m, i - 1)
                                                                      ELSE PlainByte(m, i - 1)]
        BY <1>3, <2>2 DEF Sealed, EncryptedFrame
    <2>4. Sealed(m, x, a) \in [1..t -> CodecByte]
        BY <2>3, <1>2
    <2>5. Sealed(m, x, a) \in Seq(CodecByte) /\ Len(Sealed(m, x, a)) = t
        BY <2>4, BytesAreSeq
    <2> QED BY <1>3, <2>1, <2>2, <2>3, <2>5
<1>4. CASE ~a
    <2>1. Whole(x, a) = FrameLen(x.len)
        BY <1>4 DEF Whole
    <2>2. PICK t \in Nat : t = FrameLen(x.len)
        BY <1>1, <2>1
    <2>3. Sealed(m, x, a) = [i \in 1..t |-> PlainByte(m, i - 1)]
        BY <1>4, <2>2 DEF Sealed, Frame
    <2>4. Sealed(m, x, a) \in [1..t -> CodecByte]
        BY <2>3, <1>2
    <2>5. Sealed(m, x, a) \in Seq(CodecByte) /\ Len(Sealed(m, x, a)) = t
        BY <2>4, BytesAreSeq
    <2> QED BY <1>4, <2>1, <2>2, <2>3, <2>5
<1> QED BY <1>3, <1>4

(* Different bytes of the stream are told apart. *)
LEMMA BytesDiffer ==
    ASSUME NEW m \in Nat \ {0}, NEW i
    PROVE  PlainByte(m, i) # Junk /\ CipherByte(m, i) # Junk
<1>1. PlainByte(m, i).kind = "plain" /\ CipherByte(m, i).kind = "cipher" /\ Junk.kind = "junk"
    BY DEF PlainByte, CipherByte, Junk
<1> QED BY <1>1

(* Without padding the next frame follows. *)
LEMMA NoPaddingFront ==
    ASSUME NEW S, NEW se \in Seq(Message), NEW a \in BOOLEAN, NEW k, NEW N, Laid(S, se, a, k, N),
           AllEven(se, 1, k)
    PROVE  S[k + 1] = 0
<1>1. Len(se) \in Nat /\ k \in Nat /\ k <= Len(se)
    BY LaidFacts
<1>2. CASE k > 0
    <2>1. k \in 1..k /\ k \in 1..Len(se)
        BY <1>1, <1>2
    <2>2. Even(se[k]) /\ se[k] \in Message
        BY <2>1 DEF AllEven
    <2>3. Whole(se[k], a) = FrameLen(se[k].len) /\ Whole(se[k], a) \in Nat
        BY <2>2, WholeSizes
    <2>4. Whole(se[k], a) - FrameLen(se[k].len) = 0
        BY <2>3
    <2> QED BY <2>4 DEF Laid
<1>3. CASE ~(k > 0)
    BY <1>3 DEF Laid
<1> QED BY <1>2, <1>3

(* Each frame whose predecessors have no padding begins with a block. *)
InStep(S, se, k) == \A m \in (k + 1)..Len(se) : AllEven(se, k + 1, m - 1) => S[m] % BlockSize = 0

(* And so does the next one to be sent. *)
LEMMA WholeBlocksEnd ==
    ASSUME NEW S, NEW se \in Seq(Message), NEW a \in BOOLEAN, NEW k, NEW N, Laid(S, se, a, k, N),
           AllEven(se, 1, k), InStep(S, se, k), AllEven(se, k + 1, Len(se))
    PROVE  N % BlockSize = 0
<1> DEFINE n == Len(se)
<1>1. /\ n \in Nat /\ k \in Nat /\ k <= n
      /\ \A j \in 1..(n + 1) : S[j] \in Int
      /\ \A j \in 1..n : se[j] \in Message /\ S[j + 1] = S[j] + Whole(se[j], a)
      /\ N = S[n + 1]
    BY LaidFacts
<1>2. CASE k = n
    <2>1. N = 0
        BY <1>1, <1>2, NoPaddingFront
    <2> QED BY <2>1, BlockPositive
<1>3. CASE k < n
    <2>1. n \in 1..n /\ n \in (k + 1)..n /\ n \in 1..(n + 1)
        BY <1>1, <1>3
    <2>2. AllEven(se, k + 1, n - 1)
        BY <1>1 DEF AllEven
    <2>3. S[n] % BlockSize = 0 /\ S[n] \in Int
        BY <1>1, <2>1, <2>2 DEF InStep
    <2>4. Even(se[n]) /\ se[n] \in Message
        BY <1>1, <2>1 DEF AllEven
    <2>5. Whole(se[n], a) = FrameLen(se[n].len) /\ Whole(se[n], a) \in Nat
        BY <2>4, WholeSizes
    <2>6. Whole(se[n], a) % BlockSize = 0
        BY <2>4, <2>5 DEF Even
    <2>7. PICK x \in Int : x = S[n]
        BY <2>3
    <2>8. PICK y \in Int : y = Whole(se[n], a)
        BY <2>5
    <2>9. (x + y) % BlockSize = 0
        BY <2>3, <2>6, <2>7, <2>8, SumMultiple
    <2>10. N = x + y
        BY <1>1, <2>1, <2>7, <2>8
    <2> QED BY <2>9, <2>10
<1> QED BY <1>1, <1>2, <1>3

(* send: the bytes in front stay, those of the new frame match. *)
LEMMA SendMatches ==
    ASSUME NEW S, NEW se \in Seq(Message), NEW a \in BOOLEAN, NEW k, NEW N \in Nat, Laid(S, se, a, k, N),
           NEW W \in Seq(CodecByte), Len(W) = N, NEW r \in Nat, r <= N, Matches(W, S, se, a, r),
           NEW x \in Message
    PROVE  Matches(W \o Sealed(Len(se) + 1, x, a), Extended(S, Len(se), N + Whole(x, a)), Append(se, x), a, r)
<1> DEFINE n == Len(se)
           f == Sealed(n + 1, x, a)
           w == Whole(x, a)
           V == W \o f
           t == Append(se, x)
           Q == Extended(S, n, N + w)
<1>1. /\ n \in Nat
      /\ \A j \in 1..(n + 1) : S[j] \in Int
      /\ N = S[n + 1]
      /\ \A i, j \in 1..(n + 1) : i <= j => S[i] <= S[j]
    BY LaidFacts
<1>2. n + 1 \in Nat \ {0} /\ w \in Nat
    BY <1>1, WholeSizes
<1>3. /\ f \in Seq(CodecByte) /\ Len(f) = w
      /\ \A i \in 1..w : f[i] = IF a /\ i <= EncryptedLen(x.len) THEN CipherByte(n + 1, i - 1)
                                                               ELSE PlainByte(n + 1, i - 1)
    BY <1>2, SealedBytes
<1>4. Len(t) = n + 1
    OBVIOUS
<1>5. (\A m \in 1..(n + 1) : Q[m] = S[m]) /\ Q[n + 2] = N + w
    BY <1>1 DEF Extended
<1> HIDE DEF f, w, t, Q
<1>6. Len(V) = N + w /\ \A i \in 1..(N + w) : V[i] = IF i <= N THEN W[i] ELSE f[i - N]
    BY <1>3, Joined
<1> HIDE DEF n, V
<1>7. ASSUME NEW m \in 1..(n + 1), NEW i \in 1..(N + w), Q[m] < i, i <= Q[m + 1]
      PROVE  Genuine(V[i], m, i - 1 - Q[m], a, i > r)
    <2>1. CASE m \in 1..n
        <3>1. m + 1 \in 1..(n + 1) /\ n + 1 \in 1..(n + 1) /\ m + 1 <= n + 1 /\ m \in 1..(n + 1)
            BY <1>1, <2>1
        <3>2. S[m + 1] <= S[n + 1] /\ S[m + 1] \in Int
            BY <1>1, <3>1
        <3>3. Q[m] = S[m] /\ Q[m + 1] = S[m + 1]
            BY <1>5, <3>1
        <3>4. i <= N /\ i \in 1..Len(W)
            BY <1>1, <1>7, <3>2, <3>3
        <3>5. V[i] = W[i]
            BY <1>6, <3>4
        <3>6. Genuine(W[i], m, i - 1 - S[m], a, i > r)
            BY <1>7, <2>1, <3>3, <3>4 DEF Matches, n
        <3> QED BY <3>3, <3>5, <3>6
    <2>2. CASE m = n + 1
        <3>1. Q[m] = N /\ Q[m + 1] = N + w
            <4>1. m + 1 = n + 2 /\ m \in 1..(n + 1)
                BY <1>1, <2>2
            <4> QED BY <1>1, <1>5, <2>2, <4>1
        <3>2. i - N \in 1..w /\ ~(i <= N) /\ (i - N) - 1 = i - 1 - N
            BY <1>2, <1>7, <3>1
        <3>3. V[i] = f[i - N]
            BY <1>6, <3>2
        <3>4. f[i - N] = IF a /\ i - N <= EncryptedLen(x.len) THEN CipherByte(m, i - 1 - N)
                                                           ELSE PlainByte(m, i - 1 - N)
            BY <1>3, <2>2, <3>2
        <3>5. PlainByte(m, i - 1 - N) # Junk /\ CipherByte(m, i - 1 - N) # Junk
            BY <1>2, <2>2, BytesDiffer
        <3> QED BY <3>1, <3>3, <3>4, <3>5, Zenon DEF Genuine
    <2> QED BY <1>1, <2>1, <2>2
<1>8. Matches(V, Q, t, a, r)
    BY <1>4, <1>6, <1>7 DEF Matches
<1> QED BY <1>8 DEF V, Q, t, f, w, n

(* aes_ is set. *)
Secret(a) == a

(* A whole frame is not shorter than what is encrypted of it. *)
LEMMA SecretSizes ==
    ASSUME NEW x \in Message, NEW a \in BOOLEAN, Secret(a)
    PROVE  EncryptedLen(x.len) <= Whole(x, a)
<1>1. a => EncryptedLen(x.len) <= Whole(x, a)
    BY WholeSizes
<1> QED BY <1>1, Zenon DEF Secret

(* It is encrypted where a block begins. *)
LEMMA SendNeat ==
    ASSUME NEW S, NEW se \in Seq(Message), NEW a \in BOOLEAN, Secret(a), NEW k, NEW N \in Nat, Laid(S, se, a, k, N),
           NEW W \in Seq(CodecByte), Len(W) = N, NEW r \in Nat, r <= N, NEW d,
           AllEven(se, 1, k), Neat(W, S, se, k, r, d), NEW x \in Message
    PROVE  Neat(W \o Sealed(Len(se) + 1, x, a), Extended(S, Len(se), N + Whole(x, a)), Append(se, x), k, r, d)
<1> DEFINE n == Len(se)
           f == Sealed(n + 1, x, a)
           w == Whole(x, a)
           V == W \o f
           t == Append(se, x)
           Q == Extended(S, n, N + w)
<1>1. /\ n \in Nat /\ k \in Nat /\ k <= n
      /\ \A j \in 1..(n + 1) : S[j] \in Int
      /\ \A j \in 1..n : se[j] \in Message /\ S[j + 1] = S[j] + Whole(se[j], a)
      /\ N = S[n + 1]
      /\ \A i, j \in 1..(n + 1) : i <= j => S[i] <= S[j]
    BY LaidFacts
<1>2. n + 1 \in Nat \ {0} /\ w \in Nat /\ EncryptedLen(x.len) \in Nat /\ EncryptedLen(x.len) <= w
    BY <1>1, WholeSizes, SecretSizes
<1>3. /\ f \in Seq(CodecByte) /\ Len(f) = w
      /\ \A i \in 1..w : f[i] = IF a /\ i <= EncryptedLen(x.len) THEN CipherByte(n + 1, i - 1)
                                                                  ELSE PlainByte(n + 1, i - 1)
    BY <1>2, SealedBytes
<1>4. Len(t) = n + 1 /\ (\A j \in 1..n : t[j] = se[j]) /\ t[n + 1] = x
    OBVIOUS
<1>5. \A m \in 1..(n + 1) : Q[m] = S[m]
    BY <1>1 DEF Extended
<1> HIDE DEF f, w, t, Q
<1>6. Len(V) = N + w /\ \A i \in 1..(N + w) : V[i] = IF i <= N THEN W[i] ELSE f[i - N]
    BY <1>3, Joined
<1> HIDE DEF n, V
<1>7. d \in 0..r /\ d % BlockSize = 0
    BY DEF Neat
<1>8. \E m \in (k + 1)..((n + 1) + 1) : r = Q[m]
    <2>1. PICK m \in (k + 1)..(n + 1) : r = S[m]
        BY DEF Neat, n
    <2>2. m \in 1..(n + 1) /\ m \in (k + 1)..((n + 1) + 1)
        BY <1>1
    <2> QED BY <1>5, <2>1, <2>2
<1>9. ASSUME NEW m \in (k + 1)..(n + 1), AllEven(t, k + 1, m - 1)
      PROVE  Q[m] % BlockSize = 0 /\ Veiled(V, Q, t, d, m)
    <2>0. m \in 1..(n + 1) /\ Q[m] = S[m]
        BY <1>1, <1>5
    <2>1. AllEven(se, k + 1, m - 1)
        <3>1. ASSUME NEW j \in (k + 1)..(m - 1) PROVE Even(se[j])
            <4>1. j \in 1..n
                BY <1>1
            <4> QED BY <1>4, <1>9, <4>1 DEF AllEven
        <3> QED BY <3>1 DEF AllEven
    <2>2. CASE m \in 1..n
        <3>1. m \in (k + 1)..Len(se)
            BY <2>2 DEF n
        <3>2. S[m] % BlockSize = 0 /\ Veiled(W, S, se, d, m)
            BY <2>1, <3>1 DEF Neat
        <3>3. ASSUME NEW i \in 1..(N + w), S[m] < i, i <= S[m] + EncryptedLen(t[m].len)
              PROVE  V[i] = IF i <= d THEN PlainByte(m, i - 1 - S[m]) ELSE CipherByte(m, i - 1 - S[m])
            <4>1. t[m] = se[m] /\ se[m] \in Message
                BY <1>1, <1>4, <2>2
            <4>2. EncryptedLen(se[m].len) \in Nat /\ EncryptedLen(se[m].len) <= Whole(se[m], a) /\ Whole(se[m], a) \in Nat
                BY <4>1, WholeSizes, SecretSizes
            <4>3. m + 1 \in 1..(n + 1) /\ n + 1 \in 1..(n + 1) /\ m + 1 <= n + 1
                BY <1>1, <2>2
            <4>4. S[m + 1] <= S[n + 1] /\ S[m + 1] \in Int /\ S[m] \in Int /\ S[m + 1] = S[m] + Whole(se[m], a)
                BY <1>1, <2>0, <2>2, <4>3
            <4>5. i <= N /\ i \in 1..Len(W)
                <5>1. i <= S[m] + EncryptedLen(se[m].len)
                    BY <3>3, <4>1
                <5>2. i <= S[m + 1]
                    BY <1>2, <4>2, <4>4, <5>1
                <5> QED BY <1>1, <1>2, <4>4, <5>2
            <4>6. V[i] = W[i]
                BY <1>6, <4>5
            <4> QED BY <3>2, <3>3, <4>1, <4>5, <4>6 DEF Veiled
        <3> QED BY <1>6, <2>0, <3>2, <3>3 DEF Veiled
    <2>3. CASE m = n + 1
        <3>1. InStep(S, se, k)
            BY DEF InStep, Neat
        <3>2. AllEven(se, k + 1, Len(se))
            <4>1. m - 1 = Len(se)
                BY <1>1, <2>3 DEF n
            <4> QED BY <2>1, <4>1
        <3>3. N % BlockSize = 0
            BY <3>1, <3>2, WholeBlocksEnd
        <3>4. ASSUME NEW i \in 1..(N + w), N < i, i <= N + EncryptedLen(t[m].len)
              PROVE  V[i] = IF i <= d THEN PlainByte(m, i - 1 - N) ELSE CipherByte(m, i - 1 - N)
            <4>1. t[m] = x /\ ~(i <= d) /\ ~(i <= N) /\ i - N \in 1..w /\ (i - N) - 1 = i - 1 - N
                BY <1>2, <1>4, <1>7, <2>3, <3>4
            <4>2. i - N <= EncryptedLen(x.len)
                BY <1>2, <3>4, <4>1
            <4>3. V[i] = f[i - N]
                BY <1>6, <4>1
            <4>4. f[i - N] = CipherByte(m, i - 1 - N)
                <5>1. f[i - N] = IF a /\ i - N <= EncryptedLen(x.len) THEN CipherByte(n + 1, (i - N) - 1)
                                                                   ELSE PlainByte(n + 1, (i - N) - 1)
                    BY <1>3, <4>1
                <5>2. f[i - N] = CipherByte(n + 1, (i - N) - 1)
                    BY <4>2, <5>1, Zenon DEF Secret
                <5> QED BY <2>3, <4>1, <5>2
            <4> QED BY <4>1, <4>3, <4>4
        <3>5. Q[m] = N
            BY <1>1, <2>0, <2>3
        <3> QED BY <1>6, <3>3, <3>4, <3>5 DEF Veiled
    <2> QED BY <1>1, <2>2, <2>3
<1>10. Neat(V, Q, t, k, r, d)
    BY <1>4, <1>7, <1>8, <1>9 DEF Neat
<1> QED BY <1>10 DEF V, Q, t, f, w, n

(* What Orderly says. *)
LEMMA OrderlyFacts ==
    ASSUME NEW a, NEW p, NEW se, NEW k, Orderly(a, p, se, k)
    PROVE  Secret(a) /\ AllEven(se, 1, k)
BY Zenon DEF Orderly, Secret

(* Bytes in three parts. *)
LEMMA Regrouped ==
    ASSUME NEW s \in Seq(CodecByte), NEW t \in Seq(CodecByte), NEW u \in Seq(CodecByte)
    PROVE  (s \o t) \o u = s \o (t \o u)
BY ConcatAssociative

(* The bytes in the buffer and those on their way. *)
LEMMA StreamBytes ==
    ASSUME NEW b, Sound(b, CodecByte), NEW st \in Seq(CodecByte)
    PROVE  /\ Readable(b) \in Seq(CodecByte) /\ Len(Readable(b)) = readableBytes(b) /\ readableBytes(b) \in Nat
           /\ Len(st) \in Nat
           /\ Readable(b) \o st \in Seq(CodecByte) /\ Len(Readable(b) \o st) = readableBytes(b) + Len(st)
           /\ \A i \in 1..(readableBytes(b) + Len(st)) :
                 (Readable(b) \o st)[i] = IF i <= readableBytes(b) THEN Readable(b)[i] ELSE st[i - readableBytes(b)]
<1>1. Readable(b) \in Seq(CodecByte) /\ Len(Readable(b)) = readableBytes(b) /\ readableBytes(b) \in Nat
    BY ReadableBytes
<1>2. PICK R \in Seq(CodecByte) : R = Readable(b)
    BY <1>1
<1>3. /\ R \o st \in Seq(CodecByte) /\ Len(R \o st) = Len(R) + Len(st)
      /\ \A i \in 1..(Len(R) + Len(st)) : (R \o st)[i] = IF i <= Len(R) THEN R[i] ELSE st[i - Len(R)]
    BY Joined
<1> QED BY <1>1, <1>2, <1>3

(* send *)
LEMMA SendDecoded ==
    ASSUME NEW b, Sound(b, CodecByte), NEW st \in Seq(CodecByte), NEW se \in Seq(Message), NEW k,
           NEW a \in BOOLEAN, NEW p \in BOOLEAN, Decoded(b, st, se, k, a, p), NEW x \in Message
    PROVE  /\ st \o Sealed(Len(se) + 1, x, a) \in Seq(CodecByte)
           /\ Decoded(b, st \o Sealed(Len(se) + 1, x, a), Append(se, x), k, a, p)
<1>1. PICK S : Arranged(S, b, st, se, k, a, p)
    BY DEF Decoded
<1> DEFINE r == readableBytes(b)
           R == Readable(b)
           W == R \o st
           N == r + Len(st)
           w == Whole(x, a)
           f == Sealed(Len(se) + 1, x, a)
           t == Append(se, x)
           Q == Extended(S, Len(se), N + w)
<1>2. R \in Seq(CodecByte) /\ r \in Nat /\ Len(st) \in Nat /\ W \in Seq(CodecByte) /\ Len(W) = N
    BY StreamBytes
<1>3. Laid(S, se, a, k, N) /\ Matches(W, S, se, a, r) /\ (Orderly(a, p, se, k) => Neat(W, S, se, k, r, Ahead(b)))
    BY <1>1 DEF Arranged
<1>4. N \in Nat /\ r <= N
    BY <1>2
<1>5. Len(se) + 1 \in Nat \ {0}
    OBVIOUS
<1>6. f \in Seq(CodecByte) /\ Len(f) = w /\ w \in Nat
    BY <1>5, SealedBytes, WholeSizes
<1> HIDE DEF r, R, W, N, f, w
<1>7. st \o f \in Seq(CodecByte) /\ Len(st \o f) = Len(st) + w
    BY <1>6
<1>8. R \o (st \o f) = W \o f
    <2>1. (R \o st) \o f = R \o (st \o f)
        BY <1>2, <1>6, Regrouped, Zenon
    <2> QED BY <2>1, Zenon DEF W
<1>9. r + Len(st \o f) = N + w
    BY <1>2, <1>6, <1>7 DEF N
<1>10. Laid(Q, t, a, k, N + w)
    BY <1>3, <1>4, LaidSend DEF w
<1>11. Matches(W \o f, Q, t, a, r)
    BY <1>2, <1>3, <1>4, SendMatches DEF f, w
<1>12. ASSUME Orderly(a, p, t, k) PROVE Neat(W \o f, Q, t, k, r, Ahead(b))
    <2>1. Orderly(a, p, se, k)
        <3>1. k \in Nat /\ k <= Len(se)
            BY <1>3, LaidFacts
        <3>2. AllEven(t, 1, k)
            BY <1>12, OrderlyFacts
        <3>3. ASSUME NEW j \in 1..k PROVE Even(se[j])
            <4>1. t[j] = se[j]
                BY <3>1
            <4> QED BY <3>2, <4>1 DEF AllEven
        <3>4. AllEven(se, 1, k)
            BY <3>3 DEF AllEven
        <3> QED BY <1>12, <3>4, Zenon DEF Orderly
    <2>2. Secret(a) /\ AllEven(se, 1, k)
        BY <2>1, OrderlyFacts
    <2>3. PICK d : d = Ahead(b)
        BY Zenon
    <2>4. Neat(W, S, se, k, r, d)
        BY <1>3, <2>1, <2>3, Zenon
    <2>5. Neat(W \o f, Q, t, k, r, d)
        BY <1>2, <1>3, <1>4, <2>2, <2>4, SendNeat DEF f, w
    <2> QED BY <2>3, <2>5, Zenon
<1>13. Arranged(Q, b, st \o f, t, k, a, p)
    BY <1>8, <1>9, <1>10, <1>11, <1>12, Zenon DEF Arranged, r, R
<1>14. Decoded(b, st \o f, t, k, a, p)
    BY <1>13, Zenon DEF Decoded
<1> QED BY <1>7, <1>14 DEF f

(* A byte on its way tells its place in the frame. *)
LEMMA UnreadByte ==
    ASSUME NEW x, NEW m, NEW at, NEW a, Genuine(x, m, at, a, TRUE)
    PROVE  x.at = at
<1>1. x \in {PlainByte(m, at), CipherByte(m, at)}
    BY Zenon DEF Genuine
<1> QED BY <1>1 DEF PlainByte, CipherByte

(* The byte behind the first e is the first one of a frame. *)
FrameFollows(W, S, se, a, k, N, r, e) ==
    /\ N \in Nat /\ Laid(S, se, a, k, N)
    /\ W \in Seq(CodecByte) /\ Len(W) = N /\ r \in Nat /\ Matches(W, S, se, a, r)
    /\ S[k + 1] = 0 /\ e \in Nat /\ r < e /\ e < N /\ W[e + 1].at = 0

(* So a frame ends there. *)
LEMMA ReadsToBoundary ==
    ASSUME NEW W, NEW S, NEW se \in Seq(Message), NEW a \in BOOLEAN, NEW k, NEW N, NEW r, NEW e,
           FrameFollows(W, S, se, a, k, N, r, e)
    PROVE  \E m \in (k + 1)..(Len(se) + 1) : e = S[m]
<1>0. /\ N \in Nat /\ Laid(S, se, a, k, N)
      /\ W \in Seq(CodecByte) /\ Len(W) = N /\ r \in Nat /\ Matches(W, S, se, a, r)
      /\ S[k + 1] = 0 /\ e \in Nat /\ r < e /\ e < N /\ W[e + 1].at = 0
    BY DEF FrameFollows
<1>1. /\ Len(se) \in Nat /\ k \in Nat /\ k <= Len(se)
      /\ \A j \in 1..(Len(se) + 1) : S[j] \in Int
      /\ \A i, j \in 1..(Len(se) + 1) : i <= j => S[i] <= S[j]
    BY <1>0, LaidFacts
<1>2. e + 1 \in 1..N /\ e + 1 \in 1..Len(W) /\ e + 1 > r
    BY <1>0
<1>3. PICK m \in 1..Len(se) : S[m] < e + 1 /\ e + 1 <= S[m + 1]
    BY <1>0, <1>2 DEF Laid
<1>4. Genuine(W[e + 1], m, (e + 1) - 1 - S[m], a, e + 1 > r)
    BY <1>0, <1>2, <1>3 DEF Matches
<1>5. (e + 1 > r) = TRUE
    BY <1>2
<1>6. W[e + 1].at = (e + 1) - 1 - S[m]
    BY <1>4, <1>5, UnreadByte, Zenon
<1>7. S[m] \in Int /\ m \in 1..(Len(se) + 1) /\ m + 1 \in 1..(Len(se) + 1) /\ k + 1 \in 1..(Len(se) + 1)
    BY <1>1
<1>8. e = S[m]
    BY <1>0, <1>6, <1>7
<1>9. CASE m <= k
    <2>1. S[m + 1] <= S[k + 1] /\ S[m + 1] \in Int
        BY <1>1, <1>7, <1>9
    <2> QED BY <1>0, <1>3, <2>1
<1>10. CASE m > k
    <2>1. m \in (k + 1)..(Len(se) + 1)
        BY <1>1, <1>10
    <2> QED BY <1>8, <2>1
<1> QED BY <1>1, <1>9, <1>10

(* The read ends where a frame ends: WholeFrame, of any stream. *)
EndsFrame(st, n) == n = Len(st) \/ st[n + 1].at = 0

(* Whether the stream has been cut within a frame by now. *)
CutAt(q, p, st, n) == q = (p \/ ~EndsFrame(st, n))

(* What is left of the buffer b and the stream st when n bytes are read. *)
Reads(c, y, b, st, n) == c = readFd(b, SubSeq(st, 1, n)) /\ y = SubSeq(st, n + 1, Len(st))

(* readFd *)
LEMMA ReadDecoded ==
    ASSUME Zero \in CodecByte,
           NEW b, Sound(b, CodecByte), Len(b.data) < SizeModulus,
           NEW st \in Seq(CodecByte), NEW se \in Seq(Message), NEW k,
           NEW a \in BOOLEAN, NEW p \in BOOLEAN, Decoded(b, st, se, k, a, p),
           NEW n \in 1..Len(st), NEW q \in BOOLEAN, CutAt(q, p, st, n),
           NEW c, NEW y, Reads(c, y, b, st, n)
    PROVE  /\ Sound(c, CodecByte)
           /\ y \in Seq(CodecByte)
           /\ Decoded(c, y, se, k, a, q)
<1>1. PICK S : Arranged(S, b, st, se, k, a, p)
    BY DEF Decoded
<1> DEFINE r == readableBytes(b)
           R == Readable(b)
           W == R \o st
           N == r + Len(st)
           x == SubSeq(st, 1, n)
<1>r. y = SubSeq(st, n + 1, Len(st)) /\ c = readFd(b, x)
    BY DEF Reads
<1>2. /\ R \in Seq(CodecByte) /\ Len(R) = r /\ r \in Nat /\ Len(st) \in Nat
      /\ W \in Seq(CodecByte) /\ Len(W) = N
      /\ \A i \in 1..N : W[i] = IF i <= r THEN R[i] ELSE st[i - r]
    BY StreamBytes
<1>3. Laid(S, se, a, k, N) /\ Matches(W, S, se, a, r) /\ (Orderly(a, p, se, k) => Neat(W, S, se, k, r, Ahead(b)))
    BY <1>1 DEF Arranged
<1>4. N \in Nat /\ r <= N /\ n \in Nat /\ n \in 0..Len(st) /\ r + n \in Nat /\ r + n <= N
    BY <1>2
<1>5. x \in Seq(CodecByte) /\ Len(x) = n /\ y \in Seq(CodecByte) /\ Len(y) = Len(st) - n
    BY <1>4, <1>r
<1>6. x \o y = st
    BY <1>4, <1>r, SplitAt
<1> HIDE DEF x
<1>7. Sound(c, CodecByte) /\ Readable(c) = R \o x
    BY <1>5, <1>r, ReadFdContent
<1> HIDE DEF r, R, W, N
<1>8. readableBytes(c) = r + n
    <2>1. Len(R \o x) = r + n
        <3>1. Len(R \o x) = Len(R) + Len(x)
            BY <1>2, <1>5, Joined
        <3> QED BY <1>2, <1>5, <3>1
    <2> QED BY <1>7, <2>1, ReadableBytes
<1>9. Readable(c) \o y = W
    <2>1. (R \o x) \o y = R \o (x \o y)
        <3>1. R \in Seq(CodecByte) /\ x \in Seq(CodecByte) /\ y \in Seq(CodecByte)
            BY <1>2, <1>5
        <3> QED BY <3>1, Regrouped, Zenon
    <2> QED BY <1>6, <1>7, <2>1, Zenon DEF W
<1>10. readableBytes(c) + Len(y) = N
    BY <1>2, <1>4, <1>5, <1>8 DEF N
<1>11. Matches(W, S, se, a, r + n)
    <2>1. ASSUME NEW m \in 1..Len(se), NEW i \in 1..Len(W), S[m] < i, i <= S[m + 1]
          PROVE  Genuine(W[i], m, i - 1 - S[m], a, i > r + n)
        <3>1. Genuine(W[i], m, i - 1 - S[m], a, i > r)
            BY <1>3, <2>1 DEF Matches
        <3>2. i > r + n => i > r
            BY <1>2, <1>4
        <3> QED BY <3>1, <3>2, Zenon DEF Genuine
    <2> QED BY <2>1 DEF Matches
<1>c. ~q => ~p /\ EndsFrame(st, n)
    BY Zenon DEF CutAt
<1>12. ASSUME Orderly(a, q, se, k) PROVE Neat(W, S, se, k, r + n, Ahead(c))
    <2>1. ~q /\ AllEven(se, 1, k)
        BY <1>12, Zenon DEF Orderly
    <2>2. Orderly(a, p, se, k) /\ EndsFrame(st, n)
        BY <1>c, <1>12, <2>1, Zenon DEF Orderly
    <2>3. Neat(W, S, se, k, r, Ahead(b))
        BY <1>3, <2>2, Zenon
    <2>4. Ahead(b) \in 0..r /\ Ahead(b) % BlockSize = 0
        BY <2>3 DEF Neat
    <2>5. InReach(b)
        <3>1. b.reader \in Nat /\ b.writer \in Nat /\ b.decrypt \in Int
            BY BufferAssumption DEF Sound, BufferType
        <3> QED BY <2>4, <3>1 DEF InReach, Ahead, r, readableBytes
    <2>6. Ahead(c) = Ahead(b)
        BY <1>5, <1>r, <2>5, ReadFdAhead
    <2>7. Ahead(c) \in 0..(r + n) /\ Ahead(c) % BlockSize = 0
        BY <1>2, <1>4, <2>4, <2>6
    <2>8. S[k + 1] = 0
        BY <1>3, <2>1, NoPaddingFront
    <2>9. \E m \in (k + 1)..(Len(se) + 1) : r + n = S[m]
        <3>1. CASE n = Len(st)
            <4>1. N = S[Len(se) + 1] /\ Len(se) \in Nat /\ k \in Nat /\ k <= Len(se)
                BY <1>3, LaidFacts
            <4>2. Len(se) + 1 \in (k + 1)..(Len(se) + 1)
                BY <4>1
            <4>3. r + n = N
                BY <3>1 DEF N
            <4> QED BY <4>1, <4>2, <4>3
        <3>2. CASE n # Len(st)
            <4>1. st[n + 1].at = 0
                BY <2>2, <3>2 DEF EndsFrame
            <4>2. r + n < N /\ r < r + n /\ (r + n) + 1 \in 1..N /\ ~((r + n) + 1 <= r) /\ ((r + n) + 1) - r = n + 1
                BY <1>2, <1>4, <3>2 DEF N
            <4>3. W[(r + n) + 1] = st[n + 1]
                BY <1>2, <4>2
            <4>4. W[(r + n) + 1].at = 0
                BY <4>1, <4>3
            <4>5. PICK e \in Nat : e = r + n
                BY <1>4
            <4>6. r < e /\ e < N /\ W[e + 1].at = 0
                BY <4>2, <4>4, <4>5
            <4>7. \E m \in (k + 1)..(Len(se) + 1) : e = S[m]
                <5>1. FrameFollows(W, S, se, a, k, N, r, e)
                    BY <1>2, <1>3, <1>4, <2>8, <4>6, Zenon DEF FrameFollows
                <5> QED BY <5>1, ReadsToBoundary
            <4> QED BY <4>5, <4>7
        <3> QED BY <3>1, <3>2
    <2>10. \A m \in (k + 1)..Len(se) :
              AllEven(se, k + 1, m - 1) => S[m] % BlockSize = 0 /\ Veiled(W, S, se, Ahead(b), m)
        BY <2>3 DEF Neat
    <2> QED BY <2>6, <2>7, <2>9, <2>10, Zenon DEF Neat
<1>13. Arranged(S, c, y, se, k, a, q)
    BY <1>3, <1>8, <1>9, <1>10, <1>11, <1>12, Zenon DEF Arranged
<1>14. Decoded(c, y, se, k, a, q)
    BY <1>13, Zenon DEF Decoded
<1> QED BY <1>5, <1>7, <1>14

(* What decrypting does to a byte. *)
Turned(x, y) == \/ y = x
                \/ y = Junk
                \/ \E m, at : x = CipherByte(m, at) /\ y = PlainByte(m, at)

(* In a block, whatever it holds. *)
LEMMA TurnedInBlock ==
    ASSUME NEW memory, NEW at, NEW j \in 1..BlockSize
    PROVE  Turned(memory[at + j], DecryptBlock(memory, at)[j])
<1> DEFINE first == memory[at + 1]
           CipherAt(i) == memory[at + i] = CipherByte(first.msg, first.at + i - 1)
           Regular == first.at % BlockSize = 0 /\ \A i \in 1..BlockSize : CipherAt(i)
<1>1. DecryptBlock(memory, at) = IF Regular THEN [i \in 1..BlockSize |-> PlainByte(first.msg, first.at + i - 1)]
                                            ELSE [i \in 1..BlockSize |-> Junk]
    BY DEF DecryptBlock
<1>2. CASE Regular
    <2>1. CipherAt(j)
        BY <1>2
    <2>2. DecryptBlock(memory, at)[j] = PlainByte(first.msg, first.at + j - 1)
        BY <1>1, <1>2
    <2>3. memory[at + j] = CipherByte(first.msg, first.at + j - 1)
        BY <2>1
    <2> HIDE DEF first
    <2> QED BY <2>2, <2>3, Zenon DEF Turned
<1>3. CASE ~Regular
    <2>1. DecryptBlock(memory, at)[j] = Junk
        <3> HIDE DEF Regular
        <3> QED BY <1>1, <1>3
    <2> QED BY <2>1 DEF Turned
<1> QED BY <1>2, <1>3

(* A block that was encrypted as one. *)
OneBlock(memory, at, m, s) == \A j \in 1..BlockSize : memory[at + j] = CipherByte(m, s + j - 1)

(* It is decrypted. *)
LEMMA BlockDecrypts ==
    ASSUME NEW memory, NEW at \in Int, NEW m, NEW s \in Nat, s % BlockSize = 0,
           OneBlock(memory, at, m, s), NEW j \in 1..BlockSize
    PROVE  DecryptBlock(memory, at)[j] = PlainByte(m, s + j - 1)
<1> DEFINE first == memory[at + 1]
<1>1. 1 \in 1..BlockSize /\ s + 1 - 1 = s
    BY BlockPositive
<1>2. first = CipherByte(m, s)
    BY <1>1 DEF OneBlock
<1>3. first.msg = m /\ first.at = s
    BY <1>2 DEF CipherByte
<1>4. \A i \in 1..BlockSize : memory[at + i] = CipherByte(first.msg, first.at + i - 1)
    BY <1>3 DEF OneBlock
<1>5. first.at % BlockSize = 0
    BY <1>3
<1>6. DecryptBlock(memory, at) = [i \in 1..BlockSize |-> PlainByte(first.msg, first.at + i - 1)]
    BY <1>4, <1>5 DEF DecryptBlock
<1>7. DecryptBlock(memory, at)[j] = PlainByte(first.msg, first.at + j - 1)
    <2> HIDE DEF first
    <2> QED BY <1>6
<1> QED BY <1>3, <1>7

(* A byte stays one, and the one it is. *)
LEMMA TurnedByte ==
    ASSUME NEW x \in CodecByte, NEW y, Turned(x, y)
    PROVE  y \in CodecByte
<1>1. CASE y = x
    BY <1>1
<1>2. CASE y = Junk
    BY <1>2 DEF Junk, CodecByte
<1>3. CASE \E m, at : x = CipherByte(m, at) /\ y = PlainByte(m, at)
    <2>1. PICK m, at : x = CipherByte(m, at) /\ y = PlainByte(m, at)
        BY <1>3
    <2>2. x.msg = m /\ x.at = at /\ x.msg \in Nat /\ x.at \in Nat
        BY <2>1 DEF CipherByte, CodecByte
    <2> QED BY <2>1, <2>2 DEF PlainByte, CodecByte
<1> QED BY <1>1, <1>2, <1>3 DEF Turned

(* Its message and its place stay too. *)
LEMMA TurnedGenuine ==
    ASSUME NEW x, NEW y, Turned(x, y), NEW m, NEW at, x \in {Junk, PlainByte(m, at), CipherByte(m, at)}
    PROVE  y \in {Junk, PlainByte(m, at), CipherByte(m, at)}
<1>1. CASE y = x
    BY <1>1
<1>2. CASE y = Junk
    BY <1>2
<1>3. CASE \E n, i : x = CipherByte(n, i) /\ y = PlainByte(n, i)
    <2>1. PICK n, i : x = CipherByte(n, i) /\ y = PlainByte(n, i)
        BY <1>3
    <2>2. x.kind = "cipher" /\ x.msg = n /\ x.at = i
        BY <2>1 DEF CipherByte
    <2>3. Junk.kind = "junk" /\ PlainByte(m, at).kind = "plain" /\ CipherByte(m, at).msg = m /\ CipherByte(m, at).at = at
        BY DEF Junk, PlainByte, CipherByte
    <2>4. x = CipherByte(m, at)
        BY <2>2, <2>3
    <2>5. n = m /\ i = at
        BY <2>2, <2>3, <2>4
    <2> QED BY <2>1, <2>5
<1> QED BY <1>1, <1>2, <1>3 DEF Turned

(* decryptBuffer, of any buffer. *)
LEMMA DecryptContent ==
    ASSUME NEW b, Sound(b, CodecByte)
    PROVE  /\ Sound(decryptBuffer(b), CodecByte)
           /\ decryptBuffer(b).reader = b.reader /\ decryptBuffer(b).writer = b.writer
           /\ Len(decryptBuffer(b).data) = Len(b.data)
           /\ decryptBuffer(b).decrypt = (b.decrypt + InBlocks(unDecryptedBytes(b))) % SizeModulus
           /\ \A i \in 1..Len(b.data) :
                 /\ Turned(b.data[i], decryptBuffer(b).data[i])
                 /\ decryptBuffer(b).data[i] =
                        IF b.decrypt < i /\ i <= b.decrypt + InBlocks(unDecryptedBytes(b))
                        THEN DecryptBlock(b.data, i - 1 - ((i - 1 - b.decrypt) % BlockSize))[((i - 1 - b.decrypt) % BlockSize) + 1]
                        ELSE b.data[i]
<1> DEFINE e == b.decrypt
           n == Len(b.data)
           size == InBlocks(unDecryptedBytes(b))
           now(i) == IF e < i /\ i <= e + size
                     THEN DecryptBlock(b.data, i - 1 - ((i - 1 - e) % BlockSize))[((i - 1 - e) % BlockSize) + 1]
                     ELSE b.data[i]
           f == [i \in 1..n |-> now(i)]
           c == decryptBuffer(b)
<1>1. /\ b \in BufferType(CodecByte) /\ b.data \in Seq(CodecByte) /\ e \in Int /\ n \in Nat
      /\ b.reader \in Nat /\ b.writer \in Nat
    BY BufferAssumption DEF Sound, BufferType
<1>2. unDecryptedBytes(b) \in Nat
    <2>1. PICK x \in Int : x = b.writer - b.decrypt
        BY <1>1
    <2>2. x % SizeModulus \in 0..(SizeModulus - 1)
        BY ModType
    <2>3. x % SizeModulus \in Nat
        BY <2>2, BufferAssumption
    <2> QED BY <2>1, <2>3 DEF unDecryptedBytes
<1>3. size \in Nat
    BY <1>2, BlocksNat
<1>4. (e + size) % SizeModulus \in 0..(SizeModulus - 1)
    <2>1. e + size \in Int
        BY <1>1, <1>3
    <2> HIDE DEF e, size
    <2> QED BY <2>1, ModType
<1>5. c = [[b EXCEPT !.data = f] EXCEPT !.decrypt = (@ + size) % SizeModulus]
    BY DEF decryptBuffer, hasDecrypt
<1>6. ASSUME NEW i \in 1..n PROVE Turned(b.data[i], now(i)) /\ now(i) \in CodecByte
    <2>1. CASE e < i /\ i <= e + size
        <3>1. PICK y : y = (i - 1 - e) % BlockSize
            BY Zenon
        <3>2. y \in Int /\ 0 <= y /\ y < BlockSize
            <4>1. i - 1 - e \in Int
                BY <1>1
            <4> HIDE DEF e
            <4> QED BY <3>1, <4>1, WholeBlocks
        <3>3. y + 1 \in 1..BlockSize /\ (i - 1 - y) + (y + 1) = i
            BY <1>1, <3>2, BlockPositive
        <3>4. now(i) = DecryptBlock(b.data, i - 1 - y)[y + 1]
            <4> HIDE DEF e, size
            <4> QED BY <2>1, <3>1
        <3>5. PICK z : z = i - 1 - y
            BY Zenon
        <3>6. PICK j : j = y + 1
            BY Zenon
        <3>7. Turned(b.data[z + j], DecryptBlock(b.data, z)[j])
            BY <3>3, <3>6, TurnedInBlock
        <3>8. z + j = i
            BY <3>3, <3>5, <3>6
        <3> QED BY <1>1, <3>4, <3>5, <3>6, <3>7, <3>8, TurnedByte
    <2>2. CASE ~(e < i /\ i <= e + size)
        <3>1. now(i) = b.data[i]
            BY <2>2
        <3> QED BY <1>1, <3>1 DEF Turned
    <2> QED BY <2>1, <2>2
<1> HIDE DEF now, size, e
<1>7. f \in Seq(CodecByte) /\ Len(f) = n /\ \A i \in 1..n : f[i] = now(i)
    <2>1. f \in [1..n -> CodecByte]
        BY <1>6
    <2> QED BY <1>1, <2>1, BytesAreSeq
<1> HIDE DEF f, n
<1>8. /\ c \in BufferType(CodecByte) /\ c.data = f /\ c.reader = b.reader /\ c.writer = b.writer
      /\ c.decrypt = (e + size) % SizeModulus
    BY <1>1, <1>4, <1>5, <1>7 DEF BufferType, e
<1> HIDE DEF c
<1>9. Sound(c, CodecByte)
    BY <1>7, <1>8 DEF Sound, n
<1> QED BY <1>6, <1>7, <1>8, <1>9 DEF c, n, now, e, size

(* memory has, behind index g, bytes d + 1 to e of the stream: of the      *)
(* frame that begins behind byte s of it, the first t, encrypted.          *)
VeiledIn(memory, g, d, e, m, s, t) ==
    \A x \in (d + 1)..e : s < x /\ x <= s + t => memory[g + x] = CipherByte(m, x - 1 - s)

(* All four are at the border of a block, and byte i is number y of one.   *)
Located(d, e, s, t, i, y) ==
    /\ d % BlockSize = 0 /\ e % BlockSize = 0 /\ s % BlockSize = 0 /\ t % BlockSize = 0
    /\ d < i /\ i <= e /\ s < i /\ i <= s + t
    /\ y = (i - 1 - d) % BlockSize

Unveiled(memory, g, i, y, m, s) ==
    DecryptBlock(memory, g + (i - 1 - y))[y + 1] = PlainByte(m, i - 1 - s)

(* Then they are decrypted.                                                *)
LEMMA ByteUnveiled ==
    ASSUME NEW d \in Nat, NEW e \in Nat, NEW s \in Int, NEW t \in Nat, NEW i \in Int, NEW y,
           Located(d, e, s, t, i, y),
           NEW memory, NEW g \in Int, NEW m, VeiledIn(memory, g, d, e, m, s, t)
    PROVE  Unveiled(memory, g, i, y, m, s)
<1>0. /\ d % BlockSize = 0 /\ e % BlockSize = 0 /\ s % BlockSize = 0 /\ t % BlockSize = 0
      /\ d < i /\ i <= e /\ s < i /\ i <= s + t
      /\ y = (i - 1 - d) % BlockSize
    BY DEF Located
<1> USE <1>0
<1>1. PICK n \in Nat : n = i - 1 - d
    OBVIOUS
<1>2. y \in Int /\ 0 <= y /\ y < BlockSize
    BY <1>1, WholeBlocks
<1>3. InBlocks(n) \in Nat /\ InBlocks(n) % BlockSize = 0 /\ InBlocks(n) = n - y
    BY <1>1, WholeBlocks, BlocksNat DEF InBlocks
<1>4. PICK x : x = i - 1 - y
    BY Zenon
<1>5. x \in Int /\ x = InBlocks(n) + d /\ d <= x
    BY <1>1, <1>2, <1>3, <1>4
<1>6. x % BlockSize = 0
    <2>1. PICK z \in Int : z = InBlocks(n)
        BY <1>3
    <2>2. (z + d) % BlockSize = 0
        BY <1>3, <2>1, SumMultiple
    <2> QED BY <1>5, <2>1, <2>2
<1>7. x + BlockSize <= e
    <2>1. x < e
        BY <1>2, <1>4
    <2> QED BY <1>5, <1>6, <2>1, NextMultiple
<1>8. x + BlockSize <= s + t
    <2>1. PICK z \in Int : z = s + t
        OBVIOUS
    <2>2. z % BlockSize = 0
        BY <2>1, SumMultiple
    <2>3. x < z
        BY <1>2, <1>4, <2>1
    <2>4. x + BlockSize <= z
        BY <1>5, <1>6, <2>2, <2>3, NextMultiple
    <2> QED BY <2>1, <2>4
<1>9. s <= x
    <2>1. CASE x < s
        <3>1. x + BlockSize <= s
            BY <1>5, <1>6, <2>1, NextMultiple
        <3> QED BY <1>2, <1>4, <3>1, BlockPositive
    <2> QED BY <1>5, <2>1
<1>10. PICK u \in Nat : u = x - s
    BY <1>5, <1>9
<1>11. u % BlockSize = 0
    BY <1>5, <1>6, <1>10, SumMultiple
<1>12. ASSUME NEW j \in 1..BlockSize PROVE memory[(g + x) + j] = CipherByte(m, u + j - 1)
    <2>1. x + j \in (d + 1)..e /\ s < x + j /\ x + j <= s + t
        BY <1>5, <1>7, <1>8, <1>9, BlockPositive
    <2>2. memory[g + (x + j)] = CipherByte(m, (x + j) - 1 - s)
        BY <2>1 DEF VeiledIn
    <2>3. g + (x + j) = (g + x) + j /\ (x + j) - 1 - s = u + j - 1
        BY <1>5, <1>10
    <2> QED BY <2>2, <2>3
<1>13. y + 1 \in 1..BlockSize /\ u + (y + 1) - 1 = i - 1 - s
    BY <1>2, <1>4, <1>10, BlockPositive
<1>14. PICK h \in Int : h = g + x
    BY <1>5
<1>15. PICK j \in 1..BlockSize : j = y + 1
    BY <1>13
<1>16. OneBlock(memory, h, m, u)
    BY <1>12, <1>14 DEF OneBlock
<1>17. DecryptBlock(memory, h)[j] = PlainByte(m, u + j - 1)
    BY <1>11, <1>16, BlockDecrypts
<1> QED BY <1>4, <1>13, <1>14, <1>15, <1>17 DEF Unveiled

(* decryptBuffer, of a buffer in which decryptIndex_ is at the border of a *)
(* block: all whole blocks are decrypted, and nothing else.                *)
LEMMA DecryptNeat ==
    ASSUME NEW b, Sound(b, CodecByte), Len(b.data) < SizeModulus,
           NEW st \in Seq(CodecByte), NEW se \in Seq(Message), NEW a \in BOOLEAN, Secret(a),
           NEW k, NEW S, Laid(S, se, a, k, readableBytes(b) + Len(st)),
           Neat(Readable(b) \o st, S, se, k, readableBytes(b), Ahead(b))
    PROVE  /\ Neat(Readable(decryptBuffer(b)) \o st, S, se, k, readableBytes(b), Ahead(decryptBuffer(b)))
           /\ readableBytes(b) < Ahead(decryptBuffer(b)) + BlockSize
<1> DEFINE r == readableBytes(b)
           W == Readable(b) \o st
           N == r + Len(st)
           d == Ahead(b)
           c == decryptBuffer(b)
           V == Readable(c) \o st
           g == b.reader
           e == Ahead(c)
           size == InBlocks(unDecryptedBytes(b))
<1>1. d \in 0..r /\ d % BlockSize = 0 /\ r \in Nat
    BY ReadableBytes DEF Neat
<1>2. b.reader \in Nat /\ b.writer \in Nat /\ b.decrypt \in Int /\ b.writer <= Len(b.data) /\ Len(b.data) \in Nat
    BY BufferAssumption DEF Sound, BufferType
<1>3. InReach(b)
    BY <1>1, <1>2 DEF InReach, Ahead, readableBytes
<1>4. unDecryptedBytes(b) = r - d
    BY <1>3, BehindDecrypt
<1>5. PICK u \in Nat : u = r - d
    BY <1>1
<1>6. size = InBlocks(u)
    BY <1>4, <1>5
<1>7. size \in Nat /\ size % BlockSize = 0 /\ size <= u /\ u < size + BlockSize
    BY <1>6, WholeBlocks, BlocksNat
<1>8. /\ Sound(c, CodecByte) /\ c.reader = b.reader /\ c.writer = b.writer
      /\ Len(c.data) = Len(b.data)
      /\ c.decrypt = (b.decrypt + size) % SizeModulus
      /\ \A i \in 1..Len(b.data) :
             c.data[i] = IF b.decrypt < i /\ i <= b.decrypt + size
                         THEN DecryptBlock(b.data, i - 1 - ((i - 1 - b.decrypt) % BlockSize))[((i - 1 - b.decrypt) % BlockSize) + 1]
                         ELSE b.data[i]
    BY DecryptContent
<1> HIDE DEF c, size
<1>9. (b.decrypt + size) % SizeModulus = b.decrypt + size
    <2>1. PICK z : z = b.decrypt + size
        BY Zenon
    <2>2. z \in Int /\ 0 <= z /\ z < SizeModulus
        <3>1. d = b.decrypt - b.reader /\ r = b.writer - b.reader
            BY DEF Ahead, readableBytes
        <3>2. SizeModulus \in Nat /\ b.decrypt >= 0
            BY BufferAssumption, <1>2, <1>3 DEF InReach
        <3>3. size <= b.writer - b.decrypt
            BY <1>2, <1>5, <1>7, <3>1
        <3>4. size \in Nat /\ b.decrypt \in Int /\ b.writer < SizeModulus
            BY <1>2, <1>7, <3>2
        <3>5. PICK l \in Int : l = b.decrypt
            BY <3>4
        <3>6. PICK w \in Int : w = b.writer
            BY <1>2
        <3>7. PICK v \in Nat : v = size
            BY <3>4
        <3> HIDE DEF d, r, N
        <3> QED BY <2>1, <3>2, <3>3, <3>4, <3>5, <3>6, <3>7
    <2>3. z % SizeModulus = z
        BY <2>2, NoWrap
    <2> QED BY <2>1, <2>3
<1>10. e = d + size /\ readableBytes(c) = r
    BY <1>2, <1>7, <1>8, <1>9 DEF Ahead, readableBytes
<1>11. e \in 0..r /\ d <= e /\ r < e + BlockSize /\ e \in Nat
    BY <1>1, <1>5, <1>7, <1>10, BlockPositive
<1>12. e % BlockSize = 0
    <2>1. PICK x \in Int : x = d
        BY <1>1
    <2>2. PICK y \in Int : y = size
        BY <1>7
    <2>3. (x + y) % BlockSize = 0
        BY <1>1, <1>7, <2>1, <2>2, SumMultiple
    <2> QED BY <1>10, <2>1, <2>2, <2>3
<1>13. /\ Len(st) \in Nat /\ Len(W) = N
       /\ \A i \in 1..N : W[i] = IF i <= r THEN Readable(b)[i] ELSE st[i - r]
       /\ \A i \in 1..r : Readable(b)[i] = b.data[g + i]
    BY StreamBytes, ReadableBytes
<1>14. /\ Len(V) = N
       /\ \A i \in 1..N : V[i] = IF i <= r THEN Readable(c)[i] ELSE st[i - r]
       /\ \A i \in 1..r : Readable(c)[i] = c.data[g + i]
    <2>1. /\ Len(V) = readableBytes(c) + Len(st)
          /\ \A i \in 1..(readableBytes(c) + Len(st)) : V[i] = IF i <= readableBytes(c) THEN Readable(c)[i] ELSE st[i - readableBytes(c)]
        BY <1>8, StreamBytes
    <2>2. \A i \in 1..readableBytes(c) : Readable(c)[i] = c.data[c.reader + i]
        BY <1>8, ReadableBytes
    <2> QED BY <1>8, <1>10, <2>1, <2>2
<1>15. b.decrypt = g + d /\ g + r = b.writer
    BY <1>2 DEF Ahead, readableBytes
<1>16. /\ (\E m \in (k + 1)..(Len(se) + 1) : r = S[m])
       /\ \A m \in (k + 1)..Len(se) : AllEven(se, k + 1, m - 1) => S[m] % BlockSize = 0 /\ Veiled(W, S, se, d, m)
    BY DEF Neat
<1>17. /\ Len(se) \in Nat /\ k \in Nat /\ \A m \in 1..(Len(se) + 1) : S[m] \in Int
    BY LaidFacts
<1> HIDE DEF r, W, N, d, V, g, e
<1>18. ASSUME NEW i \in 1..N
       PROVE  /\ (i <= d \/ i > e) => V[i] = W[i]
              /\ d < i /\ i <= e => V[i] = DecryptBlock(b.data, g + (i - 1 - ((i - 1 - d) % BlockSize)))[((i - 1 - d) % BlockSize) + 1]
    <2>1. CASE i > r
        BY <1>1, <1>11, <1>13, <1>14, <2>1
    <2>2. CASE i <= r
        <3>1. i \in 1..r
            BY <1>1, <2>2
        <3>2. V[i] = c.data[g + i] /\ W[i] = b.data[g + i]
            BY <1>13, <1>14, <2>2, <3>1
        <3>3. PICK l \in 1..Len(b.data) : l = g + i
            <4>1. g \in Nat /\ g + r = b.writer /\ b.writer <= Len(b.data) /\ Len(b.data) \in Nat
                BY <1>2, <1>15 DEF g
            <4> QED BY <1>1, <3>1, <4>1
        <3>4. c.data[l] = IF b.decrypt < l /\ l <= b.decrypt + size
                          THEN DecryptBlock(b.data, l - 1 - ((l - 1 - b.decrypt) % BlockSize))[((l - 1 - b.decrypt) % BlockSize) + 1]
                          ELSE b.data[l]
            BY <1>8
        <3>5. g \in Int /\ d \in Int /\ size \in Int /\ i \in Int
            BY <1>1, <1>2, <1>7 DEF g
        <3>6. l - 1 - b.decrypt = i - 1 - d /\ (b.decrypt < l <=> d < i) /\ (l <= b.decrypt + size <=> i <= e)
            BY <1>10, <1>15, <3>3, <3>5
        <3>7. (i - 1 - d) % BlockSize \in Int
            <4>1. PICK x \in Int : x = i - 1 - d
                BY <3>5
            <4> QED BY <4>1, WholeBlocks
        <3>8. l - 1 - ((i - 1 - d) % BlockSize) = g + (i - 1 - ((i - 1 - d) % BlockSize))
            BY <3>3, <3>5, <3>7
        <3>9. ~(b.decrypt < l /\ l <= b.decrypt + size) => c.data[l] = b.data[l]
            BY <3>4
        <3>10. b.decrypt < l /\ l <= b.decrypt + size =>
                  c.data[l] = DecryptBlock(b.data, g + (i - 1 - ((i - 1 - d) % BlockSize)))[((i - 1 - d) % BlockSize) + 1]
            BY <3>4, <3>6, <3>8
        <3>11. i <= d \/ i > e => ~(d < i /\ i <= e)
            BY <1>11, <3>5
        <3> QED BY <3>2, <3>3, <3>6, <3>9, <3>10, <3>11, Zenon
    <2> QED BY <1>1, <2>1, <2>2
<1>19. ASSUME NEW m \in (k + 1)..Len(se), AllEven(se, k + 1, m - 1)
       PROVE  S[m] % BlockSize = 0 /\ Veiled(V, S, se, e, m)
    <2>1. S[m] % BlockSize = 0 /\ Veiled(W, S, se, d, m)
        BY <1>16, <1>19
    <2>2. PICK s \in Int : s = S[m]
        BY <1>17
    <2>3. se[m] \in Message
        BY <1>17
    <2>4. PICK t \in Nat : t = EncryptedLen(se[m].len) /\ t % BlockSize = 0
        BY <2>3, FrameSizes DEF Message
    <2>5. \A i \in 1..N : s < i /\ i <= s + t => W[i] = IF i <= d THEN PlainByte(m, i - 1 - s) ELSE CipherByte(m, i - 1 - s)
        BY <1>13, <2>1, <2>2, <2>4 DEF Veiled
    <2>6. VeiledIn(b.data, g, d, e, m, s, t)
        <3>1. ASSUME NEW x \in (d + 1)..e, s < x, x <= s + t PROVE b.data[g + x] = CipherByte(m, x - 1 - s)
            <4>1. x \in 1..r /\ x \in 1..N /\ ~(x <= d) /\ x <= r
                BY <1>1, <1>11, <1>13 DEF N
            <4>2. W[x] = CipherByte(m, x - 1 - s)
                BY <2>5, <3>1, <4>1
            <4>3. W[x] = b.data[g + x]
                BY <1>13, <4>1
            <4> QED BY <4>2, <4>3
        <3> QED BY <3>1 DEF VeiledIn
    <2>7. ASSUME NEW i \in 1..N, s < i, i <= s + t
          PROVE  V[i] = IF i <= e THEN PlainByte(m, i - 1 - s) ELSE CipherByte(m, i - 1 - s)
        <3>1. W[i] = IF i <= d THEN PlainByte(m, i - 1 - s) ELSE CipherByte(m, i - 1 - s)
            BY <2>5, <2>7
        <3>2. d \in Int /\ e \in Int /\ i \in Int /\ d \in Nat /\ e \in Nat /\ g \in Int
            BY <1>1, <1>2, <1>11, <1>13 DEF N, g
        <3>3. CASE i <= d
            BY <1>11, <1>18, <3>1, <3>2, <3>3
        <3>4. CASE i > e
            <4>1. ~(i <= d) /\ ~(i <= e)
                BY <1>11, <3>2, <3>4
            <4> QED BY <1>18, <3>1, <3>4, <4>1
        <3>5. CASE d < i /\ i <= e
            <4>1. PICK y : y = (i - 1 - d) % BlockSize
                BY Zenon
            <4>2. V[i] = DecryptBlock(b.data, g + (i - 1 - y))[y + 1]
                BY <1>18, <3>5, <4>1
            <4>3. DecryptBlock(b.data, g + (i - 1 - y))[y + 1] = PlainByte(m, i - 1 - s)
                <5>1. PICK memory, h, x, z : memory = b.data /\ h = g /\ x = d /\ z = e
                    BY Zenon
                <5>2. x \in Nat /\ z \in Nat /\ h \in Int /\ x % BlockSize = 0 /\ z % BlockSize = 0
                    BY <1>1, <1>12, <3>2, <5>1
                <5>3. s % BlockSize = 0 /\ t % BlockSize = 0
                    BY <2>1, <2>2, <2>4
                <5>4. VeiledIn(memory, h, x, z, m, s, t)
                    BY <2>6, <5>1
                <5>5. x < i /\ i <= z /\ y = (i - 1 - x) % BlockSize /\ i \in Int
                    BY <3>2, <3>5, <4>1, <5>1
                <5>6. DecryptBlock(memory, h + (i - 1 - y))[y + 1] = PlainByte(m, i - 1 - s)
                    <6>1. s < i /\ i <= s + t
                        BY <2>7
                    <6>2. Located(x, z, s, t, i, y)
                        BY <5>2, <5>3, <5>5, <6>1, Zenon DEF Located
                    <6>3. Unveiled(memory, h, i, y, m, s)
                        BY <5>2, <5>4, <5>5, <6>2, ByteUnveiled
                    <6> QED BY <6>3, Zenon DEF Unveiled
                <5> QED BY <5>1, <5>6
            <4> QED BY <3>5, <4>2, <4>3
        <3> QED BY <3>2, <3>3, <3>4, <3>5
    <2> QED BY <1>14, <2>1, <2>2, <2>4, <2>7 DEF Veiled
<1>20. Neat(V, S, se, k, r, e)
    BY <1>11, <1>12, <1>16, <1>19 DEF Neat
<1> QED BY <1>11, <1>20 DEF V, r, e, c

(* decryptBuffer: what is in the buffer is where it was, and if it is in   *)
(* order, less than a block is left.                                       *)
LEMMA DecryptDecoded ==
    ASSUME NEW b, Sound(b, CodecByte), Len(b.data) < SizeModulus,
           NEW st \in Seq(CodecByte), NEW se \in Seq(Message), NEW k,
           NEW a \in BOOLEAN, Secret(a), NEW p \in BOOLEAN, NEW S, Arranged(S, b, st, se, k, a, p)
    PROVE  /\ Sound(decryptBuffer(b), CodecByte)
           /\ Len(decryptBuffer(b).data) = Len(b.data)
           /\ readableBytes(decryptBuffer(b)) = readableBytes(b)
           /\ Arranged(S, decryptBuffer(b), st, se, k, a, p)
           /\ Orderly(a, p, se, k) => readableBytes(b) < Ahead(decryptBuffer(b)) + BlockSize
<1> DEFINE r == readableBytes(b)
           W == Readable(b) \o st
           N == r + Len(st)
           c == decryptBuffer(b)
           V == Readable(c) \o st
           g == b.reader
<1>1. Laid(S, se, a, k, N) /\ Matches(W, S, se, a, r) /\ (Orderly(a, p, se, k) => Neat(W, S, se, k, r, Ahead(b)))
    BY DEF Arranged
<1>2. /\ Sound(c, CodecByte) /\ c.reader = b.reader /\ c.writer = b.writer /\ Len(c.data) = Len(b.data)
      /\ \A i \in 1..Len(b.data) : Turned(b.data[i], c.data[i])
    BY DecryptContent
<1>3. readableBytes(c) = r
    BY <1>2 DEF readableBytes
<1>4. Orderly(a, p, se, k) => Neat(V, S, se, k, r, Ahead(c)) /\ r < Ahead(c) + BlockSize
    BY <1>1, DecryptNeat
<1> HIDE DEF c
<1>5. /\ Len(st) \in Nat /\ Len(W) = N /\ r \in Nat
      /\ \A i \in 1..N : W[i] = IF i <= r THEN Readable(b)[i] ELSE st[i - r]
      /\ \A i \in 1..r : Readable(b)[i] = b.data[g + i]
    BY StreamBytes, ReadableBytes
<1>6. /\ Len(V) = N
      /\ \A i \in 1..N : V[i] = IF i <= r THEN Readable(c)[i] ELSE st[i - r]
      /\ \A i \in 1..r : Readable(c)[i] = c.data[g + i]
    <2>1. /\ Len(V) = readableBytes(c) + Len(st)
          /\ \A i \in 1..(readableBytes(c) + Len(st)) : V[i] = IF i <= readableBytes(c) THEN Readable(c)[i] ELSE st[i - readableBytes(c)]
        BY <1>2, StreamBytes
    <2>2. \A i \in 1..readableBytes(c) : Readable(c)[i] = c.data[c.reader + i]
        BY <1>2, ReadableBytes
    <2> QED BY <1>2, <1>3, <2>1, <2>2
<1>7. g \in Nat /\ g + r <= Len(b.data) /\ Len(b.data) \in Nat
    BY DEF Sound, BufferType, readableBytes
<1> HIDE DEF r, W, N, V, g
<1>8. ASSUME NEW m \in 1..Len(se), NEW i \in 1..N, S[m] < i, i <= S[m + 1]
      PROVE  Genuine(V[i], m, i - 1 - S[m], a, i > r)
    <2>1. Genuine(W[i], m, i - 1 - S[m], a, i > r)
        BY <1>1, <1>5, <1>8 DEF Matches
    <2>2. CASE i > r
        <3>1. V[i] = W[i]
            BY <1>5, <1>6, <2>2
        <3> QED BY <2>1, <3>1
    <2>3. CASE i <= r
        <3>1. i \in 1..r /\ g + i \in 1..Len(b.data) /\ ~(i > r)
            BY <1>5, <1>7, <2>3
        <3>2. V[i] = c.data[g + i] /\ W[i] = b.data[g + i]
            BY <1>5, <1>6, <2>3, <3>1
        <3>3. Turned(W[i], V[i])
            BY <1>2, <3>1, <3>2
        <3>4. W[i] \in {Junk, PlainByte(m, i - 1 - S[m]), CipherByte(m, i - 1 - S[m])}
            BY <2>1, Zenon DEF Genuine
        <3>5. PICK at : at = i - 1 - S[m]
            BY Zenon
        <3>6. V[i] \in {Junk, PlainByte(m, at), CipherByte(m, at)}
            BY <3>3, <3>4, <3>5, TurnedGenuine
        <3> QED BY <3>1, <3>5, <3>6, Zenon DEF Genuine, Secret
    <2> QED BY <1>5, <2>2, <2>3 DEF N
<1>9. Matches(V, S, se, a, r)
    BY <1>6, <1>8 DEF Matches
<1>10. Arranged(S, c, st, se, k, a, p)
    BY <1>1, <1>3, <1>4, <1>9, Zenon DEF Arranged, N, V
<1> QED BY <1>2, <1>3, <1>4, <1>10 DEF c, r

(* The length of the frame of message x. *)
IsFrame(n, x) == n = FrameLen(x.len)

(* retrieve: the frame of the next message is taken off. *)
LEMMA RetrieveDecoded ==
    ASSUME NEW b, Sound(b, CodecByte), Len(b.data) < SizeModulus,
           NEW st \in Seq(CodecByte), NEW se \in Seq(Message), NEW k,
           NEW a \in BOOLEAN, NEW p \in BOOLEAN, NEW S, Arranged(S, b, st, se, k, a, p),
           Orderly(a, p, se, k) => readableBytes(b) < Ahead(b) + BlockSize,
           k < Len(se), S[k + 1] = 0, NEW F, IsFrame(F, se[k + 1]), F <= readableBytes(b)
    PROVE  Sound(retrieve(b, F), CodecByte) /\ Decoded(retrieve(b, F), st, se, k + 1, a, p)
<1> DEFINE r == readableBytes(b)
           R == Readable(b)
           W == R \o st
           N == r + Len(st)
           c == retrieve(b, F)
           V == Readable(c) \o st
           Q == Shifted(S, Len(se), F)
<1>1. Laid(S, se, a, k, N) /\ Matches(W, S, se, a, r) /\ (Orderly(a, p, se, k) => Neat(W, S, se, k, r, Ahead(b)))
    BY DEF Arranged
<1>2. /\ R \in Seq(CodecByte) /\ Len(R) = r /\ r \in Nat /\ Len(st) \in Nat /\ Len(W) = N
      /\ \A i \in 1..N : W[i] = IF i <= r THEN R[i] ELSE st[i - r]
    BY StreamBytes
<1>3. /\ Len(se) \in Nat /\ k \in Nat /\ k <= Len(se)
      /\ \A j \in 1..(Len(se) + 1) : S[j] \in Int
      /\ \A j \in 1..Len(se) : se[j] \in Message /\ S[j + 1] = S[j] + Whole(se[j], a)
    BY <1>1, LaidFacts
<1>4. k + 1 \in 1..Len(se) /\ se[k + 1] \in Message
    BY <1>3
<1>5. F \in Nat /\ F >= 2 /\ F \in 0..r /\ F <= N /\ N \in Nat
    <2>1. F \in Nat /\ F >= 2
        BY <1>4, WholeSizes DEF IsFrame
    <2> QED BY <1>2, <2>1
<1>6. Sound(c, CodecByte) /\ Readable(c) = SubSeq(R, F + 1, Len(R))
    BY <1>5, RetrieveContent
<1>7. Laid(Q, se, a, k + 1, N - F)
    <2> HIDE DEF N
    <2>1. F = FrameLen(se[k + 1].len)
        BY DEF IsFrame
    <2> QED BY <1>1, <1>5, <2>1, LaidDrop
<1>8. \A m \in 1..(Len(se) + 1) : Q[m] = S[m] - F
    BY DEF Shifted
<1> HIDE DEF c, Q, r, R, W, N
<1>9. Len(Readable(c)) = r - F /\ (\A i \in 1..(r - F) : Readable(c)[i] = R[F + i]) /\ readableBytes(c) = r - F
    <2>1. F <= r /\ r <= Len(R)
        BY <1>2, <1>5
    <2>2. Len(SubSeq(R, F + 1, r)) = r - F /\ \A i \in 1..(r - F) : SubSeq(R, F + 1, r)[i] = R[F + i]
        BY <1>2, <1>5, <2>1, Part
    <2>3. Len(Readable(c)) = readableBytes(c)
        BY <1>6, ReadableBytes
    <2> QED BY <1>2, <1>6, <2>2, <2>3
<1>10. readableBytes(c) + Len(st) = N - F
    BY <1>2, <1>5, <1>9 DEF N
<1>11. Len(V) = N - F /\ \A i \in 1..(N - F) : V[i] = W[F + i]
    <2>1. /\ Len(V) = readableBytes(c) + Len(st)
          /\ \A i \in 1..(readableBytes(c) + Len(st)) : V[i] = IF i <= readableBytes(c) THEN Readable(c)[i] ELSE st[i - readableBytes(c)]
        BY <1>6, StreamBytes
    <2>2. ASSUME NEW i \in 1..(N - F) PROVE V[i] = W[F + i]
        <3>1. V[i] = IF i <= r - F THEN Readable(c)[i] ELSE st[i - (r - F)]
            BY <1>9, <1>10, <2>1
        <3>2. F + i \in 1..N /\ (F + i <= r <=> i <= r - F) /\ (F + i) - r = i - (r - F) /\ (i <= r - F => i \in 1..(r - F))
            BY <1>2, <1>5
        <3>3. W[F + i] = IF F + i <= r THEN R[F + i] ELSE st[(F + i) - r]
            BY <1>2, <3>2
        <3> QED BY <1>9, <3>1, <3>2, <3>3
    <2> QED BY <1>10, <2>1, <2>2
<1> HIDE DEF V
<1>12. Matches(V, Q, se, a, r - F)
    <2>1. ASSUME NEW m \in 1..Len(se), NEW i \in 1..(N - F), Q[m] < i, i <= Q[m + 1]
          PROVE  Genuine(V[i], m, i - 1 - Q[m], a, i > r - F)
        <3>1. m \in 1..(Len(se) + 1) /\ m + 1 \in 1..(Len(se) + 1)
            BY <1>3
        <3>2. Q[m] = S[m] - F /\ Q[m + 1] = S[m + 1] - F /\ S[m] \in Int /\ S[m + 1] \in Int
            BY <1>3, <1>8, <3>1
        <3>3. PICK l \in 1..N : l = F + i
            BY <1>5
        <3>4. S[m] < l /\ l <= S[m + 1] /\ l - 1 - S[m] = i - 1 - Q[m] /\ (l > r <=> i > r - F)
            <4>1. S[m] < l /\ l <= S[m + 1]
                BY <1>5, <2>1, <3>2, <3>3
            <4>2. l - 1 - S[m] = i - 1 - Q[m]
                BY <1>5, <3>2, <3>3
            <4>3. l > r <=> i > r - F
                <5>1. r \in Nat /\ F \in Nat /\ i \in Int
                    BY <1>2, <1>5
                <5> QED BY <3>3, <5>1
            <4> QED BY <4>1, <4>2, <4>3
        <3>5. Genuine(W[l], m, l - 1 - S[m], a, l > r)
            BY <1>1, <1>2, <3>4 DEF Matches
        <3>6. V[i] = W[l]
            BY <1>11, <3>3
        <3> QED BY <3>4, <3>5, <3>6, Zenon DEF Genuine
    <2> QED BY <1>11, <2>1 DEF Matches
<1>13. ASSUME Orderly(a, p, se, k + 1) PROVE Neat(V, Q, se, k + 1, r - F, Ahead(c))
    <2>1. AllEven(se, 1, k + 1)
        BY <1>13, OrderlyFacts
    <2>2. Even(se[k + 1]) /\ AllEven(se, 1, k)
        BY <1>3, <2>1 DEF AllEven
    <2>3. Orderly(a, p, se, k)
        BY <1>13, <2>2, Zenon DEF Orderly
    <2>4. Neat(W, S, se, k, r, Ahead(b)) /\ r < Ahead(b) + BlockSize
        BY <1>1, <2>3 DEF r
    <2>5. PICK d \in 0..r : d = Ahead(b) /\ d % BlockSize = 0
        BY <2>4 DEF Neat
    <2>6. F % BlockSize = 0
        BY <2>2 DEF Even, IsFrame
    <2>7. F <= d
        <3>1. CASE d < F
            <4>1. d + BlockSize <= F
                BY <1>5, <2>5, <2>6, <3>1, NextMultiple
            <4> QED BY <1>2, <1>5, <2>4, <2>5, <4>1, BlockPositive
        <3> QED BY <1>2, <1>5, <2>5, <3>1
    <2>8. InReach(b)
        <3>1. b.reader \in Nat /\ b.writer \in Nat /\ b.decrypt \in Int
            BY BufferAssumption DEF Sound, BufferType
        <3> QED BY <2>5, <3>1 DEF InReach, Ahead, r, readableBytes
    <2>9. Ahead(c) = d - F
        BY <1>5, <2>5, <2>7, <2>8, RetrieveAhead DEF c
    <2>10. d - F \in 0..(r - F) /\ (d - F) % BlockSize = 0
        <3>1. PICK x \in Int, y \in Int : x = d /\ y = F
            BY <1>5, <2>5
        <3>2. (x - y) % BlockSize = 0
            BY <2>5, <2>6, <3>1, SumMultiple
        <3>3. d - F \in 0..(r - F)
            BY <1>2, <1>5, <2>5, <2>7
        <3> QED BY <3>1, <3>2, <3>3
    <2>11. \E m \in ((k + 1) + 1)..(Len(se) + 1) : r - F = Q[m]
        <3>1. PICK m \in (k + 1)..(Len(se) + 1) : r = S[m]
            BY <2>4 DEF Neat
        <3>2. m # k + 1
            BY <1>5, <3>1
        <3>3. m \in ((k + 1) + 1)..(Len(se) + 1) /\ m \in 1..(Len(se) + 1)
            BY <1>3, <3>2
        <3>4. Q[m] = r - F
            BY <1>8, <3>1, <3>3
        <3> QED BY <3>3, <3>4
    <2>12. ASSUME NEW m \in ((k + 1) + 1)..Len(se), AllEven(se, (k + 1) + 1, m - 1)
           PROVE  Q[m] % BlockSize = 0 /\ Veiled(V, Q, se, d - F, m)
        <3>1. m \in (k + 1)..Len(se) /\ m \in 1..(Len(se) + 1)
            BY <1>3
        <3>2. AllEven(se, k + 1, m - 1)
            <4>1. ASSUME NEW j \in (k + 1)..(m - 1) PROVE Even(se[j])
                <5>1. CASE j = k + 1
                    BY <2>2, <5>1
                <5>2. CASE j # k + 1
                    <6>1. j \in ((k + 1) + 1)..(m - 1)
                        BY <1>3, <5>2
                    <6> QED BY <2>12, <6>1 DEF AllEven
                <5> QED BY <5>1, <5>2
            <4> QED BY <4>1 DEF AllEven
        <3>3. S[m] % BlockSize = 0 /\ Veiled(W, S, se, d, m)
            BY <2>4, <2>5, <3>1, <3>2 DEF Neat
        <3>4. PICK s \in Int : s = S[m]
            BY <1>3, <3>1
        <3>5. Q[m] = s - F
            BY <1>8, <3>1, <3>4
        <3>6. (s - F) % BlockSize = 0
            <4>1. PICK y \in Int : y = F
                BY <1>5
            <4>2. (s - y) % BlockSize = 0
                BY <2>6, <3>3, <3>4, <4>1, SumMultiple
            <4> QED BY <4>1, <4>2
        <3>7. PICK t \in Nat : t = EncryptedLen(se[m].len)
            <4>1. se[m] \in Message
                BY <1>3, <3>1
            <4> QED BY <4>1, WholeSizes
        <3>8. ASSUME NEW i \in 1..(N - F), s - F < i, i <= (s - F) + t
              PROVE  V[i] = IF i <= d - F THEN PlainByte(m, i - 1 - (s - F)) ELSE CipherByte(m, i - 1 - (s - F))
            <4>1. PICK l \in 1..N : l = F + i
                BY <1>5
            <4>2. s < l /\ l <= s + t /\ l - 1 - s = i - 1 - (s - F) /\ (l <= d <=> i <= d - F)
                BY <1>5, <2>5, <3>8, <4>1
            <4>3. W[l] = IF l <= d THEN PlainByte(m, l - 1 - s) ELSE CipherByte(m, l - 1 - s)
                BY <1>2, <3>3, <3>4, <3>7, <4>2 DEF Veiled
            <4>4. V[i] = W[l]
                BY <1>11, <4>1
            <4> QED BY <4>2, <4>3, <4>4
        <3>9. Veiled(V, Q, se, d - F, m)
            BY <1>11, <3>5, <3>7, <3>8 DEF Veiled
        <3> QED BY <3>5, <3>6, <3>9
    <2> QED BY <2>9, <2>10, <2>11, <2>12, Zenon DEF Neat
<1>14. Arranged(Q, c, st, se, k + 1, a, p)
    BY <1>7, <1>9, <1>10, <1>12, <1>13, Zenon DEF Arranged, V
<1>15. Decoded(c, st, se, k + 1, a, p)
    BY <1>14, Zenon DEF Decoded
<1> QED BY <1>6, <1>15 DEF c

(* What parse is given of a message that has arrived well. *)
Content(m, x) == SubSeq(Frame(m, x.len), kHeaderLen + 1, FrameLen(x.len))

(* Its bytes. *)
LEMMA ContentBytes ==
    ASSUME NEW m \in Nat, NEW x \in Message
    PROVE  /\ Content(m, x) \in Seq(CodecByte) /\ Len(Content(m, x)) = x.len
           /\ \A i \in 1..x.len : Content(m, x)[i] = PlainByte(m, i)
<1>1. x.len \in Nat /\ FrameLen(x.len) = x.len + 1 /\ kHeaderLen = 1
    BY WholeSizes, CodecAssumption, x.len \in MessageLens, FrameSizes DEF Message
<1>2. PICK n \in Nat : n = x.len
    BY <1>1
<1> DEFINE f == [i \in 1..(n + 1) |-> PlainByte(m, i - 1)]
<1>3. Frame(m, x.len) = f
    BY <1>1, <1>2 DEF Frame
<1>4. \A i \in 1..(n + 1) : PlainByte(m, i - 1) \in CodecByte
    BY DEF PlainByte, CodecByte
<1>5. f \in [1..(n + 1) -> CodecByte] /\ n + 1 \in Nat
    BY <1>4
<1>6. f \in Seq(CodecByte) /\ Len(f) = n + 1
    BY <1>5, BytesAreSeq
<1>7. Content(m, x) = SubSeq(f, 1 + 1, n + 1)
    BY <1>1, <1>2, <1>3 DEF Content
<1>8. \A i \in 1..(n + 1) : f[i] = PlainByte(m, i - 1)
    OBVIOUS
<1> HIDE DEF f
<1>9. /\ SubSeq(f, 1 + 1, n + 1) \in Seq(CodecByte) /\ Len(SubSeq(f, 1 + 1, n + 1)) = (n + 1) - 1
      /\ \A i \in 1..((n + 1) - 1) : SubSeq(f, 1 + 1, n + 1)[i] = f[1 + i]
    <2>1. 1 \in Nat /\ n + 1 \in Nat /\ 1 <= n + 1 /\ n + 1 <= Len(f)
        BY <1>6
    <2> QED BY <1>6, <2>1, Part
<1>10. ASSUME NEW i \in 1..n PROVE Content(m, x)[i] = PlainByte(m, i)
    <2>1. i \in 1..((n + 1) - 1) /\ 1 + i \in 1..(n + 1) /\ (1 + i) - 1 = i
        OBVIOUS
    <2> QED BY <1>7, <1>8, <1>9, <2>1
<1> QED BY <1>2, <1>7, <1>9, <1>10

(* parse finds the content of one message, m, in the buffer. *)
Finds(c, m, b, len, se) ==
    /\ c = SubSeq(Readable(b), 1 + 1, 1 + len)
    /\ m = c[1].msg /\ m # 0
    /\ c = Content(m, se[m])

(* parse succeeds only for the next message, from its first byte. *)
LEMMA ParsedIsNext ==
    ASSUME NEW b, Sound(b, CodecByte),
           NEW st \in Seq(CodecByte), NEW se \in Seq(Message), NEW k,
           NEW a \in BOOLEAN, NEW p \in BOOLEAN, NEW S, Arranged(S, b, st, se, k, a, p),
           NEW len \in Nat, len >= 1, len + 1 <= readableBytes(b),
           NEW c, NEW m, Finds(c, m, b, len, se)
    PROVE  k < Len(se) /\ m = k + 1 /\ S[k + 1] = 0 /\ len = se[k + 1].len
<1> DEFINE r == readableBytes(b)
           R == Readable(b)
           W == R \o st
           N == r + Len(st)
<1>1. Laid(S, se, a, k, N) /\ Matches(W, S, se, a, r)
    BY DEF Arranged
<1>2. /\ R \in Seq(CodecByte) /\ Len(R) = r /\ r \in Nat /\ Len(st) \in Nat /\ Len(W) = N
      /\ \A i \in 1..N : W[i] = IF i <= r THEN R[i] ELSE st[i - r]
    BY StreamBytes
<1>f. c = SubSeq(R, 1 + 1, 1 + len) /\ m = c[1].msg /\ m # 0 /\ c = Content(m, se[m])
    BY Zenon DEF Finds
<1>3. Len(c) = len /\ c[1] = R[2]
    <2>1. 1 \in Nat /\ 1 + len \in Nat /\ 1 <= 1 + len /\ 1 + len <= Len(R) /\ (1 + len) - 1 = len /\ 1 \in 1..len /\ 1 + 1 = 2
        BY <1>2
    <2>2. /\ Len(SubSeq(R, 1 + 1, 1 + len)) = (1 + len) - 1
          /\ \A i \in 1..((1 + len) - 1) : SubSeq(R, 1 + 1, 1 + len)[i] = R[1 + i]
        <3> HIDE DEF R
        <3> QED BY <1>2, <2>1, Part
    <2> QED BY <1>f, <2>1, <2>2
<1> HIDE DEF r, R, W, N
<1>4. 2 \in 1..N /\ W[2] = c[1] /\ 2 \in 1..Len(W)
    <2>1. 2 <= r /\ 2 \in 1..N
        BY <1>2 DEF r, N
    <2> QED BY <1>2, <1>3, <2>1
<1>5. PICK l \in 1..Len(se) : S[l] < 2 /\ 2 <= S[l + 1]
    BY <1>1, <1>4 DEF Laid
<1>6. Genuine(W[2], l, 2 - 1 - S[l], a, 2 > r)
    BY <1>1, <1>4, <1>5 DEF Matches
<1>7. PICK at : at = 2 - 1 - S[l]
    BY Zenon
<1>8. c[1] \in {Junk, PlainByte(l, at), CipherByte(l, at)}
    BY <1>4, <1>6, <1>7, Zenon DEF Genuine
<1>9. Junk.msg = 0 /\ PlainByte(l, at).msg = l /\ CipherByte(l, at).msg = l /\ PlainByte(l, at).at = at /\ CipherByte(l, at).at = at
    BY DEF Junk, PlainByte, CipherByte
<1>10. m = l /\ c[1].at = at
    BY <1>8, <1>9, <1>f
<1>11. m \in Nat /\ m \in 1..Len(se) /\ se[m] \in Message
    BY <1>10
<1>12. PICK x \in Message : x = se[m]
    BY <1>11
<1>a. c = Content(m, x)
    BY <1>12, <1>f
<1>b. Len(c) = x.len /\ \A i \in 1..x.len : c[i] = PlainByte(m, i)
    <2>1. Len(Content(m, x)) = x.len /\ \A i \in 1..x.len : Content(m, x)[i] = PlainByte(m, i)
        <3>1. m \in Nat
            BY <1>11
        <3> HIDE <1>a
        <3> QED BY <3>1, ContentBytes, Zenon
    <2> QED BY <1>a, <2>1, Zenon
<1>13. len = x.len
    BY <1>3, <1>b
<1>14. c[1].at = 1
    <2>1. 1 \in 1..len
        OBVIOUS
    <2>2. c[1] = PlainByte(m, 1)
        BY <1>13, <1>b, <2>1
    <2> QED BY <2>2 DEF PlainByte
<1>15. S[m] = 0
    <2>1. S[m] \in Int
        BY <1>1, <1>11, LaidFacts
    <2> QED BY <1>7, <1>10, <1>14, <2>1
<1>16. m = k + 1
    BY <1>1, <1>11, <1>15, FrontFrame
<1>17. k \in Nat /\ Len(se) \in Nat
    BY <1>1, LaidFacts
<1>18. k < Len(se)
    BY <1>11, <1>16, <1>17
<1>19. len = se[k + 1].len /\ S[k + 1] = 0
    BY <1>12, <1>13, <1>15, <1>16, Zenon
<1> QED BY <1>16, <1>18, <1>19, Zenon

(* Messages whose last bytes are not encrypted. *)
Bare(x) == FrameLen(x.len) > EncryptedLen(x.len)

(* The first n bytes to read are those of the frame of message m. *)
Clear(b, m, n) == \A i \in 1..n : i <= readableBytes(b) => Readable(b)[i] = PlainByte(m, i - 1)

(* Without encryption the next frame is always in front. *)
LEMMA PlainNext ==
    ASSUME NEW b, Sound(b, CodecByte),
           NEW st \in Seq(CodecByte), NEW se \in Seq(Message), NEW k,
           NEW a \in BOOLEAN, NEW p \in BOOLEAN, NEW S, Arranged(S, b, st, se, k, a, p),
           ~Secret(a), readableBytes(b) > 0
    PROVE  k < Len(se) /\ Clear(b, k + 1, FrameLen(se[k + 1].len))
<1> DEFINE r == readableBytes(b)
           R == Readable(b)
           W == R \o st
           N == r + Len(st)
<1>1. Laid(S, se, a, k, N) /\ Matches(W, S, se, a, r)
    BY DEF Arranged
<1>2. /\ r \in Nat /\ Len(st) \in Nat /\ Len(W) = N
      /\ \A i \in 1..N : W[i] = IF i <= r THEN R[i] ELSE st[i - r]
    BY StreamBytes
<1>3. r > 0
    OBVIOUS
<1> HIDE DEF r, R, W, N
<1>4. /\ Len(se) \in Nat /\ k \in Nat /\ k <= Len(se) /\ N = S[Len(se) + 1]
      /\ \A j \in 1..Len(se) : se[j] \in Message /\ S[j + 1] = S[j] + Whole(se[j], a)
    BY <1>1, LaidFacts
<1>5. \A j \in 1..Len(se) : Whole(se[j], a) = FrameLen(se[j].len) /\ FrameLen(se[j].len) \in Nat
    <2>1. ASSUME NEW j \in 1..Len(se) PROVE Whole(se[j], a) = FrameLen(se[j].len) /\ FrameLen(se[j].len) \in Nat
        <3>1. PICK x \in Message : x = se[j]
            BY <1>4
        <3>2. ~a => Whole(x, a) = FrameLen(x.len)
            BY WholeSizes
        <3>3. Whole(x, a) = FrameLen(x.len)
            BY <3>2, Zenon DEF Secret
        <3>4. FrameLen(x.len) \in Nat
            BY WholeSizes
        <3> QED BY <3>1, <3>3, <3>4
    <2> QED BY <2>1
<1>6. S[k + 1] = 0
    <2>1. CASE k > 0 /\ S[k + 1] = Whole(se[k], a) - FrameLen(se[k].len)
        <3>1. k \in 1..Len(se)
            BY <1>4, <2>1
        <3>2. Whole(se[k], a) = FrameLen(se[k].len) /\ FrameLen(se[k].len) \in Nat
            BY <1>5, <3>1
        <3> QED BY <2>1, <3>2
    <2> QED BY <1>1, <2>1 DEF Laid
<1>7. N > 0
    BY <1>2, <1>3 DEF N
<1>8. k < Len(se)
    <2>1. CASE k = Len(se)
        BY <1>4, <1>6, <1>7, <2>1
    <2> QED BY <1>4, <2>1
<1>9. k + 1 \in 1..Len(se)
    BY <1>4, <1>8
<1>10. PICK n \in Nat : n = FrameLen(se[k + 1].len) /\ S[(k + 1) + 1] = n
    BY <1>4, <1>5, <1>6, <1>9
<1>11. ASSUME NEW i \in 1..n, i <= r PROVE R[i] = PlainByte(k + 1, i - 1)
    <2>1. i \in 1..N /\ i \in 1..Len(W) /\ S[k + 1] < i /\ i <= S[(k + 1) + 1] /\ i - 1 - 0 = i - 1
        BY <1>2, <1>6, <1>10, <1>11 DEF N
    <2>2. Genuine(W[i], k + 1, i - 1 - S[k + 1], a, i > r)
        BY <1>1, <1>9, <2>1 DEF Matches
    <2>3. W[i] = PlainByte(k + 1, i - 1 - S[k + 1])
        BY <2>2, Zenon DEF Genuine, Secret
    <2>4. W[i] = R[i]
        BY <1>2, <1>11, <2>1
    <2> QED BY <1>6, <2>1, <2>3, <2>4
<1>12. Clear(b, k + 1, n)
    BY <1>11 DEF Clear, r, R
<1> QED BY <1>8, <1>10, <1>12

(* With it, if all is in order and decrypted, and its end is encrypted. *)
LEMMA SecretNext ==
    ASSUME NEW b, Sound(b, CodecByte),
           NEW st \in Seq(CodecByte), NEW se \in Seq(Message), NEW k,
           NEW a \in BOOLEAN, NEW p \in BOOLEAN, NEW S, Arranged(S, b, st, se, k, a, p),
           Orderly(a, p, se, k), readableBytes(b) < Ahead(b) + BlockSize, readableBytes(b) > 0
    PROVE  k < Len(se) /\ (~Bare(se[k + 1]) => Clear(b, k + 1, FrameLen(se[k + 1].len)))
<1> DEFINE r == readableBytes(b)
           R == Readable(b)
           W == R \o st
           N == r + Len(st)
           d == Ahead(b)
<1>1. Laid(S, se, a, k, N) /\ Neat(W, S, se, k, r, d)
    BY DEF Arranged
<1>2. /\ r \in Nat /\ Len(st) \in Nat /\ Len(W) = N
      /\ \A i \in 1..N : W[i] = IF i <= r THEN R[i] ELSE st[i - r]
    BY StreamBytes
<1>3. r > 0 /\ r < d + BlockSize
    OBVIOUS
<1>4. Secret(a) /\ AllEven(se, 1, k)
    BY OrderlyFacts
<1> HIDE DEF r, R, W, N, d
<1>5. /\ Len(se) \in Nat /\ k \in Nat /\ k <= Len(se)
      /\ \A j \in 1..(Len(se) + 1) : S[j] \in Int
      /\ \A j \in 1..Len(se) : se[j] \in Message /\ S[j + 1] = S[j] + Whole(se[j], a)
      /\ \A i, j \in 1..(Len(se) + 1) : i <= j => S[i] <= S[j]
    BY <1>1, LaidFacts
<1>6. S[k + 1] = 0
    BY <1>1, <1>4, NoPaddingFront
<1>7. PICK m \in (k + 1)..(Len(se) + 1) : r = S[m]
    BY <1>1 DEF Neat
<1>8. m # k + 1
    BY <1>3, <1>6, <1>7
<1>9. k + 1 \in 1..Len(se) /\ (k + 1) + 1 <= m /\ (k + 1) + 1 \in 1..(Len(se) + 1) /\ m \in 1..(Len(se) + 1) /\ k < Len(se)
    BY <1>5, <1>8
<1>10. PICK x \in Message : x = se[k + 1]
    BY <1>5, <1>9
<1>11. S[(k + 1) + 1] = Whole(x, a) /\ Whole(x, a) <= r /\ Whole(x, a) \in Nat
    <2>1. Whole(x, a) \in Nat
        BY WholeSizes
    <2>2. S[(k + 1) + 1] = 0 + Whole(x, a)
        BY <1>5, <1>6, <1>9, <1>10
    <2>3. S[(k + 1) + 1] <= S[m]
        BY <1>5, <1>9
    <2> QED BY <1>7, <2>1, <2>2, <2>3
<1>12. PICK t \in Nat : t = EncryptedLen(x.len) /\ t % BlockSize = 0 /\ t <= r
    <2>1. EncryptedLen(x.len) \in Nat /\ EncryptedLen(x.len) % BlockSize = 0
        BY WholeSizes
    <2>2. EncryptedLen(x.len) <= Whole(x, a)
        BY <1>4, SecretSizes
    <2> QED BY <1>2, <1>11, <2>1, <2>2
<1>13. d \in 0..r /\ d % BlockSize = 0
    BY <1>1 DEF Neat
<1>14. t <= d
    <2>1. CASE d < t
        <3>1. PICK y \in Int : y = d
            BY <1>2, <1>13
        <3>2. y + BlockSize <= t
            BY <1>12, <1>13, <2>1, <3>1, NextMultiple
        <3> QED BY <1>2, <1>3, <1>12, <1>13, <3>1, <3>2, BlockPositive
    <2> QED BY <1>2, <1>12, <1>13, <2>1
<1>15. Veiled(W, S, se, d, k + 1)
    <2>1. k + 1 \in (k + 1)..Len(se)
        BY <1>5, <1>9
    <2>2. AllEven(se, k + 1, (k + 1) - 1)
        BY <1>5 DEF AllEven
    <2> QED BY <1>1, <2>1, <2>2 DEF Neat
<1>16. ASSUME ~Bare(x) PROVE Clear(b, k + 1, FrameLen(x.len))
    <2>1. PICK n \in Nat : n = FrameLen(x.len)
        BY WholeSizes
    <2>2. n <= t
        BY <1>12, <1>16, <2>1 DEF Bare
    <2>3. ASSUME NEW i \in 1..n, i <= r PROVE R[i] = PlainByte(k + 1, i - 1)
        <3>1. i \in 1..N /\ i \in 1..Len(W) /\ i <= d /\ 0 < i /\ i <= 0 + t /\ i - 1 - 0 = i - 1
            BY <1>2, <1>12, <1>13, <1>14, <2>2, <2>3 DEF N
        <3>2. W[i] = IF i <= d THEN PlainByte(k + 1, i - 1 - S[k + 1]) ELSE CipherByte(k + 1, i - 1 - S[k + 1])
            BY <1>6, <1>10, <1>12, <1>15, <3>1 DEF Veiled
        <3>3. W[i] = R[i]
            BY <1>2, <2>3, <3>1
        <3> QED BY <1>6, <3>1, <3>2, <3>3
    <2> QED BY <2>1, <2>3 DEF Clear, r, R
<1> QED BY <1>9, <1>10, <1>16

(* A message parse refuses, and what can make onMessage fail at message    *)
(* e + 1.                                                                  *)
Refused(se, m) == m \in DOMAIN se /\ se[m].outcome # "kNoError"

Disorder(e, se, a, p) ==
    a /\ (p \/ ~AllEven(se, 1, e) \/ (e + 1 \in DOMAIN se /\ Bare(se[e + 1])))

Blame(e, se, a, p) == Refused(se, e + 1) \/ Disorder(e, se, a, p)

(* The decrypted bytes are less than one block behind, if it matters. *)
Decrypted(b, se, k, a, p) == Orderly(a, p, se, k) => readableBytes(b) < Ahead(b) + BlockSize

(* Where nothing is to blame the next frame can be read. *)
LEMMA NextReadable ==
    ASSUME NEW b, Sound(b, CodecByte),
           NEW st \in Seq(CodecByte), NEW se \in Seq(Message), NEW k,
           NEW a \in BOOLEAN, NEW p \in BOOLEAN, NEW S, Arranged(S, b, st, se, k, a, p),
           Decrypted(b, se, k, a, p), readableBytes(b) > 0, ~Disorder(k, se, a, p)
    PROVE  k < Len(se) /\ Clear(b, k + 1, FrameLen(se[k + 1].len))
<1>1. CASE ~Secret(a)
    BY <1>1, PlainNext
<1>2. CASE Secret(a)
    <2>1. Orderly(a, p, se, k)
        BY <1>2, Zenon DEF Secret, Disorder, Orderly
    <2>2. readableBytes(b) < Ahead(b) + BlockSize
        BY <2>1, Zenon DEF Decrypted
    <2>3. k < Len(se) /\ (~Bare(se[k + 1]) => Clear(b, k + 1, FrameLen(se[k + 1].len)))
        BY <2>1, <2>2, SecretNext
    <2>4. k + 1 \in DOMAIN se
        <3>1. Laid(S, se, a, k, readableBytes(b) + Len(st))
            BY DEF Arranged
        <3>2. k \in Nat /\ Len(se) \in Nat
            BY <3>1, LaidFacts
        <3> QED BY <2>3, <3>2
    <2>5. ~Bare(se[k + 1])
        BY <1>2, <2>4, Zenon DEF Secret, Disorder
    <2> QED BY <2>3, <2>5
<1> QED BY <1>1, <1>2

(* A frame that can be read begins with its length, and its content is     *)
(* that of the message.                                                    *)
LEMMA ClearFrame ==
    ASSUME NEW b, Sound(b, CodecByte), NEW m \in Nat, NEW x \in Message,
           Clear(b, m, FrameLen(x.len)), readableBytes(b) > 0
    PROVE  /\ Readable(b)[1] = PlainByte(m, 0)
           /\ x.len + 1 <= readableBytes(b) =>
                 SubSeq(Readable(b), kHeaderLen + 1, kHeaderLen + x.len) = Content(m, x)
<1>1. /\ x.len \in Nat /\ x.len >= 1 /\ FrameLen(x.len) = x.len + 1 /\ kHeaderLen = 1
    <2>1. x.len \in Nat /\ FrameLen(x.len) = x.len + 1 /\ FrameLen(x.len) >= 2
        BY WholeSizes
    <2> QED BY <2>1, CodecAssumption
<1>2. PICK R : R = Readable(b)
    BY Zenon
<1>3. PICK r : r = readableBytes(b)
    BY Zenon
<1>4. R \in Seq(CodecByte) /\ Len(R) = r /\ r \in Nat
    BY <1>2, <1>3, StreamBytes, <<>> \in Seq(CodecByte)
<1>5. \A i \in 1..(x.len + 1) : i <= r => R[i] = PlainByte(m, i - 1)
    BY <1>1, <1>2, <1>3 DEF Clear
<1>6. R[1] = PlainByte(m, 0)
    <2>1. 1 \in 1..(x.len + 1) /\ 1 <= r /\ 1 - 1 = 0
        BY <1>1, <1>3, <1>4
    <2> QED BY <1>5, <2>1
<1>7. ASSUME x.len + 1 <= r PROVE SubSeq(R, 1 + 1, 1 + x.len) = Content(m, x)
    <2>1. 1 \in Nat /\ 1 + x.len \in Nat /\ 1 <= 1 + x.len /\ 1 + x.len <= Len(R) /\ (1 + x.len) - 1 = x.len
        BY <1>1, <1>4, <1>7
    <2>2. /\ SubSeq(R, 1 + 1, 1 + x.len) \in Seq(CodecByte)
          /\ Len(SubSeq(R, 1 + 1, 1 + x.len)) = (1 + x.len) - 1
          /\ \A i \in 1..((1 + x.len) - 1) : SubSeq(R, 1 + 1, 1 + x.len)[i] = R[1 + i]
        BY <1>4, <2>1, Part
    <2>3. PICK c : c = SubSeq(R, 1 + 1, 1 + x.len)
        BY Zenon
    <2>4. c \in Seq(CodecByte) /\ Len(c) = x.len /\ \A i \in 1..x.len : c[i] = R[1 + i]
        BY <2>1, <2>2, <2>3
    <2>5. PICK e : e = Content(m, x)
        BY Zenon
    <2>6. e \in Seq(CodecByte) /\ Len(e) = x.len /\ \A i \in 1..x.len : e[i] = PlainByte(m, i)
        <3>1. /\ Content(m, x) \in Seq(CodecByte) /\ Len(Content(m, x)) = x.len
              /\ \A i \in 1..x.len : Content(m, x)[i] = PlainByte(m, i)
            BY ContentBytes
        <3> QED BY <2>5, <3>1, Zenon
    <2>7. ASSUME NEW i \in 1..x.len PROVE c[i] = e[i]
        <3>1. 1 + i \in 1..(x.len + 1) /\ 1 + i <= r /\ (1 + i) - 1 = i
            BY <1>1, <1>4, <1>7
        <3>2. R[1 + i] = PlainByte(m, (1 + i) - 1)
            BY <1>5, <3>1
        <3> QED BY <2>4, <2>6, <3>1, <3>2
    <2>8. c = e
        BY <2>4, <2>6, <2>7, SeqEqual
    <2> QED BY <2>3, <2>5, <2>8
<1> QED BY <1>1, <1>2, <1>3, <1>6, <1>7, Zenon

-----------------------------------------------------------------------------
(* The invariant of the codec. *)
Shape(b, st, se, dl, er, a, p) ==
    /\ a \in BOOLEAN /\ p \in BOOLEAN
    /\ se \in Seq(Message) /\ st \in Seq(CodecByte) /\ Sound(b, CodecByte)
    /\ dl \in Seq(Nat) /\ er \in Nat \cup {None}

(* The messages delivered are the first ones sent, and were in order. *)
InOrder(dl, se) == \A i \in 1..Len(dl) : dl[i] = i /\ ~Refused(se, i)

Blamed(er, dl, se, a, p) == er # None => er <= Len(dl) /\ Blame(er, se, a, p)

Holds(b, st, se, dl, er, a, p) ==
    /\ Shape(b, st, se, dl, er, a, p)
    /\ Decoded(b, st, se, Len(dl), a, p)
    /\ InOrder(dl, se)
    /\ Blamed(er, dl, se, a, p)

(* No more messages are delivered than were sent. *)
LEMMA DeliveredWereSent ==
    ASSUME NEW b, NEW st \in Seq(CodecByte), NEW se \in Seq(Message), NEW k, NEW a \in BOOLEAN, NEW p,
           Decoded(b, st, se, k, a, p)
    PROVE  k \in Nat /\ k <= Len(se) /\ Len(se) \in Nat
<1>1. PICK S : Laid(S, se, a, k, readableBytes(b) + Len(st))
    BY DEF Decoded, Arranged
<1> QED BY <1>1, LaidFacts

(* Nothing is sent at first. *)
LEMMA HoldsInit ==
    ASSUME Zero \in CodecByte, NEW a \in BOOLEAN, NEW p \in BOOLEAN
    PROVE  Holds(NewBuffer(kInitialSize), <<>>, <<>>, <<>>, None, a, p)
<1>1. PICK b : b = NewBuffer(kInitialSize)
    BY Zenon
<1>2. Sound(b, CodecByte) /\ Readable(b) = <<>> /\ readableBytes(b) = 0 /\ Ahead(b) = 0
    <2>1. Sound(b, CodecByte) /\ Readable(b) = <<>>
        BY <1>1, NewContent
    <2>2. b.reader = kCheapPrepend /\ b.writer = kCheapPrepend /\ b.decrypt = kCheapPrepend /\ kCheapPrepend \in Nat
        BY <1>1, BufferAssumption DEF NewBuffer
    <2> QED BY <2>1, <2>2 DEF readableBytes, Ahead
<1> DEFINE S == [i \in 1..1 |-> 0]
<1>3. /\ Len(<<>>) = 0 /\ <<>> \in Seq(CodecByte) /\ <<>> \in Seq(Message) /\ <<>> \in Seq(Nat)
      /\ <<>> \o <<>> = <<>>
    OBVIOUS
<1>4. Laid(S, <<>>, a, 0, 0)
    <2>1. S \in [1..(0 + 1) -> Int] /\ S[0 + 1] = 0
        OBVIOUS
    <2> HIDE DEF S
    <2> QED BY <1>3, <2>1 DEF Laid
<1>5. S[1] = 0
    OBVIOUS
<1> HIDE DEF S
<1>6. Matches(<<>>, S, <<>>, a, 0)
    BY <1>3 DEF Matches
<1>7. Neat(<<>>, S, <<>>, 0, 0, 0)
    <2>1. 0 \in 0..0 /\ 0 % BlockSize = 0
        BY BlockPositive, Z3
    <2>2. \E m \in (0 + 1)..(0 + 1) : 0 = S[m]
        BY <1>5
    <2>3. \A m \in (0 + 1)..0 : FALSE
        OBVIOUS
    <2> QED BY <1>3, <2>1, <2>2, <2>3 DEF Neat
<1>8. Arranged(S, b, <<>>, <<>>, 0, a, p)
    <2>1. readableBytes(b) + Len(<<>>) = 0
        BY <1>2, <1>3
    <2> QED BY <1>2, <1>3, <1>4, <1>6, <1>7, <2>1 DEF Arranged
<1>9. Decoded(b, <<>>, <<>>, Len(<<>>), a, p)
    BY <1>3, <1>8 DEF Decoded
<1>10. InOrder(<<>>, <<>>) /\ Blamed(None, <<>>, <<>>, a, p)
    BY <1>3 DEF InOrder, Blamed
<1>11. Shape(b, <<>>, <<>>, <<>>, None, a, p)
    BY <1>2, <1>3 DEF Shape
<1> QED BY <1>1, <1>9, <1>10, <1>11 DEF Holds

(* What is to blame for an error stays so when another message is sent. *)
LEMMA BlameStays ==
    ASSUME NEW se \in Seq(Message), NEW x \in Message, NEW e \in Nat, e <= Len(se), NEW a, NEW p,
           Blame(e, se, a, p)
    PROVE  Blame(e, Append(se, x), a, p)
<1>1. PICK t : t = Append(se, x)
    BY Zenon
<1>2. Len(se) \in Nat /\ \A i \in 1..Len(se) : i \in DOMAIN t /\ t[i] = se[i]
    BY <1>1
<1>3. DOMAIN se = 1..Len(se)
    OBVIOUS
<1>4. ASSUME NEW i \in DOMAIN se PROVE i \in DOMAIN t /\ t[i] = se[i]
    BY <1>2, <1>3, <1>4
<1>5. Refused(se, e + 1) => Refused(t, e + 1)
    BY <1>4, Zenon DEF Refused
<1>6. ~AllEven(se, 1, e) => ~AllEven(t, 1, e)
    <2>1. \A j \in 1..e : j \in 1..Len(se)
        BY <1>2
    <2>2. \A j \in 1..e : t[j] = se[j]
        BY <1>2, <2>1, Zenon
    <2> QED BY <2>2, Zenon DEF AllEven
<1>7. e + 1 \in DOMAIN se /\ Bare(se[e + 1]) => e + 1 \in DOMAIN t /\ Bare(t[e + 1])
    BY <1>4, Zenon
<1> QED BY <1>1, <1>5, <1>6, <1>7, Zenon DEF Blame, Disorder

(* A message is sent. *)
LEMMA HoldsSend ==
    ASSUME NEW b, NEW st, NEW se, NEW dl, NEW er, NEW a, NEW p, Holds(b, st, se, dl, er, a, p),
           NEW x \in Message
    PROVE  Holds(b, st \o Sealed(Len(se) + 1, x, a), Append(se, x), dl, er, a, p)
<1>1. /\ a \in BOOLEAN /\ p \in BOOLEAN
      /\ se \in Seq(Message) /\ st \in Seq(CodecByte) /\ Sound(b, CodecByte)
      /\ dl \in Seq(Nat) /\ er \in Nat \cup {None}
    BY DEF Holds, Shape
<1>2. PICK k : k = Len(dl) /\ Decoded(b, st, se, k, a, p)
    BY DEF Holds
<1>3. k \in Nat /\ k <= Len(se) /\ Len(se) \in Nat
    BY <1>1, <1>2, DeliveredWereSent
<1>4. /\ st \o Sealed(Len(se) + 1, x, a) \in Seq(CodecByte)
      /\ Decoded(b, st \o Sealed(Len(se) + 1, x, a), Append(se, x), k, a, p)
    BY <1>1, <1>2, SendDecoded
<1>5. PICK t : t = Append(se, x)
    BY Zenon
<1>6. t \in Seq(Message) /\ \A i \in 1..Len(se) : t[i] = se[i] /\ i \in DOMAIN se
    BY <1>1, <1>5
<1>7. InOrder(dl, t)
    <2>1. ASSUME NEW i \in 1..k PROVE dl[i] = i /\ ~Refused(t, i)
        <3>1. i \in 1..Len(se)
            BY <1>3
        <3>2. dl[i] = i /\ ~Refused(se, i)
            BY <1>2 DEF Holds, InOrder
        <3>3. t[i] = se[i] /\ i \in DOMAIN se
            BY <1>6, <3>1
        <3> QED BY <3>2, <3>3, Zenon DEF Refused
    <2> QED BY <1>2, <2>1 DEF InOrder
<1>8. Blamed(er, dl, t, a, p)
    <2>1. ASSUME er # None PROVE er <= Len(dl) /\ Blame(er, t, a, p)
        <3>1. er <= k /\ Blame(er, se, a, p) /\ er \in Nat
            BY <1>1, <1>2, <2>1 DEF Holds, Blamed
        <3>2. er <= Len(se)
            BY <1>3, <3>1
        <3>3. Blame(er, Append(se, x), a, p)
            BY <1>1, <3>1, <3>2, BlameStays
        <3> QED BY <1>2, <1>5, <3>1, <3>3
    <2> QED BY <2>1 DEF Blamed
<1> QED BY <1>1, <1>2, <1>4, <1>5, <1>6, <1>7, <1>8 DEF Holds, Shape

(* A piece of the stream is read. *)
LEMMA HoldsRead ==
    ASSUME Zero \in CodecByte,
           NEW b, NEW st, NEW se, NEW dl, NEW er, NEW a, NEW p, Holds(b, st, se, dl, er, a, p),
           Len(b.data) < SizeModulus, NEW n \in 1..Len(st), NEW q \in BOOLEAN, CutAt(q, p, st, n)
    PROVE  Holds(readFd(b, SubSeq(st, 1, n)), SubSeq(st, n + 1, Len(st)), se, dl, er, a, q)
<1>1. /\ a \in BOOLEAN /\ p \in BOOLEAN
      /\ se \in Seq(Message) /\ st \in Seq(CodecByte) /\ Sound(b, CodecByte)
      /\ dl \in Seq(Nat) /\ er \in Nat \cup {None}
    BY DEF Holds, Shape
<1>2. PICK k : k = Len(dl) /\ Decoded(b, st, se, k, a, p)
    BY DEF Holds
<1>3. p => q
    BY Zenon DEF CutAt
<1>r. PICK c, s : Reads(c, s, b, st, n)
    BY Zenon DEF Reads
<1>4. Sound(c, CodecByte) /\ s \in Seq(CodecByte) /\ Decoded(c, s, se, k, a, q)
    BY <1>1, <1>2, <1>r, ReadDecoded
<1>5. InOrder(dl, se)
    BY DEF Holds
<1>6. Blamed(er, dl, se, a, p)
    BY DEF Holds
<1>7. Blamed(er, dl, se, a, q)
    BY <1>3, <1>6, Zenon DEF Blamed, Blame, Disorder
<1>9. Shape(c, s, se, dl, er, a, q)
    BY <1>1, <1>4, Zenon DEF Shape
<1>10. Decoded(c, s, se, Len(dl), a, q)
    BY <1>2, <1>4, Zenon
<1>11. Holds(c, s, se, dl, er, a, q)
    BY <1>5, <1>7, <1>9, <1>10, Zenon DEF Holds
<1> QED BY <1>r, <1>11, Zenon DEF Reads

(* decryptBuffer, where there is something to decrypt. *)
LEMMA HoldsDecrypt ==
    ASSUME NEW b, NEW st, NEW se, NEW dl, NEW er, NEW a, NEW p, Holds(b, st, se, dl, er, a, p),
           Len(b.data) < SizeModulus, NEW c, c = IF a THEN decryptBuffer(b) ELSE b
    PROVE  /\ Holds(c, st, se, dl, er, a, p) /\ Decrypted(c, se, Len(dl), a, p)
           /\ Len(c.data) < SizeModulus /\ readableBytes(c) = readableBytes(b)
<1>1. /\ a \in BOOLEAN /\ p \in BOOLEAN
      /\ se \in Seq(Message) /\ st \in Seq(CodecByte) /\ Sound(b, CodecByte)
      /\ dl \in Seq(Nat) /\ er \in Nat \cup {None}
    BY DEF Holds, Shape
<1>2. CASE ~Secret(a)
    <2>1. c = b
        BY <1>2, Zenon DEF Secret
    <2>2. Decrypted(c, se, Len(dl), a, p)
        BY <1>2, Zenon DEF Decrypted, Orderly, Secret
    <2> QED BY <2>1, <2>2
<1>3. CASE Secret(a)
    <2>1. c = decryptBuffer(b)
        BY <1>3, Zenon DEF Secret
    <2>2. PICK k : k = Len(dl) /\ Decoded(b, st, se, k, a, p)
        BY DEF Holds
    <2>3. PICK S : Arranged(S, b, st, se, k, a, p)
        BY <2>2 DEF Decoded
    <2>4. /\ Sound(decryptBuffer(b), CodecByte)
          /\ Len(decryptBuffer(b).data) = Len(b.data)
          /\ readableBytes(decryptBuffer(b)) = readableBytes(b)
          /\ Arranged(S, decryptBuffer(b), st, se, k, a, p)
          /\ Orderly(a, p, se, k) => readableBytes(b) < Ahead(decryptBuffer(b)) + BlockSize
        BY <1>1, <1>3, <2>3, DecryptDecoded
    <2>5. /\ Sound(c, CodecByte) /\ Len(c.data) = Len(b.data) /\ readableBytes(c) = readableBytes(b)
          /\ Arranged(S, c, st, se, k, a, p)
          /\ Orderly(a, p, se, k) => readableBytes(c) < Ahead(c) + BlockSize
        BY <2>1, <2>4, Zenon
    <2>6. Decoded(c, st, se, k, a, p) /\ Decrypted(c, se, k, a, p)
        BY <2>5, Zenon DEF Decoded, Decrypted
    <2>7. Shape(c, st, se, dl, er, a, p)
        BY <1>1, <2>5, Zenon DEF Shape
    <2>8. Holds(c, st, se, dl, er, a, p)
        BY <2>2, <2>6, <2>7, Zenon DEF Holds
    <2> QED BY <2>2, <2>5, <2>6, <2>8
<1> QED BY <1>2, <1>3

(* errorCallback_, where something is to blame. *)
LEMMA HoldsError ==
    ASSUME NEW b, NEW st, NEW se, NEW dl, NEW er, NEW a, NEW p, Holds(b, st, se, dl, er, a, p),
           Blame(Len(dl), se, a, p), NEW e, e = IF er = None THEN Len(dl) ELSE er
    PROVE  Holds(b, st, se, dl, e, a, p)
<1>1. dl \in Seq(Nat) /\ er \in Nat \cup {None} /\ Len(dl) \in Nat
    BY DEF Holds, Shape
<1>2. e \in Nat \cup {None} /\ (e # None => e <= Len(dl) /\ Blame(e, se, a, p))
    <2>1. CASE er = None
        BY <1>1, <2>1
    <2>2. CASE er # None
        BY <1>1, <2>2, Zenon DEF Holds, Blamed
    <2> QED BY <2>1, <2>2
<1>3. Shape(b, st, se, dl, e, a, p)
    BY <1>2, Zenon DEF Holds, Shape
<1>4. Blamed(e, dl, se, a, p)
    BY <1>2, Zenon DEF Blamed
<1> QED BY <1>3, <1>4, Zenon DEF Holds

(* A message whose content is that of one that was sent is taken out of    *)
(* the buffer.                                                             *)
LEMMA HoldsTake ==
    ASSUME NEW b, NEW st, NEW se, NEW dl, NEW er, NEW a, NEW p, Holds(b, st, se, dl, er, a, p),
           Decrypted(b, se, Len(dl), a, p), Len(b.data) < SizeModulus,
           NEW len \in Nat, len >= 1, len + 1 <= readableBytes(b),
           NEW c, NEW m, Finds(c, m, b, len, se), se[m].outcome = "kNoError"
    PROVE  Holds(retrieve(b, 1 + len), st, se, Append(dl, m), er, a, p)
<1>1. /\ a \in BOOLEAN /\ p \in BOOLEAN
      /\ se \in Seq(Message) /\ st \in Seq(CodecByte) /\ Sound(b, CodecByte)
      /\ dl \in Seq(Nat) /\ er \in Nat \cup {None}
    BY DEF Holds, Shape
<1>2. PICK k : k = Len(dl) /\ Decoded(b, st, se, k, a, p)
    BY DEF Holds
<1>3. PICK S : Arranged(S, b, st, se, k, a, p)
    BY <1>2 DEF Decoded
<1>4. k < Len(se) /\ m = k + 1 /\ S[k + 1] = 0 /\ len = se[k + 1].len
    BY <1>1, <1>3, ParsedIsNext
<1>5. k \in Nat /\ Len(se) \in Nat
    BY <1>1, <1>2, DeliveredWereSent
<1>6. se[k + 1] \in Message
    BY <1>1, <1>4, <1>5
<1>7. PICK F : F = 1 + len /\ IsFrame(F, se[k + 1]) /\ F <= readableBytes(b)
    <2>1. PICK x \in Message : x = se[k + 1]
        BY <1>6
    <2>2. FrameLen(x.len) = x.len + 1
        BY WholeSizes
    <2>3. 1 + len = FrameLen(se[k + 1].len)
        BY <1>4, <2>1, <2>2
    <2>4. 1 + len <= readableBytes(b)
        OBVIOUS
    <2> QED BY <2>3, <2>4 DEF IsFrame
<1>8. Orderly(a, p, se, k) => readableBytes(b) < Ahead(b) + BlockSize
    BY <1>2, Zenon DEF Decrypted
<1>9. Sound(retrieve(b, F), CodecByte) /\ Decoded(retrieve(b, F), st, se, k + 1, a, p)
    BY <1>1, <1>3, <1>4, <1>7, <1>8, RetrieveDecoded
<1>10. PICK d : d = Append(dl, m)
    BY Zenon
<1>11. d \in Seq(Nat) /\ Len(d) = k + 1 /\ d[k + 1] = k + 1 /\ \A i \in 1..k : d[i] = dl[i]
    BY <1>1, <1>2, <1>4, <1>5, <1>10
<1>12. InOrder(d, se)
    <2>1. ASSUME NEW i \in 1..(k + 1) PROVE d[i] = i /\ ~Refused(se, i)
        <3>1. CASE i \in 1..k
            <4>1. dl[i] = i /\ ~Refused(se, i)
                BY <1>2, <3>1 DEF Holds, InOrder
            <4> QED BY <1>11, <3>1, <4>1
        <3>2. CASE i = k + 1
            <4>1. ~Refused(se, i)
                BY <1>4, <3>2, Zenon DEF Refused
            <4> QED BY <1>11, <3>2, <4>1
        <3> QED BY <1>5, <3>1, <3>2
    <2> QED BY <1>11, <2>1 DEF InOrder
<1>13. Blamed(er, d, se, a, p)
    <2>1. ASSUME er # None PROVE er <= k + 1 /\ Blame(er, se, a, p)
        <3>1. er <= k /\ Blame(er, se, a, p) /\ er \in Nat
            BY <1>1, <1>2, <2>1 DEF Holds, Blamed
        <3> QED BY <1>5, <3>1
    <2> QED BY <1>11, <2>1 DEF Blamed
<1>14. Shape(retrieve(b, F), st, se, d, er, a, p)
    BY <1>1, <1>9, <1>11, Zenon DEF Shape
<1>15. Holds(retrieve(b, F), st, se, d, er, a, p)
    BY <1>9, <1>11, <1>12, <1>13, <1>14, Zenon DEF Holds
<1> QED BY <1>7, <1>10, <1>15, Zenon

(* A frame in front that nothing is to blame for: its length is that of    *)
(* the next message, and so is its content.                                *)
LEMMA FrontIsNext ==
    ASSUME NEW b, NEW st, NEW se, NEW dl, NEW er, NEW a, NEW p, Holds(b, st, se, dl, er, a, p),
           Decrypted(b, se, Len(dl), a, p), readableBytes(b) > 0, ~Disorder(Len(dl), se, a, p)
    PROVE  \E m \in Nat \ {0} : \E x \in Message :
              /\ m = Len(dl) + 1 /\ m \in DOMAIN se /\ x = se[m]
              /\ Readable(b)[1] = PlainByte(m, 0)
              /\ x.len + 1 <= readableBytes(b) =>
                    SubSeq(Readable(b), kHeaderLen + 1, kHeaderLen + x.len) = Content(m, x)
<1>1. /\ a \in BOOLEAN /\ p \in BOOLEAN
      /\ se \in Seq(Message) /\ st \in Seq(CodecByte) /\ Sound(b, CodecByte)
    BY DEF Holds, Shape
<1>2. PICK k : k = Len(dl) /\ Decoded(b, st, se, k, a, p)
    BY DEF Holds
<1>3. PICK S : Arranged(S, b, st, se, k, a, p)
    BY <1>2 DEF Decoded
<1>4. Decrypted(b, se, k, a, p) /\ ~Disorder(k, se, a, p)
    BY <1>2, Zenon
<1>5. k < Len(se) /\ Clear(b, k + 1, FrameLen(se[k + 1].len))
    BY <1>1, <1>3, <1>4, NextReadable
<1>6. k \in Nat /\ Len(se) \in Nat
    BY <1>1, <1>2, DeliveredWereSent
<1>7. PICK m \in Nat \ {0} : m = k + 1 /\ m \in DOMAIN se
    BY <1>1, <1>5, <1>6
<1>8. PICK x \in Message : x = se[m]
    BY <1>1, <1>7
<1>9. Clear(b, m, FrameLen(x.len)) /\ m \in Nat
    BY <1>5, <1>7, <1>8
<1>10. /\ Readable(b)[1] = PlainByte(m, 0)
       /\ x.len + 1 <= readableBytes(b) =>
             SubSeq(Readable(b), kHeaderLen + 1, kHeaderLen + x.len) = Content(m, x)
    BY <1>1, <1>9, ClearFrame
<1> QED BY <1>2, <1>7, <1>8, <1>10, Zenon

-----------------------------------------------------------------------------
(* The steps of the codec. *)
CodecInv == Holds(inputBuffer, stream, sent, delivered, errors, aes, pieces)

(* A vector is never as large as a size_t can count. *)
Held == Len(inputBuffer.data) < SizeModulus

(* send *)
LEMMA CodecSendStep ==
    ASSUME CodecInv, CodecSend
    PROVE  CodecInv'
<1>1. PICK len \in MessageLens, outcome \in {"kNoError", "kUnknownMessageType"} :
         /\ sent' = Append(sent, [len |-> len, outcome |-> outcome])
         /\ stream' = stream \o (IF aes THEN EncryptedFrame(Len(sent) + 1, len) ELSE Frame(Len(sent) + 1, len))
    BY Zenon DEF CodecSend
<1>2. UNCHANGED <<aes, inputBuffer, decoding, delivered, errors, pieces>>
    BY Zenon DEF CodecSend
<1>3. PICK x \in Message : x = [len |-> len, outcome |-> outcome] /\ x.len = len
    <2>1. [len |-> len, outcome |-> outcome] \in Message
        BY DEF Message
    <2>2. [len |-> len, outcome |-> outcome].len = len
        OBVIOUS
    <2> QED BY <2>1, <2>2, Zenon
<1>4. sent' = Append(sent, x) /\ stream' = stream \o Sealed(Len(sent) + 1, x, aes)
    BY <1>1, <1>3, Zenon DEF Sealed
<1>5. PICK b, st, se, dl, er, a, p : /\ b = inputBuffer /\ st = stream /\ se = sent /\ dl = delivered
                                     /\ er = errors /\ a = aes /\ p = pieces
    BY Zenon
<1>6. Holds(b, st, se, dl, er, a, p)
    BY <1>5, Zenon DEF CodecInv
<1>7. Holds(b, st \o Sealed(Len(se) + 1, x, a), Append(se, x), dl, er, a, p)
    <2> HIDE <1>5
    <2> QED BY <1>6, HoldsSend
<1> QED BY <1>2, <1>4, <1>5, <1>7, Zenon DEF CodecInv

(* readFd *)
LEMMA CodecReadStep ==
    ASSUME Zero \in CodecByte, CodecInv, Held, NEW n \in 1..Len(stream), CodecReadFd(n)
    PROVE  CodecInv'
<1>1. PICK b, st, se, dl, er, a, p : /\ b = inputBuffer /\ st = stream /\ se = sent /\ dl = delivered
                                     /\ er = errors /\ a = aes /\ p = pieces
    BY Zenon
<1>2. PICK q : q = (p \/ ~EndsFrame(st, n))
    BY Zenon
<1>3. Holds(b, st, se, dl, er, a, p)
    BY <1>1, Zenon DEF CodecInv
<1>4. q \in BOOLEAN /\ CutAt(q, p, st, n)
    <2>1. q \in BOOLEAN
        BY <1>2
    <2> QED BY <1>2, <2>1, Zenon DEF CutAt
<1>5. Len(b.data) < SizeModulus /\ n \in 1..Len(st)
    BY <1>1, Zenon DEF Held
<1>6. Holds(readFd(b, SubSeq(st, 1, n)), SubSeq(st, n + 1, Len(st)), se, dl, er, a, q)
    <2> HIDE <1>1, <1>2
    <2> QED BY <1>3, <1>4, <1>5, HoldsRead
<1>7. /\ inputBuffer' = readFd(b, SubSeq(st, 1, n)) /\ stream' = SubSeq(st, n + 1, Len(st))
      /\ sent' = se /\ delivered' = dl /\ errors' = er /\ aes' = a
    BY <1>1, Zenon DEF CodecReadFd
<1>8. pieces' = q
    BY <1>1, <1>2, Zenon DEF CodecReadFd, WholeFrame, EndsFrame
<1> QED BY <1>6, <1>7, <1>8, Zenon DEF CodecInv

(* The number of bytes a length field in a frame that can be read gives. *)
LEMMA PeekNext ==
    ASSUME NEW m, NEW len, len \in PeekLen(PlainByte(m, 0))
    PROVE  len = sent[m].len
<1>1. PlainByte(m, 0).kind = "plain" /\ PlainByte(m, 0).at = 0 /\ PlainByte(m, 0).msg = m
    BY DEF PlainByte
<1> QED BY <1>1 DEF PeekLen

(* An error is one that something is to blame for. *)
LEMMA ErrorBlamed ==
    ASSUME NEW b, NEW st, NEW se, NEW dl, NEW er, NEW a, NEW p, Holds(b, st, se, dl, er, a, p),
           Decrypted(b, se, Len(dl), a, p), readableBytes(b) > 0, readableBytes(b) \in Nat,
           se = sent, NEW len \in PeekLen(Readable(b)[1]),
           \/ ~(len \in kMinMessageLen..kMaxMessageLen)
           \/ /\ IsComplete(b, len)
              /\ Parse(SubSeq(Readable(b), kHeaderLen + 1, kHeaderLen + len)) # "kNoError"
    PROVE  Blame(Len(dl), se, a, p)
<1>1. SUFFICES ASSUME ~Disorder(Len(dl), se, a, p) PROVE Refused(se, Len(dl) + 1)
    BY Zenon DEF Blame
<1>2. PICK m \in Nat \ {0}, x \in Message :
              /\ m = Len(dl) + 1 /\ m \in DOMAIN se /\ x = se[m]
              /\ Readable(b)[1] = PlainByte(m, 0)
              /\ x.len + 1 <= readableBytes(b) =>
                    SubSeq(Readable(b), kHeaderLen + 1, kHeaderLen + x.len) = Content(m, x)
    <2>1. \E m \in Nat \ {0} : \E x \in Message :
              /\ m = Len(dl) + 1 /\ m \in DOMAIN se /\ x = se[m]
              /\ Readable(b)[1] = PlainByte(m, 0)
              /\ x.len + 1 <= readableBytes(b) =>
                    SubSeq(Readable(b), kHeaderLen + 1, kHeaderLen + x.len) = Content(m, x)
        BY <1>1, FrontIsNext
    <2> QED BY <2>1, Zenon
<1>3. len = x.len
    <2>1. len \in PeekLen(PlainByte(m, 0))
        BY <1>2, Zenon
    <2>2. len = sent[m].len
        BY <2>1, PeekNext
    <2> QED BY <1>2, <2>2, Zenon
<1>4. x.len \in MessageLens /\ x.len \in kMinMessageLen..kMaxMessageLen
    BY CodecAssumption DEF Message
<1>5. IsComplete(b, len) /\ Parse(SubSeq(Readable(b), kHeaderLen + 1, kHeaderLen + len)) # "kNoError"
    BY <1>3, <1>4, Zenon
<1>6. x.len + 1 <= readableBytes(b)
    <2>1. readableBytes(b) >= x.len + 1
        BY <1>3, <1>5, CodecAssumption DEF IsComplete
    <2>2. x.len \in Nat
        BY WholeSizes
    <2> QED BY <2>1, <2>2
<1>7. Parse(Content(m, x)) # "kNoError"
    BY <1>2, <1>3, <1>5, <1>6, Zenon
<1>8. Content(m, x)[1].msg = m
    <2>1. x.len \in Nat /\ FrameLen(x.len) = x.len + 1 /\ FrameLen(x.len) >= 2
        BY WholeSizes
    <2>2. 1 \in 1..x.len
        BY <2>1
    <2>3. Content(m, x)[1] = PlainByte(m, 1)
        <3>1. m \in Nat
            OBVIOUS
        <3> QED BY <2>2, <3>1, ContentBytes
    <2> QED BY <2>3 DEF PlainByte
<1>9. Content(m, x) = SubSeq(Frame(m, sent[m].len), kHeaderLen + 1, FrameLen(sent[m].len))
    BY <1>2, Zenon DEF Content
<1>10. m # 0
    OBVIOUS
<1>11. Parse(Content(m, x)) = sent[m].outcome
    BY <1>8, <1>9, <1>10, Zenon DEF Parse
<1>12. se[m].outcome # "kNoError"
    BY <1>7, <1>11, Zenon
<1> QED BY <1>2, <1>12, Zenon DEF Refused

(* One round of the loop of onMessage. *)
LEMMA CodecOnMessageStep ==
    ASSUME CodecInv, Held, CodecOnMessage
    PROVE  CodecInv'
<1>1. PICK b, st, se, dl, er, a, p : /\ b = inputBuffer /\ st = stream /\ se = sent /\ dl = delivered
                                     /\ er = errors /\ a = aes /\ p = pieces
    BY Zenon
<1>2. PICK c : c = IF a THEN decryptBuffer(b) ELSE b
    BY Zenon
<1>3. PICK len \in PeekLen(Readable(c)[1]) : OnFrame(c, len)
    BY <1>1, <1>2, Zenon DEF CodecOnMessage
<1>4. sent' = se /\ stream' = st /\ aes' = a /\ pieces' = p
    BY <1>1, Zenon DEF CodecOnMessage
<1>5. Holds(b, st, se, dl, er, a, p) /\ Len(b.data) < SizeModulus
    BY <1>1, Zenon DEF CodecInv, Held
<1>6. /\ Holds(c, st, se, dl, er, a, p) /\ Decrypted(c, se, Len(dl), a, p)
      /\ Len(c.data) < SizeModulus /\ readableBytes(c) = readableBytes(b)
    <2> HIDE <1>1
    <2> QED BY <1>2, <1>5, HoldsDecrypt
<1>7. Sound(c, CodecByte)
    BY <1>6, Zenon DEF Holds, Shape
<1>8. readableBytes(c) \in Nat /\ readableBytes(c) > 0
    <2>1. readableBytes(b) >= kMinMessageLen + kHeaderLen
        BY <1>1, Zenon DEF CodecOnMessage
    <2>2. readableBytes(c) \in Nat
        <3> HIDE <1>1, <1>2
        <3> QED BY <1>7, StreamBytes, <<>> \in Seq(CodecByte)
    <2> QED BY <1>6, <2>1, <2>2, CodecAssumption
<1> DEFINE content == SubSeq(Readable(c), kHeaderLen + 1, kHeaderLen + len)
<1> HIDE <1>2
<1>9. ASSUME ~(len \in kMinMessageLen..kMaxMessageLen) \/ (IsComplete(c, len) /\ Parse(content) # "kNoError"),
             CodecError, inputBuffer' = c, UNCHANGED delivered
      PROVE  CodecInv'
    <2>1. Blame(Len(dl), se, a, p)
        <3>1. se = sent
            BY <1>1
        <3> HIDE <1>1
        <3> QED BY <1>3, <1>6, <1>8, <1>9, <3>1, ErrorBlamed
    <2>2. PICK e : e = IF er = None THEN Len(dl) ELSE er
        BY Zenon
    <2>3. errors' = e
        BY <1>1, <1>9, <2>2, Zenon DEF CodecError
    <2>4. Holds(c, st, se, dl, e, a, p)
        <3> HIDE <1>1
        <3> QED BY <1>6, <2>1, <2>2, HoldsError
    <2> QED BY <1>1, <1>4, <1>9, <2>3, <2>4, Zenon DEF CodecInv
<1>10. CASE /\ len > kMaxMessageLen \/ len < kMinMessageLen
            /\ CodecError
            /\ inputBuffer' = c
            /\ UNCHANGED delivered
    <2>1. ~(len \in kMinMessageLen..kMaxMessageLen)
        BY <1>10, CodecAssumption
    <2> QED BY <1>9, <1>10, <2>1
<1>11. CASE /\ len \in kMinMessageLen..kMaxMessageLen
            /\ IsComplete(c, len)
            /\ Parse(content) = "kNoError"
            /\ delivered' = Append(delivered, content[1].msg)
            /\ inputBuffer' = RetrieveFrame(c, len)
            /\ UNCHANGED errors
    <2>1. len \in Nat /\ len >= 1 /\ len + 1 <= readableBytes(c)
        BY <1>8, <1>11, CodecAssumption DEF IsComplete
    <2>2. PICK m : m = content[1].msg
        BY Zenon
    <2>3. m # 0 /\ content = SubSeq(Frame(m, sent[m].len), kHeaderLen + 1, FrameLen(sent[m].len))
          /\ sent[m].outcome = "kNoError"
        <3> HIDE DEF content
        <3>1. "kCheckSumError" # "kNoError"
            OBVIOUS
        <3> QED BY <1>11, <2>2, <3>1, Zenon DEF Parse
    <2>4. content = Content(m, se[m]) /\ se[m].outcome = "kNoError"
        BY <1>1, <2>3, Zenon DEF Content
    <2>5. PICK f : f = content
        BY Zenon
    <2>6. kHeaderLen = 1
        BY CodecAssumption
    <2>7. f = SubSeq(Readable(c), 1 + 1, 1 + len)
        BY <2>5, <2>6, Zenon
    <2>8. Finds(f, m, c, len, se)
        BY <2>2, <2>3, <2>4, <2>5, <2>7, Zenon DEF Finds
    <2>9. Holds(retrieve(c, 1 + len), st, se, Append(dl, m), er, a, p)
        <3> HIDE <1>1
        <3> QED BY <1>6, <2>1, <2>4, <2>8, HoldsTake
    <2>10. inputBuffer' = retrieve(c, 1 + len) /\ delivered' = Append(dl, m) /\ errors' = er
        BY <1>1, <1>11, <2>2, <2>6, Zenon DEF RetrieveFrame
    <2> QED BY <1>4, <2>9, <2>10, Zenon DEF CodecInv
<1>12. CASE /\ IsComplete(c, len)
            /\ Parse(content) # "kNoError"
            /\ CodecError
            /\ inputBuffer' = c
            /\ UNCHANGED delivered
    BY <1>9, <1>12
<1>13. CASE inputBuffer' = c /\ UNCHANGED <<delivered, errors>>
    BY <1>1, <1>4, <1>6, <1>13, Zenon DEF CodecInv
<1> QED BY <1>3, <1>10, <1>11, <1>12, <1>13, Zenon DEF OnFrame

(* The end of onMessage, and no step at all. *)
LEMMA CodecSameStep ==
    ASSUME CodecInv, UNCHANGED <<aes, sent, stream, inputBuffer, delivered, errors, pieces>>
    PROVE  CodecInv'
<1>1. PICK b, st, se, dl, er, a, p : /\ b = inputBuffer /\ st = stream /\ se = sent /\ dl = delivered
                                     /\ er = errors /\ a = aes /\ p = pieces
    BY Zenon
<1>2. Holds(b, st, se, dl, er, a, p)
    BY <1>1, Zenon DEF CodecInv
<1> QED BY <1>1, <1>2, Zenon DEF CodecInv

(* The invariant says that frames are in order. *)
LEMMA CodecInvImplies ==
    ASSUME CodecInv
    PROVE  FramesInOrder
<1>1. PICK b, st, se, dl, er, a, p : /\ b = inputBuffer /\ st = stream /\ se = sent /\ dl = delivered
                                     /\ er = errors /\ a = aes /\ p = pieces
    BY Zenon
<1>2. Holds(b, st, se, dl, er, a, p)
    BY <1>1, Zenon DEF CodecInv
<1>3. /\ a \in BOOLEAN /\ p \in BOOLEAN /\ se \in Seq(Message) /\ st \in Seq(CodecByte)
      /\ dl \in Seq(Nat) /\ er \in Nat \cup {None}
    BY <1>2, Zenon DEF Holds, Shape
<1>4. Decoded(b, st, se, Len(dl), a, p) /\ InOrder(dl, se) /\ Blamed(er, dl, se, a, p)
    BY <1>2, Zenon DEF Holds
<1>5. Len(dl) \in Nat /\ Len(dl) <= Len(se) /\ Len(se) \in Nat /\ DOMAIN se = 1..Len(se) /\ DOMAIN dl = 1..Len(dl)
    <2>1. PICK k : k = Len(dl)
        BY Zenon
    <2>2. k \in Nat /\ k <= Len(se) /\ Len(se) \in Nat
        <3>1. Decoded(b, st, se, k, a, p)
            BY <1>4, <2>1, Zenon
        <3> HIDE <1>1, <2>1
        <3> QED BY <1>3, <3>1, DeliveredWereSent
    <2> QED BY <1>3, <2>1, <2>2
<1>6. ASSUME NEW i \in DOMAIN delivered PROVE delivered[i] = i /\ i \in DOMAIN sent /\ ~Bad(i)
    <2>1. i \in 1..Len(dl) /\ i \in DOMAIN se
        BY <1>1, <1>5
    <2>2. dl[i] = i /\ ~Refused(se, i)
        BY <1>4, <2>1, Zenon DEF InOrder
    <2> QED BY <1>1, <2>1, <2>2, Zenon DEF Bad, Refused
<1>7. ASSUME errors # None, ~Bad(errors + 1)
      PROVE  aes /\ (pieces \/ (\E m \in 1..errors : ~Aligned(m)) \/ Exposed(errors + 1))
    <2>1. Blame(er, se, a, p)
        BY <1>1, <1>4, <1>7, Zenon DEF Blamed
    <2>2. ~Refused(se, er + 1)
        BY <1>1, <1>7, Zenon DEF Bad, Refused
    <2>3. Disorder(er, se, a, p)
        BY <2>1, <2>2, Zenon DEF Blame
    <2> QED BY <1>1, <2>3, Zenon DEF Disorder, AllEven, Even, Aligned, Bare, Exposed
<1> QED BY <1>6, <1>7, Zenon DEF FramesInOrder

(* However the stream is cut into pieces, what onMessage takes out of the  *)
(* buffer are the messages that were sent, in order and once each, none    *)
(* that parse refuses, and an error comes without a refused message only   *)
(* with encryption, when a read has returned part of a frame, a message    *)
(* has been padded or the next one ends outside the encrypted blocks: for  *)
(* any lengths, block size and number of messages, any initial size and    *)
(* any ExtraBuf, as long as the vector is not larger than a size_t counts. *)
THEOREM FramesArriveInOrder ==
    ASSUME Zero \in CodecByte
    PROVE  CodecSpec /\ []Held => []FramesInOrder
<1>1. CodecInit => CodecInv
    <2> SUFFICES ASSUME CodecInit PROVE CodecInv
        OBVIOUS
    <2>1. PICK a, p : a = aes /\ p = pieces
        BY Zenon
    <2>2. a \in BOOLEAN /\ p \in BOOLEAN
        BY <2>1 DEF CodecInit
    <2>3. Holds(NewBuffer(kInitialSize), <<>>, <<>>, <<>>, None, a, p)
        <3> HIDE <2>1
        <3> QED BY <2>2, HoldsInit
    <2> QED BY <2>1, <2>3, Zenon DEF CodecInit, CodecInv
<1>2. CodecInv /\ Held /\ [CodecNext]_codecVars => CodecInv'
    <2> SUFFICES ASSUME CodecInv, Held, [CodecNext]_codecVars PROVE CodecInv'
        OBVIOUS
    <2>1. CASE CodecSend
        BY <2>1, CodecSendStep
    <2>2. ASSUME NEW n \in 1..Len(stream), CodecReadFd(n) PROVE CodecInv'
        BY <2>2, CodecReadStep
    <2>3. CASE CodecOnMessage
        BY <2>3, CodecOnMessageStep
    <2>4. CASE CodecOnMessageEnd
        BY <2>4, CodecSameStep DEF CodecOnMessageEnd
    <2>5. CASE UNCHANGED codecVars
        BY <2>5, CodecSameStep DEF codecVars
    <2> QED BY <2>1, <2>2, <2>3, <2>4, <2>5, Zenon DEF CodecNext
<1>3. CodecInv => FramesInOrder
    BY CodecInvImplies
<1> QED BY <1>1, <1>2, <1>3, PTL DEF CodecSpec
=============================================================================
