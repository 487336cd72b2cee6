------------------------------- MODULE Buffer -------------------------------
(***************************************************************************)
(* muduo::net::Buffer: a vector of bytes and three indices into it, which  *)
(* count from 0 as in the code, while the sequence data counts from 1.     *)
(* decryptIndex_ runs behind readerIndex_ when nothing is decrypted, and   *)
(* the size_t arithmetic on it wraps around.                               *)
(***************************************************************************)
EXTENDS Integers, Sequences

CONSTANTS Zero,          \* the byte of fresh memory
          kCheapPrepend, \* room in front of the content
          kInitialSize,  \* room for the content at first
          ExtraBuf,      \* the size of readFd's buffer on the stack
          SizeModulus    \* a size_t counts modulo 2^64

ASSUME BufferAssumption == /\ kCheapPrepend \in Nat
                           /\ kInitialSize \in Nat
                           /\ ExtraBuf \in Nat
                           /\ SizeModulus \in Nat /\ SizeModulus > kCheapPrepend

(* A new Buffer with room for initialSize bytes. *)
NewBuffer(initialSize) == [data    |-> [i \in 1..(kCheapPrepend + initialSize) |-> Zero],
                           reader  |-> kCheapPrepend,
                           writer  |-> kCheapPrepend,
                           decrypt |-> kCheapPrepend]

readableBytes(b)    == b.writer - b.reader
writableBytes(b)    == Len(b.data) - b.writer
decryptedBytes(b)   == (b.decrypt - b.reader) % SizeModulus
unDecryptedBytes(b) == (b.writer - b.decrypt) % SizeModulus
prependableBytes(b) == b.reader

(* The bytes from peek() to beginWrite(). *)
Readable(b) == SubSeq(b.data, b.reader + 1, b.writer)

(* memory with bytes copied to the places after index at *)
CopyTo(memory, at, bytes) ==
    [i \in 1..Len(memory) |->
        IF at < i /\ i <= at + Len(bytes) THEN bytes[i - at] ELSE memory[i]]

retrieveAll(b) == [b EXCEPT !.reader  = kCheapPrepend,
                            !.writer  = kCheapPrepend,
                            !.decrypt = kCheapPrepend]

retrieve(b, len) ==
    IF len < readableBytes(b) THEN [b EXCEPT !.reader = @ + len] ELSE retrieveAll(b)

(* Mutant: the indices move to the front, the content stays. *)
MakeSpaceWithoutCopy(b, len) ==
    IF writableBytes(b) + prependableBytes(b) < len + kCheapPrepend
    THEN [b EXCEPT !.data = [i \in 1..(b.writer + len) |->
                                IF i <= Len(b.data) THEN b.data[i] ELSE Zero]]
    ELSE [b EXCEPT !.reader  = kCheapPrepend,
                   !.writer  = kCheapPrepend + readableBytes(b),
                   !.decrypt = (kCheapPrepend + decryptedBytes(b)) % SizeModulus]

(* makeSpace: a longer vector, or the content moves to the front. *)
makeSpace(b, len) ==
    IF writableBytes(b) + prependableBytes(b) < len + kCheapPrepend
    THEN [b EXCEPT !.data = [i \in 1..(b.writer + len) |->
                                IF i <= Len(b.data) THEN b.data[i] ELSE Zero]]
    ELSE [b EXCEPT !.data    = CopyTo(b.data, kCheapPrepend, Readable(b)),
                   !.reader  = kCheapPrepend,
                   !.writer  = kCheapPrepend + readableBytes(b),
                   !.decrypt = (kCheapPrepend + decryptedBytes(b)) % SizeModulus]

ensureWritableBytes(b, len) == IF writableBytes(b) < len THEN makeSpace(b, len) ELSE b

hasWritten(b, len) == [b EXCEPT !.writer = @ + len]

append(b, bytes) ==
    LET c == ensureWritableBytes(b, Len(bytes))
    IN hasWritten([c EXCEPT !.data = CopyTo(@, c.writer, bytes)], Len(bytes))

unwrite(b, len) == [b EXCEPT !.writer = @ - len]

prepend(b, bytes) == [b EXCEPT !.reader = @ - Len(bytes),
                               !.data   = CopyTo(@, b.reader - Len(bytes), bytes)]

hasDecrypt(b, len) == [b EXCEPT !.decrypt = (@ + len) % SizeModulus]

(* shrink: a new Buffer takes the content. *)
shrink(b, reserve) ==
    append(ensureWritableBytes(NewBuffer(kInitialSize), readableBytes(b) + reserve), Readable(b))

(* Mutant: what went to the stack is not appended. *)
ReadFdWithoutOverflow(b, bytes) ==
    LET n == IF Len(bytes) <= writableBytes(b) THEN Len(bytes) ELSE writableBytes(b)
    IN hasWritten([b EXCEPT !.data = CopyTo(@, b.writer, SubSeq(bytes, 1, n))], n)

(* readFd, with the bytes that readv returns: what does not fit goes to a  *)
(* buffer on the stack first.                                              *)
readFd(b, bytes) ==
    LET writable == writableBytes(b)
        n        == Len(bytes)
    IN IF n <= writable
       THEN hasWritten([b EXCEPT !.data = CopyTo(@, b.writer, bytes)], n)
       ELSE append([b EXCEPT !.data   = CopyTo(@, b.writer, SubSeq(bytes, 1, writable)),
                             !.writer = Len(b.data)],
                   SubSeq(bytes, writable + 1, n))

(* How much readv returns at most: the stack buffer is only used when the  *)
(* writable bytes are fewer than it has.                                   *)
ReadLimit(b) == IF writableBytes(b) < ExtraBuf THEN writableBytes(b) + ExtraBuf
                                               ELSE writableBytes(b)
=============================================================================
