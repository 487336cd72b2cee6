---------------------------- MODULE BufferQueue ----------------------------
(***************************************************************************)
(* A Buffer under any sequence of legal calls, and the byte queue that it  *)
(* implements.                                                             *)
(***************************************************************************)
EXTENDS Buffer

CONSTANTS Byte,      \* what a byte can be
          MaxBytes,  \* bound: bytes in one call
          MaxSize    \* bound: size of the vector

ASSUME QueueAssumption == Zero \in Byte /\ MaxBytes \in Nat /\ MaxSize \in Nat

VARIABLES buf,
          call   \* history: the last call, and the bytes or the number it was given

bufVars == <<buf, call>>

BufInit == /\ buf = NewBuffer(kInitialSize)
           /\ call = [op |-> "none"]

(* The bytes of one call. *)
Chunk == UNION {[1..n -> Byte] : n \in 0..MaxBytes}

BufAppend == \E bytes \in Chunk :
    /\ buf' = append(buf, bytes)
    /\ Len(buf'.data) <= MaxSize
    /\ call' = [op |-> "putBack", bytes |-> bytes]

BufReadFd == \E bytes \in Chunk :
    /\ Len(bytes) <= ReadLimit(buf)
    /\ buf' = readFd(buf, bytes)
    /\ Len(buf'.data) <= MaxSize
    /\ call' = [op |-> "putBack", bytes |-> bytes]

BufRetrieve == \E n \in 0..readableBytes(buf) :
    /\ buf' = retrieve(buf, n)
    /\ call' = [op |-> "takeFront", n |-> n]

BufRetrieveAll ==
    /\ buf' = retrieveAll(buf)
    /\ call' = [op |-> "takeFront", n |-> readableBytes(buf)]

BufUnwrite == \E n \in 0..readableBytes(buf) :
    /\ buf' = unwrite(buf, n)
    /\ call' = [op |-> "takeBack", n |-> n]

BufPrepend == \E bytes \in Chunk :
    /\ Len(bytes) <= prependableBytes(buf)
    /\ buf' = prepend(buf, bytes)
    /\ call' = [op |-> "putFront", bytes |-> bytes]

BufShrink == \E reserve \in 0..MaxBytes :
    /\ buf' = shrink(buf, reserve)
    /\ Len(buf'.data) <= MaxSize
    /\ call' = [op |-> "arrange"]

BufEnsure == \E n \in 0..MaxBytes :
    /\ buf' = ensureWritableBytes(buf, n)
    /\ Len(buf'.data) <= MaxSize
    /\ call' = [op |-> "arrange"]

BufHasDecrypt == \E n \in 0..MaxBytes :
    /\ n <= unDecryptedBytes(buf)
    /\ buf' = hasDecrypt(buf, n)
    /\ call' = [op |-> "arrange"]

BufNext == \/ BufAppend
           \/ BufReadFd
           \/ BufRetrieve
           \/ BufRetrieveAll
           \/ BufUnwrite
           \/ BufPrepend
           \/ BufShrink
           \/ BufEnsure
           \/ BufHasDecrypt

BufSpec == BufInit /\ [][BufNext]_bufVars

-----------------------------------------------------------------------------
(* The layout drawn in Buffer.h: the indices are in order and inside the   *)
(* vector, which is never shorter than the room for a length field.        *)
BufTypeOK == /\ buf \in [data : Seq(Byte), reader : Nat, writer : Nat, decrypt : 0..(SizeModulus - 1)]
             /\ buf.reader <= buf.writer
             /\ buf.writer <= Len(buf.data)
             /\ kCheapPrepend <= Len(buf.data)

Abstract == INSTANCE ByteQueue WITH queue <- Readable(buf)

(* A Buffer is a byte queue: whether the vector grows, its content moves   *)
(* to the front, a read overflows to the stack or the indices start over,  *)
(* append, readFd and prepend add exactly the bytes they were given, at    *)
(* their end; retrieve and unwrite take away exactly the number they were  *)
(* given; and ensureWritableBytes, shrink and hasDecrypt lose, repeat or   *)
(* overwrite none.                                                         *)
ImplementsByteQueue == Abstract!QueueSpec
=============================================================================
