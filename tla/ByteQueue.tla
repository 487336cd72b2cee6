----------------------------- MODULE ByteQueue -----------------------------
(***************************************************************************)
(* What muduo::net::Buffer promises its users: a queue of bytes that grows *)
(* at the back and is consumed at the front.  The last bytes can be taken  *)
(* back, and a few bytes put in front of it, for a length field.  Every    *)
(* call changes the queue by the bytes, or by the number of bytes, that it *)
(* was given and by nothing else.                                          *)
(***************************************************************************)
EXTENDS Naturals, Sequences

CONSTANT Byte

VARIABLES queue,
          call     \* the last call, with its argument

QueueInit == /\ queue = <<>>
             /\ call = [op |-> "none"]

(* append, and readFd with the bytes that were read *)
PutBack == /\ call'.op = "putBack"
           /\ call'.bytes \in Seq(Byte)
           /\ queue' = queue \o call'.bytes

(* prepend *)
PutFront == /\ call'.op = "putFront"
            /\ call'.bytes \in Seq(Byte)
            /\ queue' = call'.bytes \o queue

(* retrieve *)
TakeFront == /\ call'.op = "takeFront"
             /\ call'.n \in 0..Len(queue)
             /\ queue' = SubSeq(queue, call'.n + 1, Len(queue))

(* unwrite *)
TakeBack == /\ call'.op = "takeBack"
            /\ call'.n \in 0..Len(queue)
            /\ queue' = SubSeq(queue, 1, Len(queue) - call'.n)

(* ensureWritableBytes, shrink and hasDecrypt: the memory is arranged. *)
Arrange == /\ call'.op = "arrange"
           /\ queue' = queue

QueueNext == PutBack \/ PutFront \/ TakeFront \/ TakeBack \/ Arrange

QueueSpec == QueueInit /\ [][QueueNext]_<<queue, call>>
=============================================================================
