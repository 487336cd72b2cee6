--------------------------- MODULE ProtobufCodec ---------------------------
(***************************************************************************)
(* Frames over a byte stream (muduo/net/protobuf/ProtobufCodec): one side  *)
(* sends messages, the stream arrives in pieces of any size in the other   *)
(* side's inputBuffer_, and onMessage takes the messages out of it again.  *)
(* With aes_ set, as between LogonClient, ForwardClient and their servers, *)
(* each frame is padded and encrypted block by block.                      *)
(*                                                                         *)
(* The length field of 4 bytes is one byte here, the block of 16 is        *)
(* BlockSize.  A byte is named by the message it belongs to and its place  *)
(* in the frame: 0 is the length, 1 to the length of the message the       *)
(* content with its check sum, what follows is padding.                    *)
(***************************************************************************)
EXTENDS Buffer

CONSTANTS kHeaderLen,      \* the length field, 1 byte
          kMinMessageLen,
          kMaxMessageLen,
          BlockSize,       \* AES_BLOCK_SIZE
          MessageLens,     \* the lengths of messages
          MaxSent          \* bound: messages sent

ASSUME CodecAssumption == /\ kHeaderLen = 1
                          /\ kMinMessageLen \in Nat \ {0} /\ kMaxMessageLen \in Nat
                          /\ BlockSize \in Nat \ {0}
                          /\ MessageLens \subseteq kMinMessageLen..kMaxMessageLen
                          /\ MaxSent \in Nat

VARIABLES aes,          \* setAes has been called on both sides
          sent,         \* history: the messages that were sent: length and what parse makes of it
          stream,       \* bytes on their way
          inputBuffer,  \* inputBuffer_ of the receiving connection
          decoding,     \* in the loop of onMessage
          delivered,    \* history: the messages passed to messageCallback_
          errors,       \* history: how many messages had been delivered at the first error, or none
          pieces        \* history: the stream has not always arrived a whole frame at a time

codecVars == <<aes, sent, stream, inputBuffer, decoding, delivered, errors, pieces>>

None == -1

CodecInit == /\ aes \in BOOLEAN
             /\ sent = <<>>
             /\ stream = <<>>
             /\ inputBuffer = NewBuffer(kInitialSize)
             /\ decoding = FALSE
             /\ delivered = <<>>
             /\ errors = None
             /\ pieces = FALSE

-----------------------------------------------------------------------------
(* The sender. *)

PlainByte(m, at) == [kind |-> "plain", msg |-> m, at |-> at]

CipherByte(m, at) == [kind |-> "cipher", msg |-> m, at |-> at]

(* What decrypting a block that was not encrypted as one yields. *)
Junk == [kind |-> "junk", msg |-> 0, at |-> 0]

FrameLen(len) == kHeaderLen + len

(* encryptBuffer: paddingLen *)
PaddingLen(frameLen) == frameLen % BlockSize

(* fillEmptyBuffer: message m, of length len *)
Frame(m, len) == [i \in 1..FrameLen(len) |-> PlainByte(m, i - 1)]

PaddedLen(len) == FrameLen(len) + PaddingLen(FrameLen(len))

(* What is in whole blocks, of n bytes. *)
InBlocks(n) == n - (n % BlockSize)

EncryptedLen(len) == InBlocks(PaddedLen(len))

(* encryptBuffer: padded, and only the whole blocks are encrypted. *)
EncryptedFrame(m, len) ==
    [i \in 1..PaddedLen(len) |-> IF i <= EncryptedLen(len) THEN CipherByte(m, i - 1)
                                                          ELSE PlainByte(m, i - 1)]

(* send; parse will find the message in order, or of an unknown type. *)
CodecSend ==
    /\ Len(sent) < MaxSent
    /\ \E len \in MessageLens, outcome \in {"kNoError", "kUnknownMessageType"} :
          LET m == Len(sent) + 1
          IN /\ sent' = Append(sent, [len |-> len, outcome |-> outcome])
             /\ stream' = stream \o (IF aes THEN EncryptedFrame(m, len) ELSE Frame(m, len))
    /\ UNCHANGED <<aes, inputBuffer, decoding, delivered, errors, pieces>>

-----------------------------------------------------------------------------
(* The receiver. *)

(* The next read of the stream ends where a frame ends. *)
WholeFrame(n) == n = Len(stream) \/ stream[n + 1].at = 0

(* TcpConnection::handleRead: readFd, then the codec's onMessage. *)
CodecReadFd(n) ==
    /\ ~decoding
    /\ n <= ReadLimit(inputBuffer)
    /\ inputBuffer' = readFd(inputBuffer, SubSeq(stream, 1, n))
    /\ stream' = SubSeq(stream, n + 1, Len(stream))
    /\ decoding' = TRUE
    /\ pieces' = (pieces \/ ~WholeFrame(n))
    /\ UNCHANGED <<aes, sent, delivered, errors>>

(* AES decryption of the block after index at, external: IGE with a fixed  *)
(* iv for each block.                                                      *)
DecryptBlock(memory, at) ==
    LET first == memory[at + 1]
    IN IF /\ first.at % BlockSize = 0
          /\ \A i \in 1..BlockSize : memory[at + i] = CipherByte(first.msg, first.at + i - 1)
       THEN [i \in 1..BlockSize |-> PlainByte(first.msg, first.at + i - 1)]
       ELSE [i \in 1..BlockSize |-> Junk]

(* decryptBuffer: the loop over the blocks that are there whole, one after *)
(* the other in place.                                                     *)
decryptBuffer(b) ==
    LET size     == InBlocks(unDecryptedBytes(b))
        place(i) == (i - 1 - b.decrypt) % BlockSize
    IN hasDecrypt([b EXCEPT !.data = [i \in 1..Len(@) |->
                      IF b.decrypt < i /\ i <= b.decrypt + size
                      THEN DecryptBlock(b.data, i - 1 - place(i))[place(i) + 1]
                      ELSE b.data[i]]], size)

(* peekInt32: the length a frame begins with, 0 in the padding; other      *)
(* bytes can be any number.                                                *)
PeekLen(byte) ==
    IF byte.kind # "plain" THEN 0..(kMaxMessageLen + 1)
    ELSE IF byte.at = 0 THEN {sent[byte.msg].len}
    ELSE IF byte.at > sent[byte.msg].len THEN {0}
    ELSE 0..(kMaxMessageLen + 1)

(* parse, of the bytes after the length field: the check sum finds what is *)
(* not the content of one message.                                         *)
Parse(bytes) ==
    LET m == bytes[1].msg
    IN IF m # 0 /\ bytes = SubSeq(Frame(m, sent[m].len), kHeaderLen + 1, FrameLen(sent[m].len))
       THEN sent[m].outcome
       ELSE "kCheckSumError"

(* readableBytes() >= len + kHeaderLen *)
IsComplete(b, len) == readableBytes(b) >= len + kHeaderLen

(* Mutant: the length field of the frame stays in the buffer. *)
RetrieveFrameOnly(b, len) == retrieve(b, len)

(* retrieve(kHeaderLen+len) *)
RetrieveFrame(b, len) == retrieve(b, kHeaderLen + len)

(* errorCallback_: shutdown, which does not end the reading. *)
CodecError == errors' = IF errors = None THEN Len(delivered) ELSE errors

(* One round of the loop of onMessage, with the buffer b and the length it *)
(* begins with.                                                            *)
OnFrame(b, len) ==
    LET content == SubSeq(Readable(b), kHeaderLen + 1, kHeaderLen + len)
    IN \/ /\ len > kMaxMessageLen \/ len < kMinMessageLen
          /\ CodecError
          /\ decoding' = FALSE
          /\ inputBuffer' = b
          /\ UNCHANGED delivered
       \/ /\ len \in kMinMessageLen..kMaxMessageLen
          /\ IsComplete(b, len)
          /\ Parse(content) = "kNoError"
          /\ delivered' = Append(delivered, content[1].msg)
          /\ inputBuffer' = RetrieveFrame(b, len)
          /\ UNCHANGED <<decoding, errors>>
       \/ /\ len \in kMinMessageLen..kMaxMessageLen
          /\ IsComplete(b, len)
          /\ Parse(content) # "kNoError"
          /\ CodecError
          /\ decoding' = FALSE
          /\ inputBuffer' = b
          /\ UNCHANGED delivered
       \/ /\ len \in kMinMessageLen..kMaxMessageLen
          /\ ~IsComplete(b, len)
          /\ decoding' = FALSE
          /\ inputBuffer' = b
          /\ UNCHANGED <<delivered, errors>>

CodecOnMessage ==
    /\ decoding
    /\ readableBytes(inputBuffer) >= kMinMessageLen + kHeaderLen
    /\ LET b == IF aes THEN decryptBuffer(inputBuffer) ELSE inputBuffer
       IN \E len \in PeekLen(Readable(b)[1]) : OnFrame(b, len)
    /\ UNCHANGED <<aes, sent, stream, pieces>>

CodecOnMessageEnd ==
    /\ decoding
    /\ readableBytes(inputBuffer) < kMinMessageLen + kHeaderLen
    /\ decoding' = FALSE
    /\ UNCHANGED <<aes, sent, stream, inputBuffer, delivered, errors, pieces>>

-----------------------------------------------------------------------------
CodecNext == \/ CodecSend
             \/ \E n \in 1..Len(stream) : CodecReadFd(n)
             \/ CodecOnMessage
             \/ CodecOnMessageEnd

CodecSpec == CodecInit /\ [][CodecNext]_codecVars

-----------------------------------------------------------------------------
(* A message that parse refuses. *)
Bad(m) == m \in DOMAIN sent /\ sent[m].outcome # "kNoError"

(* Messages of a length that needs no padding, and those whose content     *)
(* does not end with a whole block, so that its last bytes are sent plain. *)
Aligned(m) == FrameLen(sent[m].len) % BlockSize = 0

Exposed(m) == m \in DOMAIN sent /\ FrameLen(sent[m].len) > EncryptedLen(sent[m].len)

(* What onMessage takes out of the stream is what was sent, in order and   *)
(* once each, however the stream is cut into pieces, and nothing behind a  *)
(* bad message.  It finds no error before the first bad one: without       *)
(* encryption; and with it as long as each read returns whole frames, the  *)
(* messages so far had no padding and the next one is encrypted to its     *)
(* last byte.                                                              *)
FramesInOrder ==
    /\ \A i \in DOMAIN delivered : delivered[i] = i /\ i \in DOMAIN sent /\ ~Bad(i)
    /\ errors # None /\ ~Bad(errors + 1) =>
           aes /\ (pieces \/ (\E m \in 1..errors : ~Aligned(m)) \/ Exposed(errors + 1))
=============================================================================
