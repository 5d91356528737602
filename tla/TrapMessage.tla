----------------------------- MODULE TrapMessage -----------------------------
(***************************************************************************)
(* What a Trap message is on a connection (Trap.Message of trap-full.js):  *)
(* bytes in the regular format of a page that has typed arrays, a text in  *)
(* the 7-bit format of one that has not.  The blob that a transport gets   *)
(* may hold several messages, and the beginning of one.                    *)
(*                                                                         *)
(* A message is a record of id, op and data, a sequence of bytes.  Pages   *)
(* compress nothing and authenticate with the empty text, and use channel  *)
(* 0, so those fields of the header are 0.  Numbers stay below 2^31.       *)
(***************************************************************************)
EXTENDS Integers, SequencesExt

OpCode == [OPEN |-> 1, OPENED |-> 2, CLOSE |-> 3, END |-> 4, CHALLENGE |-> 5,
           ERROR |-> 6, MESSAGE |-> 8, ACK |-> 9, FRAGMENT_START |-> 10,
           FRAGMENT_END |-> 11, OK |-> 16, PING |-> 17, PONG |-> 18, TRANSPORT |-> 19]

OpOf(code) == CHOOSE op \in DOMAIN OpCode : OpCode[op] = code

\* Bits first to last of a 32-bit number, the highest being bit 1.
GetBits(n, first, last) == (n \div 2 ^ (32 - last)) % 2 ^ (last - first + 1)

WriteInt7(n) == <<GetBits(n, 5, 11), GetBits(n, 12, 18), GetBits(n, 19, 25), GetBits(n, 26, 32)>>
WriteInt8(n) == <<GetBits(n, 1, 8), GetBits(n, 9, 16), GetBits(n, 17, 24), GetBits(n, 25, 32)>>

\* Four digits of a buffer.
ReadInt(buf, at, base) ==
    FoldLeft(LAMBDA n, d : n * base + (d % base), 0, SubSeq(buf, at, at + 3))
-----------------------------------------------------------------------------
(* Texts: sequences of character codes. *)

Utf8Encode(c) ==
    IF c < 128 THEN <<c>>
    ELSE IF c < 2048 THEN <<192 + (c \div 64), 128 + (c % 64)>>
    ELSE <<224 + (c \div 4096), 128 + ((c \div 64) % 64), 128 + (c % 64)>>

ToUTF8ByteArray(text) == FlattenSeq([i \in DOMAIN text |-> Utf8Encode(text[i])])

\* Of bytes that are UTF-8; of others it throws.
FromUTF8ByteArray(bytes) ==
    LET first == SelectSeq([i \in DOMAIN bytes |-> i], LAMBDA i : bytes[i] < 128 \/ bytes[i] >= 192)
        char(i) == IF bytes[i] < 128 THEN bytes[i]
                   ELSE IF bytes[i] < 224 THEN (bytes[i] - 192) * 64 + bytes[i + 1] - 128
                   ELSE ((bytes[i] - 224) * 64 + bytes[i + 1] - 128) * 64 + bytes[i + 2] - 128
    IN [k \in DOMAIN first |-> char(first[k])]
-----------------------------------------------------------------------------
(* The two kinds of stream, with more written to the end; the 512 bytes in *)
(* which a stream of bytes grows are enough for every message here.        *)
Write(bos, part) == bos \o part
WriteText(bos, text) == bos \o text

Serialize8bit(m) ==
    Write(<<128 + OpCode[m.op], 0, 0, 0>> \o WriteInt8(m.id) \o <<0, 0, 0, 0>>
             \o WriteInt8(Len(m.data)), m.data)

\* Variant: the length is that of the text.
Serialize7bitByText(m) ==
    WriteText(<<OpCode[m.op], 0, 0, 0>> \o WriteInt7(m.id) \o WriteInt7(0)
             \o WriteInt7(Len(FromUTF8ByteArray(m.data))), FromUTF8ByteArray(m.data))

\* The length is that of the bytes, what follows is their text.
Serialize7bit(m) ==
    WriteText(<<OpCode[m.op], 0, 0, 0>> \o WriteInt7(m.id) \o WriteInt7(0)
             \o WriteInt7(Len(m.data)), FromUTF8ByteArray(m.data))

Serialize(m, binary) == IF binary THEN Serialize8bit(m) ELSE Serialize7bit(m)

\* notifyMessage and poll: a text arrives as the bytes of its UTF-8 form.
Blob(stream, binary) == IF binary THEN stream ELSE ToUTF8ByteArray(stream)

\* The message that begins behind byte offset; size is -1 if not all of it is
\* there.  What the buffer says decides between the formats.
Deserialize(buf, offset) ==
    LET byte(i) == buf[offset + i + 1]
        base == IF byte(0) >= 128 THEN 256 ELSE 128
        authLen == IF base = 256 THEN byte(2) * 256 + byte(3)
                   ELSE (byte(1) % 4) * 16384 + (byte(2) % 128) * 128 + (byte(3) % 128)
        contentLen == ReadInt(buf, offset + 13, base)
        start == offset + 16 + authLen
    IN  IF Len(buf) - offset < 16 \/ Len(buf) - offset < 16 + authLen + contentLen
        THEN [size |-> -1]
        ELSE [size |-> 16 + authLen + contentLen,
              message |-> [id |-> ReadInt(buf, offset + 5, base), op |-> OpOf(byte(0) % 64),
                           data |-> SubSeq(buf, start + 1, start + contentLen)]]

\* receive: the messages of the blob behind what was left over, and what is
\* left over now.
Receive(bos, blob) ==
    LET buf == Write(bos, blob)
        from[offset \in 0..Len(buf)] ==
            LET r == Deserialize(buf, offset)
            IN  IF r.size = -1
                THEN [messages |-> <<>>, bos |-> SubSeq(buf, offset + 1, Len(buf))]
                ELSE LET more == from[offset + r.size]
                     IN  [more EXCEPT !.messages = <<r.message>> \o @]
    IN  from[0]
-----------------------------------------------------------------------------
(* The data of an ACK: message ids, in the regular format behind the number *)
(* of their channel.                                                        *)

\* Bits first to last - 1, the highest being bit 0.
ConverterBits(n, first, last) == (n \div 2 ^ (32 - last)) % 2 ^ (last - first)

ToBigEndian7(n) == <<ConverterBits(n, 4, 11), ConverterBits(n, 11, 18),
                     ConverterBits(n, 18, 25), ConverterBits(n, 25, 32)>>
ToBigEndian(n) == <<n \div 2 ^ 24, (n \div 2 ^ 16) % 256, (n \div 2 ^ 8) % 256, n % 256>>

\* A 7-bit number whose highest bit is set is read as a negative one.
FromBigEndian7(buf, at) ==
    LET n == ReadInt(buf, at, 128) IN IF n >= 2 ^ 27 THEN n - 2 ^ 28 ELSE n
FromBigEndian(buf, at) == ReadInt(buf, at, 256)

AckData(ids, binary) ==
    FlattenSeq([i \in DOMAIN ids |->
        IF binary THEN <<0>> \o ToBigEndian(ids[i]) ELSE ToBigEndian7(ids[i])])

AckIds(data, binary) ==
    IF binary THEN [i \in 1..(Len(data) \div 5) |-> FromBigEndian(data, 5 * i - 3)]
              ELSE [i \in 1..(Len(data) \div 4) |-> FromBigEndian7(data, 4 * i - 3)]
=============================================================================
