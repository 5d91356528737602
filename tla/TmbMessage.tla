----------------------------- MODULE TmbMessage -----------------------------
(***************************************************************************)
(* The frames of the bus between a web page and the broker (tmb.js): how a *)
(* frame becomes bytes and is read from them again.  A text is a sequence  *)
(* of characters, a character its code point below 2048.  A payload is a   *)
(* JSON text, of which only the identity matters: one byte stands for it.  *)
(* Bit shifts on 32 bits are exact here, as lengths stay far below 2^31.   *)
(***************************************************************************)
EXTENDS Integers, SequencesExt

HELLO == 0
SEND == 1

Message(op, to, from, payload) ==
    [op |-> op, to |-> to, from |-> from, channel |-> <<>>, payload |-> payload]

Char == 0..2047
Byte == 0..255

\* One byte for a character below 128, two for the others.
Utf8(c) == IF c < 128 THEN <<c>> ELSE <<192 + (c \div 64), 128 + (c % 64)>>
ToUTF8ByteArray(text) == FlattenSeq([i \in DOMAIN text |-> Utf8(text[i])])

\* Variant: every byte is a character, as in rmb-amb.js.
FromCharCodes(bytes) == bytes

\* What is read of a text when its byte i comes: one of 192 or more begins a
\* character of two bytes.
Decode(read, bytes, i) ==
    IF bytes[i] < 128 THEN Append(read, bytes[i])
    ELSE IF bytes[i] >= 192 THEN read
    ELSE Append(read, (bytes[i - 1] - 192) * 64 + bytes[i] - 128)

FromUTF8ByteArray(bytes) ==
    LET read[i \in 0..Len(bytes)] == IF i = 0 THEN <<>> ELSE Decode(read[i - 1], bytes, i)
    IN read[Len(bytes)]

WriteInt(n) == <<(((n \div 256) \div 256) \div 256) % 256, ((n \div 256) \div 256) % 256,
                 (n \div 256) % 256, n % 256>>
ReadInt(bytes) == ((bytes[1] * 256 + bytes[2]) * 256 + bytes[3]) * 256 + bytes[4]

WithLength(bytes) == WriteInt(Len(bytes)) \o bytes

Serialize(m) ==
    LET field(text) == WithLength(ToUTF8ByteArray(text))
        body == <<m.op>> \o field(m.to) \o field(m.from) \o field(m.channel)
                         \o WithLength(m.payload)
    IN WriteInt(4 + Len(body)) \o body

\* A part of a buffer ends where the buffer does.
Subarray(buf, first, length) ==
    SubSeq(buf, first, IF first + length - 1 < Len(buf) THEN first + length - 1 ELSE Len(buf))

\* The field that begins at a place of a buffer, and where the next one does.
LengthAt(buf, at) == ReadInt(Subarray(buf, at, 4))
FieldAt(buf, at) == Subarray(buf, at + 4, LengthAt(buf, at))
Behind(buf, at) == at + 4 + LengthAt(buf, at)

Deserialize(buf) ==
    LET from == Behind(buf, 6)
        channel == Behind(buf, from)
        payload == Behind(buf, channel)
    IN [op |-> buf[5],
        to |-> FromUTF8ByteArray(FieldAt(buf, 6)),
        from |-> FromUTF8ByteArray(FieldAt(buf, from)),
        channel |-> FromUTF8ByteArray(FieldAt(buf, channel)),
        payload |-> FieldAt(buf, payload)]
=============================================================================
