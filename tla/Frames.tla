------------------------------- MODULE Frames -------------------------------
(***************************************************************************)
(* The frames of a WebSocket (handlers_compat.go): what writeWSFrame puts  *)
(* on a connection and what readWSFrame makes of the bytes it gets.  A     *)
(* stream is the sequence of bytes that arrive until the connection ends;  *)
(* io.ReadFull fails where it ends too early.  Browsers write frames of    *)
(* any opcode, and mask them with a key of four bytes.                     *)
(***************************************************************************)
EXTENDS Integers, Sequences

CONSTANT ByteXor(_, _)  \* of two bytes

Byte == 0 .. 255

ASSUME XorAssumption ==
    \A a, b \in Byte : ByteXor(a, b) \in Byte /\ ByteXor(ByteXor(a, b), b) = a

MaxRead == 1048576  \* 1 << 20
Text == 1

----------------------------------------------------------------------------
(* Lengths.                                                                *)

Uint16Bytes(n) == <<(n \div 256) % 256, n % 256>>

Uint64Bytes(n) ==
    LET n1 == n  \div 256  n2 == n1 \div 256  n3 == n2 \div 256
        n4 == n3 \div 256  n5 == n4 \div 256  n6 == n5 \div 256
        n7 == n6 \div 256
    IN  <<n7 % 256, n6 % 256, n5 % 256, n4 % 256, n3 % 256, n2 % 256, n1 % 256, n % 256>>

\* binary.BigEndian, of the bytes of s from position i on.
Uint16(s, i) == 256 * s[i] + s[i + 1]

Uint64(s, i) ==
    LET h1 == Uint16(s, i)              h2 == 256 * h1 + s[i + 2]
        h3 == 256 * h2 + s[i + 3]       h4 == 256 * h3 + s[i + 4]
        h5 == 256 * h4 + s[i + 5]       h6 == 256 * h5 + s[i + 6]
    IN  256 * h6 + s[i + 7]

\* The seven bits that hold a length, or say how many bytes of it follow.
Code(n) == IF n < 126 THEN n ELSE IF n <= 65535 THEN 126 ELSE 127

Extension(n) ==
    IF n < 126 THEN <<>> ELSE IF n <= 65535 THEN Uint16Bytes(n) ELSE Uint64Bytes(n)

----------------------------------------------------------------------------
(* Frames.                                                                 *)

\* payload[i] ^= mask[i%4]
Masked(payload, key) ==
    [i \in 1 .. Len(payload) |-> ByteXor(payload[i], key[((i - 1) % 4) + 1])]

\* A frame of a browser; one that is not masked has no key.
Frame(opcode, key, payload) ==
    <<128 + opcode, (IF key = <<>> THEN 0 ELSE 128) + Code(Len(payload))>>
       \o Extension(Len(payload)) \o key
       \o (IF key = <<>> THEN payload ELSE Masked(payload, key))

WriteWSFrame(payload) == Frame(Text, <<>>, payload)

Failed == [opcode |-> 0, payload |-> <<>>, size |-> 0]

\* Of the second byte of a header: is the frame masked, and how many bytes of
\* its length follow?
IsMasked(b) == b >= 128
Extended(b) == CASE b % 128 = 126 -> 2 [] b % 128 = 127 -> 8 [] OTHER -> 0

LengthRead(s) ==
    CASE Extended(s[2]) = 0 -> s[2] % 128
      [] Extended(s[2]) = 2 -> Uint16(s, 3)
      [] Extended(s[2]) = 8 -> Uint64(s, 3)

\* What readWSFrame returns, and how many bytes it has taken: Failed when the
\* stream ends within the frame, or the frame is too large.
ReadWSFrame(s) ==
    IF Len(s) < 2 \/ Len(s) < 2 + Extended(s[2]) THEN Failed
    ELSE LET n == LengthRead(s)
             key == 2 + Extended(s[2])
             start == key + (IF IsMasked(s[2]) THEN 4 ELSE 0)
             payload == SubSeq(s, start + 1, start + n)
         IN  IF n > MaxRead \/ Len(s) < start + n THEN Failed
             ELSE [opcode |-> s[1] % 16,
                   payload |-> IF IsMasked(s[2])
                               THEN Masked(payload, SubSeq(s, key + 1, key + 4))
                               ELSE payload,
                   size |-> start + n]
============================================================================
