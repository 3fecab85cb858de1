---------------------------- MODULE FramesProofs ----------------------------
(***************************************************************************)
(* readWSFrame gets back from a stream what was written on it, for frames  *)
(* of every length: whole frames and nothing else, and exactly their       *)
(* bytes, so that the next frame is found.                                 *)
(***************************************************************************)
EXTENDS Frames, SequenceTheorems, TLAPS

Key == {k \in Seq(Byte) : Len(k) = 4}

\* 2^64
Limit == 18446744073709551616

\* What a byte is, without its 256 cases.
LEMMA ByteIs == \A b : b \in Byte <=> b \in Int /\ 0 <= b /\ b <= 255
  BY DEF Byte

\* The last digit of a number to base 256, and the rest.
LEMMA Digit ==
  ASSUME NEW n \in Nat
  PROVE  /\ n \div 256 \in Nat /\ n % 256 \in Nat /\ n % 256 < 256
         /\ n = 256 * (n \div 256) + (n % 256)
  <1>1. n \div 256 \in Int /\ n \div 256 >= 0 /\ n % 256 \in Int
    BY SMT
  <1>2. n % 256 >= 0 /\ n % 256 < 256
    BY SMT
  <1>3. \A q, r \in Int : q = n \div 256 /\ r = n % 256 => n = 256 * q + r
    BY SMT
  <1>4. n = 256 * (n \div 256) + (n % 256)
    BY <1>1, <1>3, ZenonT(40)
  <1>5. n \div 256 \in Nat /\ n % 256 \in Nat
    BY <1>1, <1>2, SMTT(30)
  <1> QED BY <1>2, <1>4, <1>5, Zenon

\* The eight bytes of a length give it back.
THEOREM Uint64RoundTrip ==
  ASSUME NEW n \in Nat, n < Limit
  PROVE  /\ Uint64Bytes(n) \in Seq(Byte) /\ Len(Uint64Bytes(n)) = 8
         /\ Uint64(Uint64Bytes(n), 1) = n
  <1> DEFINE n1 == n  \div 256
             n2 == n1 \div 256
             n3 == n2 \div 256
             n4 == n3 \div 256
             n5 == n4 \div 256
             n6 == n5 \div 256
             n7 == n6 \div 256
             r == n  % 256
             r1 == n1 % 256
             r2 == n2 % 256
             r3 == n3 % 256
             r4 == n4 % 256
             r5 == n5 % 256
             r6 == n6 % 256
             r7 == n7 % 256
             b == <<r7, r6, r5, r4, r3, r2, r1, r>>
  <1>0. Uint64Bytes(n) = b
    BY DEF Uint64Bytes
  <1>1. n1 \in Nat /\ r \in Nat /\ r < 256 /\ n = 256 * n1 + r
    BY Digit
  <1> HIDE DEF n1, r
  <1>2. n2 \in Nat /\ r1 \in Nat /\ r1 < 256 /\ n1 = 256 * n2 + r1
    BY <1>1, Digit
  <1> HIDE DEF n2, r1
  <1>3. n3 \in Nat /\ r2 \in Nat /\ r2 < 256 /\ n2 = 256 * n3 + r2
    BY <1>2, Digit
  <1> HIDE DEF n3, r2
  <1>4. n4 \in Nat /\ r3 \in Nat /\ r3 < 256 /\ n3 = 256 * n4 + r3
    BY <1>3, Digit
  <1> HIDE DEF n4, r3
  <1>5. n5 \in Nat /\ r4 \in Nat /\ r4 < 256 /\ n4 = 256 * n5 + r4
    BY <1>4, Digit
  <1> HIDE DEF n5, r4
  <1>6. n6 \in Nat /\ r5 \in Nat /\ r5 < 256 /\ n5 = 256 * n6 + r5
    BY <1>5, Digit
  <1> HIDE DEF n6, r5
  <1>7. n7 \in Nat /\ r6 \in Nat /\ r6 < 256 /\ n6 = 256 * n7 + r6
    BY <1>6, Digit
  <1>8. n7 < 256
    BY <1>1, <1>2, <1>3, <1>4, <1>5, <1>6, <1>7 DEF Limit
  <1>9. r7 = n7
    <2>1. r7 \in Nat /\ n7 = 256 * (n7 \div 256) + r7 /\ n7 \div 256 \in Nat
      BY <1>7, Digit
    <2> HIDE DEF n7
    <2>2. n7 \div 256 = 0
      BY <1>7, <1>8, SMT
    <2> QED BY <2>1, <2>2
  <1> HIDE DEF n7, r6, r7
  <1>10. \A x \in {r, r1, r2, r3, r4, r5, r6, r7} : x \in Byte
    BY <1>1, <1>2, <1>3, <1>4, <1>5, <1>6, <1>7, <1>8, <1>9, ByteIs
  <1>11. b \in Seq(Byte) /\ Len(b) = 8
    BY <1>10
  <1>12. /\ b[1] = n7 /\ b[2] = r6 /\ b[3] = r5 /\ b[4] = r4
         /\ b[5] = r3 /\ b[6] = r2 /\ b[7] = r1 /\ b[8] = r
    BY <1>9
  <1> HIDE DEF b
  <1>13. Uint64(b, 1) = n
    BY <1>1, <1>2, <1>3, <1>4, <1>5, <1>6, <1>7, <1>9, <1>12 DEF Uint64, Uint16
  <1> QED BY <1>0, <1>11, <1>13

\* The two bytes of a length give it back.
LEMMA Uint16RoundTrip ==
  ASSUME NEW n \in Nat, n <= 65535
  PROVE  /\ Uint16Bytes(n) \in Seq(Byte) /\ Len(Uint16Bytes(n)) = 2
         /\ Uint16(Uint16Bytes(n), 1) = n
  <1> DEFINE q == n \div 256
             r == n % 256
  <1>1. q \in Nat /\ r \in Nat /\ r < 256 /\ n = 256 * q + r
    BY Digit
  <1>2. q < 256
    BY <1>1, SMT
  <1>3. q % 256 = q
    <2>1. q % 256 \in Nat /\ q = 256 * (q \div 256) + (q % 256) /\ q \div 256 \in Nat
      BY <1>1, Digit
    <2>2. q \div 256 = 0
      BY <1>1, <1>2, SMT
    <2> QED BY <2>1, <2>2
  <1>4. Uint16Bytes(n) = <<q, r>>
    BY <1>3 DEF Uint16Bytes
  <1>5. q \in Byte /\ r \in Byte
    BY <1>1, <1>2, ByteIs
  <1> HIDE DEF q, r
  <1>6. Uint16(<<q, r>>, 1) = n
    BY <1>1 DEF Uint16
  <1> QED BY <1>4, <1>5, <1>6

\* What the second byte of a frame says about the bytes that follow it.
LEMMA ExtensionFacts ==
  ASSUME NEW n \in Nat, n < Limit, NEW m, m = 0 \/ m = 128
  PROVE  /\ Extension(n) \in Seq(Byte)
         /\ m + Code(n) \in Byte
         /\ IsMasked(m + Code(n)) <=> m = 128
         /\ (m + Code(n)) % 128 = Code(n)
         /\ Len(Extension(n)) = Extended(m + Code(n))
         /\ Extended(m + Code(n)) = IF n < 126 THEN 0 ELSE IF n <= 65535 THEN 2 ELSE 8
  <1>1. /\ Code(n) \in Nat /\ Code(n) < 128
        /\ Code(n) = 126 <=> n >= 126 /\ n <= 65535
        /\ Code(n) = 127 <=> n > 65535
    BY DEF Code
  <1>2. \A c \in Nat : c < 128 => (0 + c) % 128 = c /\ (128 + c) % 128 = c
    BY SMT
  <1>3. (m + Code(n)) % 128 = Code(n)
    BY <1>1, <1>2
  <1>4. m + Code(n) \in Byte /\ (IsMasked(m + Code(n)) <=> m = 128)
    BY <1>1, ByteIs DEF IsMasked
  <1>5. Extended(m + Code(n)) = IF n < 126 THEN 0 ELSE IF n <= 65535 THEN 2 ELSE 8
    BY <1>1, <1>3 DEF Extended
  <1>6. /\ Extension(n) \in Seq(Byte)
        /\ Len(Extension(n)) = IF n < 126 THEN 0 ELSE IF n <= 65535 THEN 2 ELSE 8
    <2>1. CASE n < 126
      BY <2>1 DEF Extension
    <2>2. CASE n >= 126 /\ n <= 65535
      <3>1. Extension(n) = Uint16Bytes(n)
        BY <2>2 DEF Extension
      <3>2. Uint16Bytes(n) \in Seq(Byte) /\ Len(Uint16Bytes(n)) = 2
        BY <2>2, Uint16RoundTrip
      <3> QED BY <2>2, <3>1, <3>2
    <2>3. CASE n > 65535
      <3>1. Extension(n) = Uint64Bytes(n)
        BY <2>3 DEF Extension
      <3>2. Uint64Bytes(n) \in Seq(Byte) /\ Len(Uint64Bytes(n)) = 8
        BY Uint64RoundTrip
      <3> QED BY <2>3, <3>1, <3>2
    <2> QED BY <2>1, <2>2, <2>3
  <1> QED BY <1>3, <1>4, <1>5, <1>6

\* Masking twice with one key changes nothing.
LEMMA Unmasked ==
  ASSUME NEW p \in Seq(Byte), NEW k \in Key
  PROVE  /\ Masked(p, k) \in Seq(Byte) /\ Len(Masked(p, k)) = Len(p)
         /\ Masked(Masked(p, k), k) = p
  <1>1. \A i \in 1 .. Len(p) : k[((i - 1) % 4) + 1] \in Byte /\ p[i] \in Byte
    <2> SUFFICES ASSUME NEW i \in 1 .. Len(p)
                 PROVE  k[((i - 1) % 4) + 1] \in Byte /\ p[i] \in Byte
      OBVIOUS
    <2>1. ((i - 1) % 4) + 1 \in 1 .. 4
      BY SMT
    <2>2. \A j \in 1 .. 4 : k[j] \in Byte
      BY ElementOfSeq DEF Key
    <2>3. k[((i - 1) % 4) + 1] \in Byte
      BY <2>1, <2>2, Zenon
    <2> QED BY <2>3
  <1>2. \A i \in 1 .. Len(p) :
          ByteXor(p[i], k[((i - 1) % 4) + 1]) \in Byte
    BY <1>1, XorAssumption
  <1>3. Masked(p, k) \in [1 .. Len(p) -> Byte]
    BY <1>2 DEF Masked
  <1>4. Masked(p, k) \in Seq(Byte) /\ Len(Masked(p, k)) = Len(p)
    BY <1>3, LenProperties
  <1>5. Masked(Masked(p, k), k) = [i \in 1 .. Len(p) |-> p[i]]
    <2>1. \A i \in 1 .. Len(p) :
            ByteXor(Masked(p, k)[i], k[((i - 1) % 4) + 1]) = p[i]
      BY <1>1, XorAssumption DEF Masked
    <2> QED BY <1>4, <2>1 DEF Masked
  <1> QED BY <1>4, <1>5

\* Where the elements of four sequences are in their concatenation.
LEMMA Joined ==
  ASSUME NEW S, NEW a \in Seq(S), NEW b \in Seq(S), NEW c \in Seq(S), NEW d \in Seq(S),
         NEW s, s = a \o b \o c \o d
  PROVE  /\ s \in Seq(S)
         /\ Len(s) = Len(a) + Len(b) + Len(c) + Len(d)
         /\ \A i \in 1 .. Len(a) : s[i] = a[i]
         /\ \A i \in 1 .. Len(b) : s[Len(a) + i] = b[i]
         /\ \A i \in 1 .. Len(c) : s[Len(a) + Len(b) + i] = c[i]
         /\ \A i \in 1 .. Len(d) : s[Len(a) + Len(b) + Len(c) + i] = d[i]
  <1> DEFINE s2 == a \o b
             s3 == s2 \o c
             s4 == s3 \o d
  <1>1. /\ Len(a) \in Nat /\ Len(b) \in Nat /\ Len(c) \in Nat /\ Len(d) \in Nat
    BY LenProperties
  <1>2. /\ s2 \in Seq(S) /\ Len(s2) = Len(a) + Len(b)
        /\ \A i \in 1 .. Len(a) + Len(b) :
             s2[i] = IF i <= Len(a) THEN a[i] ELSE b[i - Len(a)]
    BY ConcatProperties, Zenon
  <1> HIDE DEF s2
  <1>3. /\ s3 \in Seq(S) /\ Len(s3) = Len(s2) + Len(c)
        /\ \A i \in 1 .. Len(s2) + Len(c) :
             s3[i] = IF i <= Len(s2) THEN s2[i] ELSE c[i - Len(s2)]
    BY <1>2, ConcatProperties
  <1> HIDE DEF s3
  <1>4. /\ s4 \in Seq(S) /\ Len(s4) = Len(s3) + Len(d)
        /\ \A i \in 1 .. Len(s3) + Len(d) :
             s4[i] = IF i <= Len(s3) THEN s3[i] ELSE d[i - Len(s3)]
    BY <1>3, ConcatProperties
  <1> HIDE DEF s4
  <1>5. Len(s4) = Len(a) + Len(b) + Len(c) + Len(d)
    BY <1>1, <1>2, <1>3, <1>4
  <1>6. \A i \in 1 .. Len(a) : s4[i] = a[i]
    BY <1>1, <1>2, <1>3, <1>4
  <1>7. \A i \in 1 .. Len(b) : s4[Len(a) + i] = b[i]
    BY <1>1, <1>2, <1>3, <1>4
  <1>8. \A i \in 1 .. Len(c) : s4[Len(a) + Len(b) + i] = c[i]
    BY <1>1, <1>2, <1>3, <1>4
  <1>9. \A i \in 1 .. Len(d) : s4[Len(a) + Len(b) + Len(c) + i] = d[i]
    <2> SUFFICES ASSUME NEW i \in 1 .. Len(d)
                 PROVE  s4[Len(a) + Len(b) + Len(c) + i] = d[i]
      OBVIOUS
    <2> DEFINE j == Len(a) + Len(b) + Len(c) + i
    <2>1. Len(s3) = Len(a) + Len(b) + Len(c)
      BY <1>1, <1>2, <1>3
    <2>2. j \in 1 .. Len(s3) + Len(d) /\ ~ (j <= Len(s3)) /\ j - Len(s3) = i
      BY <1>1, <2>1
    <2> HIDE DEF j
    <2>3. s4[j] = d[j - Len(s3)]
      BY <1>4, <2>2, Zenon
    <2> QED BY <2>2, <2>3, Zenon DEF j
  <1>10. s4 = s
    BY DEF s2, s3, s4
  <1> QED BY <1>4, <1>5, <1>6, <1>7, <1>8, <1>9, <1>10, Zenon

\* What follows the length of a frame, and the bit that says so.
Body(key, payload) == IF key = <<>> THEN payload ELSE Masked(payload, key)
Bit(key) == IF key = <<>> THEN 0 ELSE 128

\* Where the parts of a frame are.
LEMMA FrameShape ==
  ASSUME NEW op \in 0 .. 15, NEW key \in Key \cup {<<>>}, NEW payload \in Seq(Byte),
         Len(payload) < Limit
  PROVE  LET f == Frame(op, key, payload)
             n == Len(payload)
             second == Bit(key) + Code(n)
             e == Extended(second)
         IN  /\ f \in Seq(Byte)
             /\ Len(f) = 2 + e + Len(key) + n
             /\ \A i \in 1 .. 2 : f[i] = <<128 + op, second>>[i]
             /\ \A i \in 1 .. e : f[2 + i] = Extension(n)[i]
             /\ \A i \in 1 .. Len(key) : f[2 + e + i] = key[i]
             /\ \A i \in 1 .. n : f[2 + e + Len(key) + i] = Body(key, payload)[i]
  <1> DEFINE f == Frame(op, key, payload)
             n == Len(payload)
             second == Bit(key) + Code(n)
             e == Extended(second)
             head == <<128 + op, second>>
             ext == Extension(n)
             body == Body(key, payload)
  <1>1. n \in Nat /\ (Bit(key) = 0 \/ Bit(key) = 128)
    BY LenProperties DEF Bit
  <1>2. ext \in Seq(Byte) /\ second \in Byte /\ Len(ext) = e
    BY <1>1, ExtensionFacts
  <1>3. 128 + op \in Byte
    BY ByteIs
  <1>4. head \in Seq(Byte) /\ Len(head) = 2 /\ head[1] = 128 + op /\ head[2] = second
    BY <1>2, <1>3
  <1>5. key \in Seq(Byte)
    BY EmptySeq DEF Key
  <1>6. body \in Seq(Byte) /\ Len(body) = n
    <2>1. CASE key = <<>>
      BY <2>1 DEF Body
    <2>2. CASE key # <<>>
      BY <2>2, Unmasked DEF Body
    <2> QED BY <2>1, <2>2
  <1>7. f = head \o ext \o key \o body
    BY DEF Frame, Body, Bit
  <1> HIDE DEF f, head, ext, body, second, e
  <1>8. /\ f \in Seq(Byte)
        /\ Len(f) = Len(head) + Len(ext) + Len(key) + Len(body)
        /\ \A i \in 1 .. Len(head) : f[i] = head[i]
        /\ \A i \in 1 .. Len(ext) : f[Len(head) + i] = ext[i]
        /\ \A i \in 1 .. Len(key) : f[Len(head) + Len(ext) + i] = key[i]
        /\ \A i \in 1 .. Len(body) : f[Len(head) + Len(ext) + Len(key) + i] = body[i]
    <2>1. head \in Seq(Byte) /\ ext \in Seq(Byte) /\ body \in Seq(Byte)
      BY <1>2, <1>4, <1>6
    <2> QED BY <2>1, <1>5, <1>7, Joined
  <1>9. \A i \in 1 .. 2 : f[i] = <<128 + op, second>>[i]
    BY <1>4, <1>8 DEF head
  <1> QED BY <1>2, <1>4, <1>6, <1>8, <1>9 DEF f, second, e, ext, body

\* A part of a sequence that agrees with a sequence t is t.
LEMMA Part ==
  ASSUME NEW S, NEW s \in Seq(S), NEW m \in Nat, NEW n \in Nat, m + n <= Len(s),
         NEW t \in Seq(S), Len(t) = n, \A i \in 1 .. n : s[m + i] = t[i]
  PROVE  SubSeq(s, m + 1, m + n) = t
  <1> DEFINE first == m + 1
             last == m + n
             b == SubSeq(s, first, last)
  <1>1. Len(s) \in Nat
    BY LenProperties
  <1>2. /\ first \in Int /\ last \in Int /\ last - first + 1 = n
        /\ first <= last <=> n > 0
    BY SMT
  <1>3. \A i \in first .. last : s[i] \in S
    BY <1>1, ElementOfSeq
  <1>4. \A i \in 1 .. n : first + i - 1 = m + i
    BY SMT
  <1> HIDE DEF first, last
  <1>5. /\ b \in Seq(S)
        /\ Len(b) = IF first <= last THEN last - first + 1 ELSE 0
        /\ \A i \in 1 .. last - first + 1 : b[i] = s[first + i - 1]
    BY <1>2, <1>3, SubSeqProperties
  <1> HIDE DEF b
  <1>6. Len(b) = n
    BY <1>2, <1>5
  <1>7. \A i \in 1 .. n : b[i] = t[i]
    BY <1>2, <1>4, <1>5
  <1>8. b = t
    BY <1>5, <1>6, <1>7, SeqEqual
  <1> QED BY <1>8 DEF b, first, last

\* What readWSFrame makes of a stream that is a frame as far as it goes.
LEMMA ReadAlong ==
  ASSUME NEW op \in 0 .. 15, NEW key \in Key \cup {<<>>}, NEW payload \in Seq(Byte),
         Len(payload) < Limit,
         NEW s \in Seq(Byte),
         \A i \in 1 .. Len(s) :
            i <= Len(Frame(op, key, payload)) => s[i] = Frame(op, key, payload)[i]
  PROVE  ReadWSFrame(s) =
           IF Len(payload) > MaxRead \/ Len(s) < Len(Frame(op, key, payload)) THEN Failed
           ELSE [opcode |-> op, payload |-> payload, size |-> Len(Frame(op, key, payload))]
  <1> DEFINE f == Frame(op, key, payload)
             n == Len(payload)
             second == Bit(key) + Code(n)
             e == Extended(second)
             ext == Extension(n)
             body == Body(key, payload)
             start == 2 + e + Len(key)
  <1>1. /\ n \in Nat /\ Len(s) \in Nat /\ (Bit(key) = 0 \/ Bit(key) = 128)
        /\ Bit(key) = 128 <=> key # <<>>
    BY LenProperties DEF Bit
  <1>2. /\ ext \in Seq(Byte) /\ Len(ext) = e /\ second % 128 = Code(n)
        /\ IsMasked(second) <=> key # <<>>
        /\ e = IF n < 126 THEN 0 ELSE IF n <= 65535 THEN 2 ELSE 8
    BY <1>1, ExtensionFacts
  <1>3. key \in Seq(Byte) /\ (Len(key) = IF key = <<>> THEN 0 ELSE 4)
    BY EmptySeq DEF Key
  <1>4. Len(f) = start + n
    BY FrameShape
  <1>9. f[1] = 128 + op /\ f[2] = second
    <2>1. \A i \in 1 .. 2 : f[i] = <<128 + op, second>>[i]
      BY FrameShape, ZenonT(40)
    <2> HIDE DEF f, second
    <2> QED BY <2>1
  <1>10. \A i \in 1 .. e : f[2 + i] = ext[i]
    BY FrameShape
  <1>11. \A i \in 1 .. Len(key) : f[2 + e + i] = key[i]
    BY FrameShape
  <1>12. \A i \in 1 .. n : f[start + i] = body[i]
    BY FrameShape
  <1>5. body \in Seq(Byte) /\ Len(body) = n
    <2>1. CASE key = <<>>
      BY <2>1 DEF Body
    <2>2. CASE key # <<>>
      BY <2>2, Unmasked DEF Body
    <2> QED BY <2>1, <2>2
  <1>6. \A i \in 1 .. Len(s) : i <= Len(f) => s[i] = f[i]
    OBVIOUS
  <1>13. /\ e \in Nat /\ start \in Nat /\ n \in Nat /\ Len(s) \in Nat
         /\ 2 + e <= start /\ Len(f) = start + n
    BY <1>1, <1>2, <1>3, <1>4, SMTT(30)
  <1> HIDE DEF f, second, e, ext, body, n, start
  <1>7. CASE Len(s) < 2 + e
    <2>1. CASE Len(s) < 2
      BY <2>1, <1>13 DEF ReadWSFrame, f
    <2>2. CASE Len(s) >= 2
      <3>1. s[2] = second
        BY <2>2, <1>9, <1>6, <1>13
      <3>2. ReadWSFrame(s) = Failed
        BY <3>1, <1>7 DEF ReadWSFrame, e
      <3>3. Len(s) < Len(f)
        BY <1>7, <1>13
      <3> QED BY <3>2, <3>3 DEF f
    <2> QED BY <2>1, <2>2, <1>1
  <1>8. CASE Len(s) >= 2 + e
    <2>1. s[1] = 128 + op /\ s[2] = second /\ ~ (Len(s) < 2) /\ ~ (Len(s) < 2 + e)
      BY <1>8, <1>9, <1>6, <1>13
    <2>2. LengthRead(s) = n
      <3>1. \A i \in 1 .. e : s[2 + i] = ext[i]
        BY <1>8, <1>6, <1>10, <1>13
      <3>2. CASE n < 126
        <4>1. e = 0 /\ Code(n) = n
          BY <3>2, <1>2 DEF Code
        <4> QED BY <4>1, <2>1, <1>2 DEF LengthRead, e
      <3>3. CASE n >= 126 /\ n <= 65535
        <4>1. e = 2 /\ ext = Uint16Bytes(n)
          BY <3>3, <1>2, <1>13 DEF ext, Extension
        <4>2. s[3] = ext[1] /\ s[4] = ext[2]
          BY <3>1, <4>1
        <4>3. Uint16(s, 3) = Uint16(ext, 1)
          BY <4>2 DEF Uint16
        <4>4. Uint16(ext, 1) = n
          BY <4>1, <1>1, <3>3, Uint16RoundTrip
        <4> QED BY <4>1, <4>3, <4>4, <2>1 DEF LengthRead, e
      <3>4. CASE n > 65535
        <4>1. e = 8 /\ ext = Uint64Bytes(n)
          BY <3>4, <1>1, <1>2 DEF ext, Extension
        <4>2. /\ s[3] = ext[1] /\ s[4] = ext[2] /\ s[5] = ext[3] /\ s[6] = ext[4]
              /\ s[7] = ext[5] /\ s[8] = ext[6] /\ s[9] = ext[7] /\ s[10] = ext[8]
          BY <3>1, <4>1
        <4>3. Uint64(s, 3) = Uint64(ext, 1)
          BY <4>2 DEF Uint64, Uint16
        <4>4. Uint64(ext, 1) = n
          BY <4>1, <1>1, Uint64RoundTrip DEF n
        <4> QED BY <4>1, <4>3, <4>4, <2>1 DEF LengthRead, e
      <3> QED BY <3>2, <3>3, <3>4, <1>1
    <2>3. (128 + op) % 16 = op
      BY SMT
    <2>4. start = 2 + e + (IF IsMasked(second) THEN 4 ELSE 0)
      BY <1>2, <1>3 DEF start
    <2>5. CASE n > MaxRead \/ Len(s) < start + n
      <3>1. ReadWSFrame(s) = Failed
        BY <2>1, <2>2, <2>4, <2>5, Zenon DEF ReadWSFrame, e
      <3> QED BY <3>1, <2>5, <1>4 DEF f, n
    <2>6. CASE ~ (n > MaxRead \/ Len(s) < start + n)
      <3>1. SubSeq(s, start + 1, start + n) = body
        <4>1. \A i \in 1 .. n : s[start + i] = body[i]
          BY <2>6, <1>6, <1>12, <1>13
        <4> QED BY <4>1, <2>6, <1>5, <1>13, Part
      <3>2. key # <<>> => SubSeq(s, 2 + e + 1, 2 + e + 4) = key
        <4> SUFFICES ASSUME key # <<>>
                     PROVE  SubSeq(s, 2 + e + 1, 2 + e + 4) = key
          OBVIOUS
        <4>1. Len(key) = 4 /\ start = 2 + e + 4
          BY <1>3 DEF start
        <4>2. \A i \in 1 .. 4 : s[2 + e + i] = key[i]
          BY <4>1, <2>6, <1>6, <1>11, <1>13
        <4>3. 2 + e \in Nat /\ 4 \in Nat /\ 2 + e + 4 <= Len(s)
          BY <4>1, <2>6, <1>13
        <4> QED BY <4>1, <4>2, <4>3, <1>3, Part
      <3>3. (IF IsMasked(second) THEN Masked(body, key) ELSE body) = payload
        BY <1>2, Unmasked DEF body, Body
      <3>4. IF IsMasked(second)
            THEN Masked(SubSeq(s, start + 1, start + n), SubSeq(s, 2 + e + 1, 2 + e + 4)) = payload
            ELSE SubSeq(s, start + 1, start + n) = payload
        <4>1. CASE key # <<>>
          <5>1. IsMasked(second)
            BY <4>1, <1>2
          <5> QED BY <5>1, <4>1, <3>1, <3>2, <3>3, Zenon
        <4>2. CASE key = <<>>
          <5>1. ~ IsMasked(second)
            BY <4>2, <1>2
          <5> QED BY <5>1, <3>1, <3>3, Zenon
        <4> QED BY <4>1, <4>2
      <3>5. ReadWSFrame(s) = [opcode |-> op, payload |-> payload, size |-> start + n]
        BY <2>1, <2>2, <2>3, <2>4, <2>6, <3>4, Zenon DEF ReadWSFrame, e
      <3> QED BY <3>5, <2>6, <1>4 DEF f, n
    <2> QED BY <2>5, <2>6
  <1> QED BY <1>7, <1>8, <1>1, <1>2

\* A frame of up to 1 MiB, with its bytes at the front of the stream, is read
\* back as it was written, masked or not, and no byte of what follows is taken:
\* the next frame is found (writeWSFrame, readWSFrame; browsers mask).
THEOREM FrameIsRead ==
  ASSUME NEW op \in 0 .. 15, NEW key \in Key \cup {<<>>}, NEW payload \in Seq(Byte),
         Len(payload) <= MaxRead,
         NEW rest \in Seq(Byte)
  PROVE  ReadWSFrame(Frame(op, key, payload) \o rest) =
           [opcode |-> op, payload |-> payload, size |-> Len(Frame(op, key, payload))]
  <1> DEFINE f == Frame(op, key, payload)
             s == f \o rest
  <1>1. Len(payload) < Limit
    BY LenProperties DEF MaxRead, Limit
  <1>2. f \in Seq(Byte) /\ Len(f) \in Nat
    BY <1>1, FrameShape, LenProperties
  <1> HIDE DEF f
  <1>3. /\ s \in Seq(Byte) /\ Len(s) = Len(f) + Len(rest) /\ Len(rest) \in Nat
        /\ \A i \in 1 .. Len(f) + Len(rest) : s[i] = IF i <= Len(f) THEN f[i] ELSE rest[i - Len(f)]
    BY <1>2, ConcatProperties, LenProperties
  <1> HIDE DEF s
  <1>4. \A i \in 1 .. Len(s) : i <= Len(f) => s[i] = f[i]
    BY <1>3
  <1>5. ~ (Len(payload) > MaxRead \/ Len(s) < Len(f))
    BY <1>2, <1>3, LenProperties DEF MaxRead
  <1>6. ReadWSFrame(s) = IF Len(payload) > MaxRead \/ Len(s) < Len(f) THEN Failed
                         ELSE [opcode |-> op, payload |-> payload, size |-> Len(f)]
    BY <1>1, <1>3, <1>4, ReadAlong, Zenon DEF f
  <1> QED BY <1>5, <1>6 DEF f, s

\* What the server itself writes is read back: text frames of any length up to
\* the limit of a reader (writeWSFrame).
THEOREM WrittenIsRead ==
  ASSUME NEW payload \in Seq(Byte), Len(payload) <= MaxRead, NEW rest \in Seq(Byte)
  PROVE  /\ ReadWSFrame(WriteWSFrame(payload) \o rest).opcode = Text
         /\ ReadWSFrame(WriteWSFrame(payload) \o rest).payload = payload
         /\ ReadWSFrame(WriteWSFrame(payload) \o rest).size = Len(WriteWSFrame(payload))
  <1>1. Text \in 0 .. 15
    BY DEF Text
  <1>2. ReadWSFrame(Frame(Text, <<>>, payload) \o rest) =
          [opcode |-> Text, payload |-> payload, size |-> Len(Frame(Text, <<>>, payload))]
    BY <1>1, FrameIsRead, Zenon
  <1> QED BY <1>2 DEF WriteWSFrame

\* A stream that ends within a frame, wherever it does, gives no frame: not a
\* shorter message, and not an empty one (io.ReadFull's errors in readWSFrame).
THEOREM CutFrameIsRefused ==
  ASSUME NEW op \in 0 .. 15, NEW key \in Key \cup {<<>>}, NEW payload \in Seq(Byte),
         Len(payload) < Limit,
         NEW m \in Nat, m < Len(Frame(op, key, payload))
  PROVE  ReadWSFrame(SubSeq(Frame(op, key, payload), 1, m)) = Failed
  <1> DEFINE f == Frame(op, key, payload)
             s == SubSeq(f, 1, m)
  <1>1. f \in Seq(Byte) /\ Len(f) \in Nat
    BY FrameShape, LenProperties
  <1>2. m < Len(f)
    OBVIOUS
  <1> HIDE DEF f
  <1>3. \A i \in 1 .. m : f[i] \in Byte
    BY <1>1, <1>2, ElementOfSeq
  <1>4. /\ s \in Seq(Byte) /\ Len(s) = IF 1 <= m THEN m - 1 + 1 ELSE 0
        /\ \A i \in 1 .. m - 1 + 1 : s[i] = f[1 + i - 1]
    BY <1>3, SubSeqProperties
  <1> HIDE DEF s
  <1>5. Len(s) = m
    BY <1>4
  <1>6. \A i \in 1 .. Len(s) : i <= Len(f) => s[i] = f[i]
    BY <1>4, <1>5
  <1>7. ReadWSFrame(s) = IF Len(payload) > MaxRead \/ Len(s) < Len(f) THEN Failed
                         ELSE [opcode |-> op, payload |-> payload, size |-> Len(f)]
    BY <1>4, <1>6, ReadAlong, Zenon DEF f
  <1> QED BY <1>2, <1>5, <1>7 DEF f, s

\* A frame of more than 1 MiB is refused, whether all of it has arrived or not
\* (the length is checked before anything is read for it: readWSFrame's
\* "frame too large").
THEOREM LongFrameIsRefused ==
  ASSUME NEW op \in 0 .. 15, NEW key \in Key \cup {<<>>}, NEW payload \in Seq(Byte),
         Len(payload) > MaxRead, Len(payload) < Limit,
         NEW rest \in Seq(Byte)
  PROVE  ReadWSFrame(Frame(op, key, payload) \o rest) = Failed
  <1> DEFINE f == Frame(op, key, payload)
             s == f \o rest
  <1>1. f \in Seq(Byte) /\ Len(f) \in Nat
    BY FrameShape, LenProperties
  <1> HIDE DEF f
  <1>2. /\ s \in Seq(Byte) /\ Len(s) = Len(f) + Len(rest) /\ Len(rest) \in Nat
        /\ \A i \in 1 .. Len(f) + Len(rest) : s[i] = IF i <= Len(f) THEN f[i] ELSE rest[i - Len(f)]
    BY <1>1, ConcatProperties, LenProperties
  <1> HIDE DEF s
  <1>3. \A i \in 1 .. Len(s) : i <= Len(f) => s[i] = f[i]
    BY <1>2
  <1>4. ReadWSFrame(s) = IF Len(payload) > MaxRead \/ Len(s) < Len(f) THEN Failed
                         ELSE [opcode |-> op, payload |-> payload, size |-> Len(f)]
    BY <1>2, <1>3, ReadAlong, Zenon DEF f
  <1> QED BY <1>4 DEF f, s
=============================================================================
