----------------------------- MODULE WireProofs -----------------------------
(***************************************************************************)
(* What TLAPS proves of the codec and of its composition with the stream,  *)
(* for every limit, every payload and every reason.                        *)
(***************************************************************************)
EXTENDS Wire, StreamProofs, SequenceTheorems, WellFoundedInduction

-----------------------------------------------------------------------------
(* Induction, over sets of numbers.                                        *)

LEMMA LeastNumber ==
  ASSUME NEW T, T \subseteq Nat, T # {}
  PROVE  \E n \in T : \A m \in T : n <= m
<1>1. PICK n \in T : \A m \in T : ~(<<m, n>> \in OpToRel(<, Nat))
  BY WFMin, NatLessThanWellFounded
<1>2. ASSUME NEW m \in T, m < n PROVE FALSE
  <2>1. m \in Nat /\ n \in Nat OBVIOUS
  <2>2. <<m, n>> \in OpToRel(<, Nat) BY <1>2, <2>1 DEF OpToRel
  <2> QED BY <1>1, <2>2
<1> QED BY <1>2

LEMMA Counting ==
  ASSUME NEW T, 0 \in T, \A n \in Nat : n \in T => n + 1 \in T
  PROVE  \A n \in Nat : n \in T
<1> SUFFICES ASSUME NEW k \in Nat, k \notin T PROVE FALSE
  OBVIOUS
<1> DEFINE R == {n \in Nat : n \notin T}
<1>1. PICK n \in R : \A m \in R : n <= m BY LeastNumber
<1>2. n - 1 \in Nat /\ n - 1 \notin R BY <1>1
<1> QED BY <1>1, <1>2

\* The largest number with a bound.
LEMMA LargestNumber ==
  ASSUME NEW T, T \subseteq Nat, T # {}, NEW b \in Nat, \A n \in T : n <= b
  PROVE  \E n \in T : \A m \in T : m <= n
<1> DEFINE R == {b - n : n \in T}
<1>1. R \subseteq Nat BY SMT
<1>a. R # {} BY Zenon
<1>2. PICK x \in R : \A y \in R : x <= y BY <1>1, <1>a, LeastNumber
<1>3. PICK n \in T : x = b - n OBVIOUS
<1>4. ASSUME NEW m \in T PROVE m <= n
  <2>1. b - m \in R OBVIOUS
  <2>2. x <= b - m BY <1>2, <2>1
  <2> QED BY <1>3, <2>2
<1> QED BY <1>4

-----------------------------------------------------------------------------
(* Big-endian numbers.                                                     *)

LEMMA Division256 ==
  ASSUME NEW n \in Nat
  PROVE  \E q \in Nat, r \in Byte : n = 256 * q + r
<1>1. PICK q \in Int : q = n \div 256 BY SMT
<1>2. PICK r \in 0..255 : r = n % 256 BY SMT
<1>3. n = 256 * q + r BY <1>1, <1>2, SMT
<1>4. q >= 0 BY <1>2, <1>3, SMT
<1> QED BY <1>2, <1>3, <1>4, SMT DEF Byte

LEMMA ByteBounds == \A n : n \in Byte <=> n \in Int /\ n >= 0 /\ n < 256
  BY SMT DEF Byte

LEMMA Divided ==
  /\ \A n, q, r \in Int : r >= 0 /\ r < 256 /\ n = 256 * q + r => n \div 256 = q /\ n % 256 = r
  /\ \A n, q, r \in Int : r >= 0 /\ r < 65536 /\ n = 65536 * q + r => n \div 65536 = q
  /\ \A n, q, r \in Int : r >= 0 /\ r < 16777216 /\ n = 16777216 * q + r => n \div 16777216 = q
  BY SMT

LEMMA Numbers16 ==
  ASSUME NEW a \in Byte, NEW b \in Byte, NEW n \in Int, n = 256 * a + b
  PROVE  PutUint16(n) = <<a, b>>
<1>0. a \in Int /\ b \in Int /\ a >= 0 /\ a < 256 /\ b >= 0 /\ b < 256 BY ByteBounds, SMT
<1>1. n \div 256 = a /\ n % 256 = b BY <1>0, Divided, SMT
<1>2. a % 256 = a BY <1>0, SMT
<1> QED BY <1>1, <1>2, Zenon DEF PutUint16

LEMMA Numbers32 ==
  ASSUME NEW a \in Byte, NEW b \in Byte, NEW c \in Byte, NEW d \in Byte,
         NEW n \in Int, n = 256 * (256 * (256 * a + b) + c) + d
  PROVE  PutUint32(n) = <<a, b, c, d>>
<1>0. a \in Int /\ b \in Int /\ c \in Int /\ d \in Int /\ a >= 0 /\ a < 256 /\ b >= 0 /\ b < 256
      /\ c >= 0 /\ c < 256 /\ d >= 0 /\ d < 256
  BY ByteBounds, SMT
<1>1. PICK h \in Int : h = 256 * a + b BY <1>0, SMT
<1>2. PICK k \in Int : k = 256 * h + c BY <1>0, SMT
<1>3. n = 256 * k + d BY <1>1, <1>2, SMT
<1>4. n \div 256 = k /\ n % 256 = d BY <1>0, <1>3, Divided, SMT
<1>5. k % 256 = c BY <1>0, <1>2, Divided, SMT
<1>6. n \div 65536 = h
  <2>1. PICK r \in Int : r = 256 * c + d BY <1>0, SMT
  <2>2. r >= 0 /\ r < 65536 /\ n = 65536 * h + r BY <1>0, <1>2, <1>3, <2>1, SMT
  <2> QED BY <2>2, Divided, SMT
<1>7. h % 256 = b BY <1>0, <1>1, Divided, SMT
<1>8. n \div 16777216 = a
  <2>1. PICK r \in Int : r = 65536 * b + 256 * c + d BY <1>0, SMT
  <2>2. r >= 0 /\ r < 16777216 /\ n = 16777216 * a + r BY <1>0, <1>1, <1>2, <1>3, <2>1, SMT
  <2> QED BY <1>0, <2>2, Divided, SMT
<1>9. a % 256 = a BY <1>0, SMT
<1> QED BY <1>4, <1>5, <1>6, <1>7, <1>8, <1>9, SMT DEF PutUint32

LEMMA Number32 ==
  ASSUME NEW a \in Byte, NEW b \in Byte, NEW c \in Byte, NEW d \in Byte
  PROVE  Uint32(<<a, b, c, d>>) \in Nat /\ PutUint32(Uint32(<<a, b, c, d>>)) = <<a, b, c, d>>
<1>0. a \in Int /\ b \in Int /\ c \in Int /\ d \in Int /\ a >= 0 /\ b >= 0 /\ c >= 0 /\ d >= 0
  BY ByteBounds, SMT
<1>1. PICK n \in Int : n = 256 * (256 * (256 * a + b) + c) + d BY <1>0, SMT
<1>2. Uint32(<<a, b, c, d>>) = n BY <1>0, <1>1, SMT DEF Uint32
<1>3. n >= 0 BY <1>0, <1>1, SMT
<1>4. PutUint32(n) = <<a, b, c, d>> BY <1>1, Numbers32, SMT
<1> QED BY <1>2, <1>3, <1>4, SMT

LEMMA Digits32 ==
  ASSUME NEW n, IsLength(n)
  PROVE  \E a, b, c, d \in Byte : n = Uint32(<<a, b, c, d>>)
<1>0. n \in Nat /\ n <= 2147483647 BY SMT DEF IsLength
<1>1. PICK k \in Nat, d \in Byte : n = 256 * k + d BY <1>0, Division256, SMT
<1>2. PICK h \in Nat, c \in Byte : k = 256 * h + c BY Division256, SMT
<1>3. PICK a \in Nat, b \in Byte : h = 256 * a + b BY Division256, SMT
<1>4. b \in Int /\ b >= 0 /\ b < 256 /\ c \in Int /\ c >= 0 /\ c < 256 /\ d \in Int /\ d >= 0 /\ d < 256
  BY ByteBounds, SMT
<1>5. a < 256 BY <1>0, <1>1, <1>2, <1>3, <1>4, SMT
<1>6. a \in Byte BY <1>5, ByteBounds, SMT
<1>7. n = Uint32(<<a, b, c, d>>) BY <1>1, <1>2, <1>3, <1>4, SMT DEF Uint32
<1> QED BY <1>6, <1>7, Zenon

-----------------------------------------------------------------------------
(* Frames.                                                                 *)

\* j is s followed by t.
Joint(j, s, t) ==
  /\ Len(j) = Len(s) + Len(t)
  /\ \A i \in 1 .. Len(s) : j[i] = s[i]
  /\ \A i \in 1 .. Len(t) : j[Len(s) + i] = t[i]

LEMMA Joined ==
  ASSUME NEW S, NEW s \in Seq(S), NEW t \in Seq(S)
  PROVE  s \o t \in Seq(S) /\ Joint(s \o t, s, t)
<1>1. Len(s) \in Nat /\ Len(t) \in Nat OBVIOUS
<1>2. PICK m \in Nat : m = Len(s) BY <1>1
<1>3. PICK n \in Nat : n = Len(t) BY <1>1
<1>a. PICK j : j = s \o t OBVIOUS
<1>4. /\ j \in Seq(S) /\ Len(j) = m + n
      /\ \A i \in 1 .. m + n : j[i] = IF i <= m THEN s[i] ELSE t[i - m]
  BY <1>2, <1>3, <1>a, ConcatProperties, Zenon
<1>5. ASSUME NEW i \in 1 .. m PROVE j[i] = s[i] BY <1>4, SMT
<1>6. ASSUME NEW i \in 1 .. n PROVE j[m + i] = t[i]
  <2>1. PICK k \in 1 .. m + n : k = m + i /\ ~(k <= m) /\ k - m = i BY SMT
  <2>2. j[k] = t[k - m] BY <1>4, <2>1, Zenon
  <2> QED BY <2>1, <2>2, Zenon
<1> QED BY <1>2, <1>3, <1>4, <1>5, <1>6, <1>a, Zenon DEF Joint

LEMMA Taken ==
  ASSUME NEW S, NEW s \in Seq(S), NEW o \in Nat, NEW w \in Nat, o + w <= Len(s)
  PROVE  /\ SubSeq(s, o + 1, o + w) \in Seq(S) /\ Len(SubSeq(s, o + 1, o + w)) = w
         /\ \A j \in 1 .. w : SubSeq(s, o + 1, o + w)[j] = s[o + j]
<1>1. PICK i \in Int, e \in Int : i = o + 1 /\ e = o + w BY SMT
<1>2. \A j \in i .. e : s[j] \in S BY <1>1, SMT
<1>3. PICK t : t = SubSeq(s, i, e) OBVIOUS
<1>4. /\ t \in Seq(S) /\ Len(t) = IF i <= e THEN e - i + 1 ELSE 0
      /\ \A j \in 1 .. e - i + 1 : t[j] = s[i + j - 1]
  BY <1>2, <1>3, SubSeqProperties
<1>5. e - i + 1 = w /\ (i <= e \/ w = 0) BY <1>1, SMT
<1>6. ASSUME NEW j \in 1 .. w PROVE t[j] = s[o + j]
  <2>1. i + j - 1 = o + j BY <1>1, SMT
  <2> QED BY <1>4, <1>5, <2>1, Zenon
<1>7. Len(t) = w BY <1>4, <1>5, Zenon
<1> QED BY <1>1, <1>3, <1>4, <1>6, <1>7, Zenon

\* What Encode makes: the header and the payload.
LEMMA EncodeShape ==
  ASSUME NEW t \in Byte, NEW p \in Seq(Byte), Len(p) <= PayloadLimit
  PROVE  \E m \in Seq(Byte) :
           /\ Encode(t, p) = m /\ Len(m) = 8 + Len(p)
           /\ m[1] = 1 /\ m[2] = t /\ m[3] = 0 /\ m[4] = 0
           /\ Len(p) = Uint32(<<m[5], m[6], m[7], m[8]>>)
           /\ SubSeq(m, 9, 8 + Len(p)) = p
<1>1. Len(p) \in Nat /\ PayloadLimit \in Nat /\ IsLength(Len(p))
  BY CodecAssumption, SMT DEF IsLength
<1>2. PICK a, b, c, d \in Byte : Len(p) = Uint32(<<a, b, c, d>>) BY <1>1, Digits32, Zenon
<1>3. PutUint32(Len(p)) = <<a, b, c, d>>
  <2>1. PutUint32(Uint32(<<a, b, c, d>>)) = <<a, b, c, d>> BY Number32
  <2> QED BY <1>2, <2>1, Zenon
<1>4. 0 \in Byte /\ 1 \in Byte BY SMT DEF Byte
<1>5. PutUint16(0) = <<0, 0>> BY <1>4, Numbers16, SMT
<1>6. PICK u : u = <<1, t>> OBVIOUS
<1>7. PICK v : v = <<0, 0>> OBVIOUS
<1>8. PICK w : w = <<a, b, c, d>> OBVIOUS
<1>9. u \in Seq(Byte) /\ v \in Seq(Byte) /\ w \in Seq(Byte) BY <1>4, <1>6, <1>7, <1>8, SMT
<1>10. Len(u) = 2 /\ u[1] = 1 /\ u[2] = t /\ Len(v) = 2 /\ v[1] = 0 /\ v[2] = 0 BY <1>6, <1>7, SMT
<1>11. Len(w) = 4 /\ w[1] = a /\ w[2] = b /\ w[3] = c /\ w[4] = d BY <1>8, SMT
<1>12. PICK x : x = u \o v OBVIOUS
<1>13. x \in Seq(Byte) /\ Joint(x, u, v) BY <1>9, <1>12, Joined
<1>a. Len(x) = 4 /\ x[1] = 1 /\ x[2] = t /\ x[3] = 0 /\ x[4] = 0 BY <1>10, <1>13, SMT DEF Joint
<1>14. PICK h : h = x \o w OBVIOUS
<1>15. h \in Seq(Byte) /\ Joint(h, x, w) BY <1>9, <1>13, <1>14, Joined
<1>b. /\ Len(h) = 8 /\ h[1] = 1 /\ h[2] = t /\ h[3] = 0 /\ h[4] = 0
      /\ h[5] = a /\ h[6] = b /\ h[7] = c /\ h[8] = d
  BY <1>11, <1>15, <1>a, SMT DEF Joint
<1>16. PICK m : m = h \o p OBVIOUS
<1>17. m \in Seq(Byte) /\ Joint(m, h, p) BY <1>15, <1>16, Joined
<1>c. Len(m) = 8 + Len(p) /\ \A i \in 1 .. Len(p) : m[8 + i] = p[i] BY <1>17, <1>b, SMT DEF Joint
<1>18. /\ m[1] = 1 /\ m[2] = t /\ m[3] = 0 /\ m[4] = 0
       /\ m[5] = a /\ m[6] = b /\ m[7] = c /\ m[8] = d
  BY <1>17, <1>b, SMT DEF Joint
<1>19. Encode(t, p) = m
  <2>1. ~(Len(p) > PayloadLimit) BY <1>1, SMT
  <2> QED BY <1>3, <1>5, <1>6, <1>7, <1>8, <1>12, <1>14, <1>16, <2>1, Zenon DEF Encode, Version
<1>20. SubSeq(m, 9, 8 + Len(p)) = p
  <2>1. PICK q : q = SubSeq(m, 9, 8 + Len(p)) OBVIOUS
  <2>2. \A i \in 9 .. 8 + Len(p) : m[i] \in Byte BY <1>1, <1>17, <1>c, SMT
  <2>3. q \in Seq(Byte) /\ Len(q) = Len(p) /\ \A i \in 1 .. Len(p) : q[i] = m[8 + i]
    BY <1>1, <2>1, <2>2, SubSeqProperties, SMT
  <2>4. Len(q) = Len(p) /\ \A i \in 1 .. Len(q) : q[i] = p[i] BY <1>1, <1>c, <2>3, SMT
  <2>5. q = p BY <2>3, <2>4, SeqEqual, Zenon
  <2> QED BY <2>1, <2>5
<1> QED BY <1>2, <1>17, <1>18, <1>19, <1>20, <1>c, Zenon

LEMMA HeaderFields ==
  ASSUME NEW m \in Seq(Byte), Len(m) >= 8
  PROVE  /\ Header(m).version = m[1] /\ Header(m).type = m[2]
         /\ Header(m).flags = 256 * m[3] + m[4]
         /\ Header(m).length = Uint32(<<m[5], m[6], m[7], m[8]>>)
<1>1. PICK u : u = SubSeq(m, 3, 4) OBVIOUS
<1>2. PICK v : v = SubSeq(m, 5, 8) OBVIOUS
<1>3. u[1] = m[3] /\ u[2] = m[4] BY <1>1, SMT
<1>4. v[1] = m[5] /\ v[2] = m[6] /\ v[3] = m[7] /\ v[4] = m[8] BY <1>2, SMT
<1>5. Uint16(u) = 256 * m[3] + m[4] BY <1>3, Zenon DEF Uint16
<1>6. Uint32(v) = Uint32(<<m[5], m[6], m[7], m[8]>>) BY <1>4, SMT DEF Uint32
<1> QED BY <1>1, <1>2, <1>5, <1>6, Zenon DEF Header

\* What Parse does with a message of bytes, and with which limit.
LEMMA ParseResult ==
  ASSUME NEW m \in Seq(Byte), NEW x \in Int, NEW limit,
         limit = IF x < 0 \/ x > PayloadLimit THEN PayloadLimit ELSE x
  PROVE  Parse(m, x) =
           IF /\ Len(m) >= 8
              /\ m[1] = 1 /\ m[2] \in Types /\ 256 * m[3] + m[4] = 0
              /\ Uint32(<<m[5], m[6], m[7], m[8]>>) <= limit
              /\ Uint32(<<m[5], m[6], m[7], m[8]>>) = Len(m) - 8
              /\ PayloadOK(m[2], Uint32(<<m[5], m[6], m[7], m[8]>>))
           THEN [type |-> m[2], payload |-> SubSeq(m, 9, Len(m))]
           ELSE Refused
<1>1. CASE Len(m) >= 8
  <2>1. PICK hdr : hdr = Header(m) OBVIOUS
  <2>2. /\ hdr.version = m[1] /\ hdr.type = m[2] /\ hdr.flags = 256 * m[3] + m[4]
        /\ hdr.length = Uint32(<<m[5], m[6], m[7], m[8]>>)
    BY <1>1, <2>1, HeaderFields
  <2>3. Parse(m, x) = IF HeaderOK(hdr, Len(m), limit) /\ PayloadOK(hdr.type, hdr.length)
                      THEN [type |-> hdr.type, payload |-> SubSeq(m, HeaderSize + 1, HeaderSize + hdr.length)]
                      ELSE Refused
    BY <1>1, <2>1, Zenon DEF Parse, HeaderSize
  <2>4. HeaderOK(hdr, Len(m), limit) <=>
          /\ m[1] = 1 /\ m[2] \in Types /\ 256 * m[3] + m[4] = 0
          /\ Uint32(<<m[5], m[6], m[7], m[8]>>) <= limit
          /\ Uint32(<<m[5], m[6], m[7], m[8]>>) = Len(m) - 8
    BY <2>2, Zenon DEF HeaderOK, Version, HeaderSize
  <2>5. HeaderOK(hdr, Len(m), limit) =>
          HeaderSize + 1 = 9 /\ HeaderSize + hdr.length = Len(m)
    <3>1. Len(m) \in Nat OBVIOUS
    <3> QED BY <2>2, <2>4, <3>1, SMT DEF HeaderSize
  <2> QED BY <1>1, <2>2, <2>3, <2>4, <2>5, Zenon
<1>2. CASE ~(Len(m) >= 8) BY <1>2, Zenon DEF Parse, HeaderSize
<1> QED BY <1>1, <1>2

LEMMA TypesAreBytes == Types \subseteq Byte /\ TypeData \in Types
  BY SMT DEF Types, TypeData, TypePing, TypePong, TypeClose, Byte

\* A frame that may be sent is the one that is received, by an end with any limit
\* that admits it (Parse of what Encode or Append made).
THEOREM FramesRoundTrip ==
  ASSUME NEW t \in Types, NEW p \in Seq(Byte), Len(p) <= PayloadLimit, NEW x \in Int
  PROVE  Parse(Encode(t, p), x) = IF PayloadOK(t, Len(p)) /\ (x < 0 \/ Len(p) <= x)
                                  THEN [type |-> t, payload |-> p] ELSE Refused
<1>1. PICK m \in Seq(Byte) :
        /\ Encode(t, p) = m /\ Len(m) = 8 + Len(p)
        /\ m[1] = 1 /\ m[2] = t /\ m[3] = 0 /\ m[4] = 0
        /\ Len(p) = Uint32(<<m[5], m[6], m[7], m[8]>>)
        /\ SubSeq(m, 9, 8 + Len(p)) = p
  BY EncodeShape, TypesAreBytes, Zenon
<1>2. PICK limit : limit = IF x < 0 \/ x > PayloadLimit THEN PayloadLimit ELSE x OBVIOUS
<1>3. Len(p) \in Nat /\ PayloadLimit \in Nat BY CodecAssumption, SMT DEF IsLength
<1>4. Len(p) <= limit <=> (x < 0 \/ Len(p) <= x) BY <1>2, <1>3, SMT
<1>5. Len(m) >= 8 /\ Len(p) = Len(m) - 8 /\ 256 * 0 + 0 = 0 BY <1>1, <1>3, SMT
<1>6. Parse(m, x) = IF /\ Len(m) >= 8
                       /\ m[1] = 1 /\ m[2] \in Types /\ 256 * m[3] + m[4] = 0
                       /\ Uint32(<<m[5], m[6], m[7], m[8]>>) <= limit
                       /\ Uint32(<<m[5], m[6], m[7], m[8]>>) = Len(m) - 8
                       /\ PayloadOK(m[2], Uint32(<<m[5], m[6], m[7], m[8]>>))
                    THEN [type |-> m[2], payload |-> SubSeq(m, 9, Len(m))]
                    ELSE Refused
  BY <1>2, ParseResult, Zenon
<1>7. Parse(m, x) = IF Len(p) <= limit /\ PayloadOK(t, Len(p))
                    THEN [type |-> t, payload |-> p] ELSE Refused
  BY <1>1, <1>5, <1>6, Zenon
<1> QED BY <1>1, <1>4, <1>7, Zenon

\* There is one message for a frame: whatever bytes arrive, what Parse accepts is
\* what Encode makes of it.
THEOREM FramesCanonical ==
  ASSUME NEW m \in Seq(Byte), NEW x \in Int, Parse(m, x) # Refused
  PROVE  m = Encode(Parse(m, x).type, Parse(m, x).payload)
<1>1. PICK limit : limit = IF x < 0 \/ x > PayloadLimit THEN PayloadLimit ELSE x OBVIOUS
<1>2. Parse(m, x) = IF /\ Len(m) >= 8
                       /\ m[1] = 1 /\ m[2] \in Types /\ 256 * m[3] + m[4] = 0
                       /\ Uint32(<<m[5], m[6], m[7], m[8]>>) <= limit
                       /\ Uint32(<<m[5], m[6], m[7], m[8]>>) = Len(m) - 8
                       /\ PayloadOK(m[2], Uint32(<<m[5], m[6], m[7], m[8]>>))
                    THEN [type |-> m[2], payload |-> SubSeq(m, 9, Len(m))]
                    ELSE Refused
  BY <1>1, ParseResult, Zenon
<1>3. /\ Len(m) >= 8 /\ m[1] = 1 /\ m[2] \in Types /\ 256 * m[3] + m[4] = 0
      /\ Uint32(<<m[5], m[6], m[7], m[8]>>) <= limit
      /\ Uint32(<<m[5], m[6], m[7], m[8]>>) = Len(m) - 8
  BY <1>2, Zenon
<1>4. PICK p : p = SubSeq(m, 9, Len(m)) OBVIOUS
<1>5. Parse(m, x) = [type |-> m[2], payload |-> p] BY <1>2, <1>4, Zenon
<1>6. Len(m) \in Nat /\ PayloadLimit \in Nat BY CodecAssumption, SMT DEF IsLength
<1>7. \A i \in 1 .. Len(m) : m[i] \in Byte OBVIOUS
<1>8. /\ m[3] \in Byte /\ m[4] \in Byte
      /\ m[5] \in Byte /\ m[6] \in Byte /\ m[7] \in Byte /\ m[8] \in Byte
  BY <1>3, <1>6, <1>7, SMT
<1>9. m[3] = 0 /\ m[4] = 0
  <2>1. PICK a \in Byte, b \in Byte : a = m[3] /\ b = m[4] BY <1>8, Zenon
  <2>2. 256 * a + b = 0 BY <1>3, <2>1, Zenon
  <2>3. a \in Int /\ b \in Int /\ a >= 0 /\ b >= 0 BY ByteBounds, SMT
  <2>4. a = 0 /\ b = 0 BY <2>2, <2>3, SMT
  <2> QED BY <2>1, <2>4, Zenon
<1>10. /\ p \in Seq(Byte) /\ Len(p) = Len(m) - 8
       /\ \A i \in 1 .. Len(p) : p[i] = m[8 + i]
  <2>1. \A i \in 9 .. Len(m) : m[i] \in Byte BY <1>6, <1>7, SMT
  <2>2. /\ p \in Seq(Byte) /\ Len(p) = IF 9 <= Len(m) THEN Len(m) - 9 + 1 ELSE 0
        /\ \A i \in 1 .. Len(m) - 9 + 1 : p[i] = m[9 + i - 1]
    BY <1>4, <1>6, <2>1, SubSeqProperties, SMT
  <2>3. PICK k \in Nat : k = Len(m) /\ k >= 8 BY <1>3, <1>6, Zenon
  <2>4. Len(p) = k - 8 BY <2>2, <2>3, SMT
  <2>5. ASSUME NEW i \in 1 .. k - 8 PROVE p[i] = m[8 + i]
    <3>1. i \in 1 .. k - 9 + 1 /\ 9 + i - 1 = 8 + i BY SMT
    <3> QED BY <2>2, <2>3, <3>1, Zenon
  <2> QED BY <2>2, <2>3, <2>4, <2>5, Zenon
<1>11. Len(p) <= PayloadLimit
  <2>1. limit <= PayloadLimit /\ limit \in Int BY <1>1, <1>6, SMT
  <2>2. Len(p) <= limit BY <1>3, <1>10, Zenon
  <2> QED BY <1>6, <1>10, <2>1, <2>2, SMT
<1>12. PICK n \in Seq(Byte) :
         /\ Encode(m[2], p) = n /\ Len(n) = 8 + Len(p)
         /\ n[1] = 1 /\ n[2] = m[2] /\ n[3] = 0 /\ n[4] = 0
         /\ Len(p) = Uint32(<<n[5], n[6], n[7], n[8]>>)
         /\ SubSeq(n, 9, 8 + Len(p)) = p
  <2>1. m[2] \in Byte BY <1>3, TypesAreBytes
  <2> QED BY <1>10, <1>11, <2>1, EncodeShape, Zenon
<1>13. Len(n) = Len(m) /\ Len(p) \in Nat BY <1>3, <1>6, <1>10, <1>12, SMT
<1>14. n[5] = m[5] /\ n[6] = m[6] /\ n[7] = m[7] /\ n[8] = m[8]
  <2>1. n[5] \in Byte /\ n[6] \in Byte /\ n[7] \in Byte /\ n[8] \in Byte
    BY <1>3, <1>6, <1>13, SMT
  <2>2. <<n[5], n[6], n[7], n[8]>> = PutUint32(Uint32(<<n[5], n[6], n[7], n[8]>>))
    BY <2>1, Number32, Zenon
  <2>3. <<m[5], m[6], m[7], m[8]>> = PutUint32(Uint32(<<m[5], m[6], m[7], m[8]>>))
    BY <1>8, Number32, Zenon
  <2>4. Uint32(<<n[5], n[6], n[7], n[8]>>) = Uint32(<<m[5], m[6], m[7], m[8]>>)
    BY <1>3, <1>10, <1>12, Zenon
  <2>5. <<n[5], n[6], n[7], n[8]>> = <<m[5], m[6], m[7], m[8]>> BY <2>2, <2>3, <2>4, Zenon
  <2> QED BY <2>5, Zenon
<1>15. \A i \in 1 .. Len(p) : n[8 + i] = p[i]
  <2>1. PICK q : q = SubSeq(n, 9, 8 + Len(p)) OBVIOUS
  <2>2. \A i \in 9 .. 8 + Len(p) : n[i] \in Byte BY <1>12, <1>13, SMT
  <2>3. \A i \in 1 .. Len(p) : q[i] = n[8 + i] BY <1>13, <2>1, <2>2, SubSeqProperties, SMT
  <2>4. q = p BY <1>12, <2>1
  <2> QED BY <2>3, <2>4, Zenon
<1>16. ASSUME NEW i \in 1 .. Len(n) PROVE n[i] = m[i]
  <2>1. CASE i <= 8
    <3>1. i \in {1, 2, 3, 4, 5, 6, 7, 8} BY <1>13, <2>1, SMT
    <3> QED BY <1>3, <1>9, <1>12, <1>14, <3>1, Zenon
  <2>2. CASE i > 8
    <3>1. PICK k \in 1 .. Len(p) : i = 8 + k BY <1>12, <1>13, <2>2, SMT
    <3> QED BY <1>10, <1>15, <3>1, Zenon
  <2> QED BY <1>6, <1>13, <2>1, <2>2, SMT
<1>17. n = m BY <1>13, <1>16, SeqEqual, Zenon
<1>18. Parse(m, x).type = m[2] /\ Parse(m, x).payload = p BY <1>5, SMT
<1> QED BY <1>12, <1>17, <1>18, Zenon

LEMMA DamagedIsBytes ==
  ASSUME NEW m \in Seq(Byte), NEW d \in Damaged(m)
  PROVE  d \in Seq(Byte)
<1>0. Len(m) \in Nat /\ 0 \in Byte /\ \A b \in 0 .. 5 : b \in Byte BY SMT DEF Byte
<1>1. \/ \E i \in 1 .. Len(m), b \in 0 .. 5 : d = [m EXCEPT ![i] = b]
      \/ d = Append(m, 0)
      \/ \E n \in 0 .. Len(m) - 1 : d = SubSeq(m, 1, n)
  BY SMT DEF Damaged
<1>2. ASSUME NEW i \in 1 .. Len(m), NEW b \in 0 .. 5, d = [m EXCEPT ![i] = b] PROVE d \in Seq(Byte)
  <2>1. b \in Byte BY <1>0
  <2> QED BY <1>2, <2>1, ExceptSeq
<1>3. ASSUME NEW n \in 0 .. Len(m) - 1, d = SubSeq(m, 1, n) PROVE d \in Seq(Byte)
  <2>1. n \in Int /\ \A i \in 1 .. n : m[i] \in Byte BY <1>0, SMT
  <2> QED BY <1>3, <2>1, SubSeqProperties
<1>4. CASE d = Append(m, 0) BY <1>0, <1>4, AppendProperties
<1> QED BY <1>1, <1>2, <1>3, <1>4

\* FramesExact of the runs, for all payloads and limits.
LEMMA FramesAreExact == FramesExact
<1> SUFFICES ASSUME NEW t \in Types, NEW p \in TestPayloads, Encode(t, p) # Refused
             PROVE  /\ \A limit \in {-1, Len(p) - 1, Len(p), PayloadLimit + 1} :
                         Parse(Encode(t, p), limit)
                           = IF PayloadOK(t, Len(p)) /\ (limit < 0 \/ Len(p) <= limit)
                             THEN [type |-> t, payload |-> p] ELSE Refused
                    /\ \A m \in Damaged(Encode(t, p)) :
                         Parse(m, PayloadLimit) # Refused =>
                           m = Encode(Parse(m, PayloadLimit).type, Parse(m, PayloadLimit).payload)
  BY Zenon DEF FramesExact
<1>1. p \in Seq(Byte) BY CodecAssumption
<1>2. Len(p) \in Nat /\ PayloadLimit \in Nat BY <1>1, CodecAssumption, SMT DEF IsLength
<1>3. ~(Len(p) > PayloadLimit) BY Zenon DEF Encode
<1>4. Len(p) <= PayloadLimit BY <1>2, <1>3
<1>5. \A limit \in {-1, Len(p) - 1, Len(p), PayloadLimit + 1} : limit \in Int BY <1>2
<1>6. Encode(t, p) \in Seq(Byte)
  <2>1. t \in Byte BY TypesAreBytes
  <2> QED BY <1>1, <1>4, <2>1, EncodeShape, Zenon
<1>7. PayloadLimit \in Int BY <1>2
<1> QED BY <1>1, <1>4, <1>5, <1>6, <1>7, DamagedIsBytes, FramesRoundTrip, FramesCanonical, Zenon

-----------------------------------------------------------------------------
(* Sequences of sequences.  FlattenSeq is defined by recursion on an index *)
(* of the argument: a function with that equation exists for every length, *)
(* and two of them agree where their arguments do.                         *)

\* g[i] is the concatenation of the first i of n members of r.
Flattens(g, r, n) == g = [i \in 1 .. n |-> IF i = 1 THEN r[i] ELSE g[i - 1] \o r[i]]

LEMMA FlattenExists ==
  ASSUME NEW r
  PROVE  \A n \in Nat : \E g : Flattens(g, r, n)
<1> DEFINE T == {n \in Nat : \E g : Flattens(g, r, n)}
<1> USE DEF Flattens
<1>1. 0 \in T
  <2> DEFINE g == [i \in 1 .. 0 |-> <<>>]
  <2>1. \A i : i \notin 1 .. 0 BY SMT
  <2>2. g = [i \in 1 .. 0 |-> IF i = 1 THEN r[i] ELSE g[i - 1] \o r[i]] BY <2>1, Zenon
  <2> QED BY <2>2
<1>2. ASSUME NEW n \in Nat, n \in T PROVE n + 1 \in T
  <2>1. PICK g : g = [i \in 1 .. n |-> IF i = 1 THEN r[i] ELSE g[i - 1] \o r[i]] BY <1>2
  <2> DEFINE h == [i \in 1 .. n + 1 |->
                     IF i <= n THEN g[i] ELSE IF i = 1 THEN r[i] ELSE g[i - 1] \o r[i]]
  <2>2. ASSUME NEW i \in 1 .. n + 1
        PROVE  h[i] = IF i = 1 THEN r[i] ELSE h[i - 1] \o r[i]
    <3>1. i # 1 => i - 1 \in 1 .. n + 1 /\ i - 1 <= n BY SMT
    <3>2. i # 1 => h[i - 1] = g[i - 1] BY <3>1, Zenon
    <3>3. CASE i <= n
      <4>1. i \in 1 .. n BY <3>3, SMT
      <4>2. g[i] = IF i = 1 THEN r[i] ELSE g[i - 1] \o r[i] BY <2>1, <4>1, Zenon
      <4> QED BY <3>2, <3>3, <4>2, Zenon
    <3>4. CASE ~(i <= n) BY <3>2, <3>4, Zenon
    <3> QED BY <3>3, <3>4
  <2>3. h = [i \in 1 .. n + 1 |-> IF i = 1 THEN r[i] ELSE h[i - 1] \o r[i]] BY <2>2, Zenon
  <2>4. n + 1 \in Nat OBVIOUS
  <2> QED BY <2>3, <2>4, Zenon
<1> HIDE DEF T
<1>3. \A n \in Nat : n \in T BY <1>1, <1>2, Counting
<1> QED BY <1>3 DEF T

LEMMA FlattenSpec ==
  ASSUME NEW r, Len(r) \in Nat, Len(r) # 0
  PROVE  \E g : Flattens(g, r, Len(r)) /\ FlattenSeq(r) = g[Len(r)]
<1>1. \E g : Flattens(g, r, Len(r)) BY FlattenExists, Zenon
<1>2. PICK f : f = CHOOSE g : Flattens(g, r, Len(r)) OBVIOUS
<1>3. Flattens(f, r, Len(r)) BY <1>1, <1>2, Zenon
<1>4. FlattenSeq(r) = f[Len(r)] BY <1>2, Zenon DEF FlattenSeq, Flattens
<1> QED BY <1>3, <1>4, Zenon

LEMMA FlattenAgrees ==
  ASSUME NEW S, NEW q \in Seq(S), NEW n \in 1 .. Len(q),
         NEW g, Flattens(g, SubSeq(q, 1, n), n), NEW h, Flattens(h, q, Len(q))
  PROVE  \A i \in 1 .. n : g[i] = h[i]
<1> DEFINE T == {k \in Nat : k \in 1 .. n => g[k] = h[k]}
<1>0. PICK r : r = SubSeq(q, 1, n) OBVIOUS
<1>a. PICK m \in Nat : m = Len(q) /\ n \in Nat /\ n <= m BY SMT
<1>b. \A i \in 1 .. n : r[i] = q[i] BY <1>0, <1>a, SMT
<1>c. Flattens(g, r, n) /\ Flattens(h, q, m) BY <1>0, <1>a, Zenon
<1>1. 0 \in T BY SMT
<1>2. ASSUME NEW k \in Nat, k \in T PROVE k + 1 \in T
  <2>1. k + 1 \in Nat BY SMT
  <2>2. ASSUME k + 1 \in 1 .. n PROVE g[k + 1] = h[k + 1]
    <3>1. PICK j \in 1 .. n : j = k + 1 /\ j \in 1 .. m /\ j - 1 = k /\ (j # 1 => k \in 1 .. n)
      BY <1>a, <2>2, SMT
    <3>2. g[j] = IF j = 1 THEN r[j] ELSE g[k] \o r[j] BY <1>c, <3>1, Zenon DEF Flattens
    <3>3. h[j] = IF j = 1 THEN q[j] ELSE h[k] \o q[j] BY <1>c, <3>1, Zenon DEF Flattens
    <3>4. j # 1 => g[k] = h[k] BY <1>2, <3>1, Zenon
    <3>5. r[j] = q[j] BY <1>b, <3>1, Zenon
    <3>6. g[j] = h[j] BY <3>2, <3>3, <3>4, <3>5, Zenon
    <3> QED BY <3>1, <3>6, Zenon
  <2> QED BY <2>1, <2>2, Zenon
<1> HIDE DEF T
<1>3. \A k \in Nat : k \in T BY <1>1, <1>2, Counting
<1>4. \A k \in 1 .. n : k \in Nat BY <1>a, SMT
<1> QED BY <1>3, <1>4, Zenon DEF T

\* The bytes of the first k characters of r.
Prefix(r, k) == FlattenSeq(SubSeq(r, 1, k))

LEMMA PrefixEmpty == \A r : Prefix(r, 0) = <<>>
<1> SUFFICES ASSUME NEW r PROVE Prefix(r, 0) = <<>>
  OBVIOUS
<1>1. SubSeq(r, 1, 0) = <<>> BY SubSeqEmpty, SMT
<1>2. Len(<<>>) = 0 OBVIOUS
<1>3. FlattenSeq(<<>>) = <<>> BY <1>2, Zenon DEF FlattenSeq
<1> QED BY <1>1, <1>3, Zenon DEF Prefix

LEMMA PrefixStep ==
  ASSUME NEW S, NEW r \in Seq(S), NEW k \in 1 .. Len(r)
  PROVE  Prefix(r, k) = IF k = 1 THEN r[k] ELSE Prefix(r, k - 1) \o r[k]
<1>0. Len(r) \in Nat /\ Len(r) # 0 BY SMT
<1>1. PICK g : Flattens(g, r, Len(r)) BY <1>0, FlattenExists
<1>2. ASSUME NEW j \in 1 .. Len(r) PROVE Prefix(r, j) = g[j]
  <2>1. PICK s : s = SubSeq(r, 1, j) OBVIOUS
  <2>2. j \in Nat /\ j # 0 /\ j <= Len(r) /\ j \in 1 .. j BY <1>0, SMT
  <2>3. Len(s) = j /\ \A i \in 1 .. j : s[i] = r[i] BY <1>0, <2>1, <2>2, SMT
  <2>4. PICK h : Flattens(h, s, j) /\ FlattenSeq(s) = h[j]
    BY <2>2, <2>3, FlattenSpec, Zenon
  <2>5. \A i \in 1 .. j : h[i] = g[i]
    <3>1. Flattens(h, SubSeq(r, 1, j), j) BY <2>1, <2>4, Zenon
    <3> QED BY <1>1, <3>1, FlattenAgrees, SMT
  <2> QED BY <2>1, <2>2, <2>4, <2>5, Zenon DEF Prefix
<1>3. g[k] = IF k = 1 THEN r[k] ELSE g[k - 1] \o r[k] BY <1>1, Zenon DEF Flattens
<1>4. k # 1 => k - 1 \in 1 .. Len(r) BY <1>0, SMT
<1> QED BY <1>2, <1>3, <1>4, Zenon

-----------------------------------------------------------------------------
(* Strings of characters.  b is the bytes of r, and Offset where its       *)
(* characters end.                                                         *)

Offset(r, k) == Len(Prefix(r, k))

LEMMA RuneLength ==
  ASSUME NEW b \in Rune
  PROVE  b \in Seq(Byte) /\ Len(b) \in 1 .. 4 /\ IsRune(b)
<1>1. b \in Seq(Byte) /\ IsRune(b) BY Zenon DEF Rune
<1>2. Len(b) = 1 \/ Len(b) = 2 \/ Len(b) = 3 \/ Len(b) = 4 BY <1>1, Zenon DEF IsRune
<1> QED BY <1>1, <1>2, SMT

\* The first byte of a character gives its length.
Width(u) == IF u <= 127 THEN 1 ELSE IF u <= 223 THEN 2 ELSE IF u <= 239 THEN 3 ELSE 4

LEMMA RuneWidth ==
  ASSUME NEW z, IsRune(z)
  PROVE  Len(z) = Width(z[1])
<1>1. PICK u : u = z[1] OBVIOUS
<1>2. \/ Len(z) = 1 /\ u \in 0 .. 127
      \/ Len(z) = 2 /\ u \in 194 .. 223
      \/ Len(z) = 3 /\ u \in 224 .. 239
      \/ Len(z) = 4 /\ u \in 240 .. 244
  BY <1>1, Zenon DEF IsRune
<1>3. Len(z) = Width(u)
  <2>1. CASE Len(z) = 1 /\ u \in 0 .. 127 BY <2>1, SMT DEF Width
  <2>2. CASE Len(z) = 2 /\ u \in 194 .. 223 BY <2>2, SMT DEF Width
  <2>3. CASE Len(z) = 3 /\ u \in 224 .. 239 BY <2>3, SMT DEF Width
  <2>4. CASE Len(z) = 4 /\ u \in 240 .. 244 BY <2>4, SMT DEF Width
  <2> QED BY <1>2, <2>1, <2>2, <2>3, <2>4
<1> QED BY <1>1, <1>3

LEMMA PrefixBytes ==
  ASSUME NEW r \in Seq(Rune)
  PROVE  \A k \in 0 .. Len(r) : Prefix(r, k) \in Seq(Byte)
<1> DEFINE T == {k \in Nat : k <= Len(r) => Prefix(r, k) \in Seq(Byte)}
<1>1. 0 \in T
  <2>1. <<>> \in Seq(Byte) OBVIOUS
  <2> QED BY <2>1, PrefixEmpty
<1>2. ASSUME NEW k \in Nat, k \in T PROVE k + 1 \in T
  <2>1. ASSUME k + 1 <= Len(r) PROVE Prefix(r, k + 1) \in Seq(Byte)
    <3>1. PICK j \in 1 .. Len(r) : j = k + 1 /\ j - 1 = k /\ k <= Len(r) BY <2>1, SMT
    <3>2. r[j] \in Seq(Byte)
      <4>1. r[j] \in Rune BY <3>1, ElementOfSeq
      <4> QED BY <4>1, RuneLength
    <3>3. Prefix(r, k) \in Seq(Byte) BY <1>2, <3>1, Zenon
    <3>4. Prefix(r, j) = IF j = 1 THEN r[j] ELSE Prefix(r, k) \o r[j] BY <3>1, PrefixStep, Zenon
    <3>5. Prefix(r, k) \o r[j] \in Seq(Byte) BY <3>2, <3>3, ConcatProperties, Zenon
    <3>6. Prefix(r, j) \in Seq(Byte) BY <3>2, <3>4, <3>5, Zenon
    <3> QED BY <3>1, <3>6, Zenon
  <2>2. k + 1 \in Nat BY SMT
  <2> QED BY <2>1, <2>2, Zenon
<1> HIDE DEF T
<1>3. \A k \in Nat : k \in T BY <1>1, <1>2, Counting
<1>4. \A k \in 0 .. Len(r) : k \in Nat /\ k <= Len(r) BY SMT
<1> QED BY <1>3, <1>4, Zenon DEF T

LEMMA PrefixJoint ==
  ASSUME NEW r \in Seq(Rune), NEW k \in 1 .. Len(r)
  PROVE  /\ Prefix(r, k) \in Seq(Byte) /\ Prefix(r, k - 1) \in Seq(Byte)
         /\ r[k] \in Rune
         /\ Joint(Prefix(r, k), Prefix(r, k - 1), r[k])
<1>1. k \in 0 .. Len(r) /\ k - 1 \in 0 .. Len(r) /\ (k = 1 => k - 1 = 0) BY SMT
<1>2. Prefix(r, k) \in Seq(Byte) /\ Prefix(r, k - 1) \in Seq(Byte) BY <1>1, PrefixBytes, Zenon
<1>3. r[k] \in Rune BY ElementOfSeq
<1>4. r[k] \in Seq(Byte) BY <1>3, RuneLength
<1>5. Prefix(r, k) = IF k = 1 THEN r[k] ELSE Prefix(r, k - 1) \o r[k] BY PrefixStep, Zenon
<1>6. CASE k # 1
  <2>1. Prefix(r, k) = Prefix(r, k - 1) \o r[k] BY <1>5, <1>6, Zenon
  <2> QED BY <1>2, <1>3, <1>4, <2>1, Joined
<1>7. CASE k = 1
  <2>1. Prefix(r, k - 1) = <<>> BY <1>1, <1>7, PrefixEmpty, Zenon
  <2>2. <<>> \o r[k] = r[k] BY <1>4, ConcatEmptySeq, Zenon
  <2>3. Prefix(r, k) = Prefix(r, k - 1) \o r[k] BY <1>5, <1>7, <2>1, <2>2, Zenon
  <2> QED BY <1>2, <1>3, <1>4, <2>3, Joined
<1> QED BY <1>6, <1>7

LEMMA OffsetNat ==
  ASSUME NEW r \in Seq(Rune)
  PROVE  Offset(r, 0) = 0 /\ \A k \in 0 .. Len(r) : Offset(r, k) \in Nat
<1>1. Len(<<>>) = 0 OBVIOUS
<1>2. Offset(r, 0) = 0 BY <1>1, PrefixEmpty, Zenon DEF Offset
<1>3. ASSUME NEW k \in 0 .. Len(r) PROVE Offset(r, k) \in Nat
  <2>1. Prefix(r, k) \in Seq(Byte) BY PrefixBytes
  <2> QED BY <2>1, LenProperties DEF Offset
<1> QED BY <1>2, <1>3

LEMMA OffsetStep ==
  ASSUME NEW r \in Seq(Rune), NEW k \in 1 .. Len(r)
  PROVE  /\ Offset(r, k - 1) \in Nat /\ Len(r[k]) \in 1 .. 4
         /\ Offset(r, k) = Offset(r, k - 1) + Len(r[k])
<1>1. /\ r[k] \in Rune /\ Prefix(r, k - 1) \in Seq(Byte)
      /\ Joint(Prefix(r, k), Prefix(r, k - 1), r[k])
  BY PrefixJoint, Zenon
<1>2. Len(r[k]) \in 1 .. 4 BY <1>1, RuneLength, Zenon
<1>3. Offset(r, k - 1) \in Nat BY <1>1, LenProperties DEF Offset
<1> QED BY <1>1, <1>2, <1>3, Zenon DEF Joint, Offset

\* A prefix of r begins every longer one.
LEMMA PrefixKept ==
  ASSUME NEW r \in Seq(Rune), NEW j \in 0 .. Len(r)
  PROVE  \A k \in j .. Len(r) : /\ Offset(r, j) <= Offset(r, k)
                                /\ \A i \in 1 .. Offset(r, j) : Prefix(r, k)[i] = Prefix(r, j)[i]
<1> DEFINE Kept(k) == /\ Offset(r, j) <= Offset(r, k)
                      /\ \A i \in 1 .. Offset(r, j) : Prefix(r, k)[i] = Prefix(r, j)[i]
           T == {d \in Nat : j + d <= Len(r) => Kept(j + d)}
<1>0. j \in Nat /\ Len(r) \in Nat /\ Offset(r, j) \in Nat BY OffsetNat, SMT
<1>1. 0 \in T
  <2>1. Kept(j) BY <1>0, SMT
  <2>2. j + 0 = j BY <1>0, SMT
  <2> HIDE DEF Kept
  <2> QED BY <2>1, <2>2, Zenon
<1>2. ASSUME NEW d \in Nat, d \in T PROVE d + 1 \in T
  <2>1. ASSUME j + (d + 1) <= Len(r) PROVE Kept(j + (d + 1))
    <3>1. PICK k \in 1 .. Len(r) : k = j + (d + 1) /\ k - 1 = j + d /\ k - 1 <= Len(r)
      BY <1>0, <2>1, SMT
    <3>2. Kept(k - 1) BY <1>2, <3>1, Zenon
    <3>3. Offset(r, k - 1) \in Nat /\ Offset(r, k) = Offset(r, k - 1) + Len(r[k])
          /\ Len(r[k]) \in 1 .. 4
      BY OffsetStep, Zenon
    <3>4. \A i \in 1 .. Offset(r, k - 1) : Prefix(r, k)[i] = Prefix(r, k - 1)[i]
      BY PrefixJoint, Zenon DEF Joint, Offset
    <3>5. Offset(r, j) <= Offset(r, k) BY <1>0, <3>2, <3>3, SMT
    <3>6. ASSUME NEW i \in 1 .. Offset(r, j) PROVE Prefix(r, k)[i] = Prefix(r, j)[i]
      <4>1. i \in 1 .. Offset(r, k - 1) BY <1>0, <3>2, <3>3, SMT
      <4> QED BY <3>2, <3>4, <4>1, Zenon
    <3>7. Kept(k) BY <3>5, <3>6, Zenon
    <3> HIDE DEF Kept
    <3> QED BY <3>1, <3>7, Zenon
  <2>2. d + 1 \in Nat BY SMT
  <2> HIDE DEF Kept
  <2> QED BY <2>1, <2>2, Zenon
<1> HIDE DEF T
<1>3. \A d \in Nat : d \in T BY <1>1, <1>2, Counting
<1>4. ASSUME NEW k \in j .. Len(r) PROVE Kept(k)
  <2>1. PICK d \in Nat : j + d = k /\ j + d <= Len(r) BY <1>0, SMT
  <2>2. d \in T BY <1>3
  <2> HIDE DEF Kept
  <2>3. Kept(j + d) BY <2>1, <2>2, Zenon DEF T
  <2> QED BY <2>1, <2>3, Zenon
<1> QED BY <1>4, Zenon

\* Every number up to the end is a boundary or lies inside a character.
LEMMA Located ==
  ASSUME NEW r \in Seq(Rune), NEW m \in Nat, m <= Offset(r, Len(r))
  PROVE  \/ \E k \in 0 .. Len(r) : Offset(r, k) = m
         \/ \E k \in 1 .. Len(r) : Offset(r, k - 1) < m /\ m < Offset(r, k)
<1> DEFINE T == {k \in 0 .. Len(r) : m <= Offset(r, k)}
<1>0. Len(r) \in Nat OBVIOUS
<1>1. T \subseteq Nat BY <1>0, SMT
<1>2. Len(r) \in T BY <1>0, SMT
<1>3. PICK k \in T : \A j \in T : k <= j BY <1>1, <1>2, LeastNumber
<1>4. k \in 0 .. Len(r) /\ Offset(r, k) \in Nat /\ m <= Offset(r, k) BY <1>3, OffsetNat
<1>5. CASE Offset(r, k) = m BY <1>4, <1>5
<1>6. CASE Offset(r, k) # m
  <2>1. k # 0 BY <1>4, <1>6, OffsetNat, SMT
  <2>2. k \in 1 .. Len(r) /\ k - 1 \in 0 .. Len(r) /\ ~(k <= k - 1) BY <1>4, <2>1, SMT
  <2>3. k - 1 \notin T BY <1>3, <2>2
  <2>4. Offset(r, k - 1) \in Nat BY <2>2, OffsetNat
  <2>5. ~(m <= Offset(r, k - 1)) BY <2>2, <2>3
  <2>6. Offset(r, k - 1) < m /\ m < Offset(r, k) BY <1>4, <1>6, <2>4, <2>5, SMT
  <2> QED BY <2>2, <2>6
<1> QED BY <1>5, <1>6

-----------------------------------------------------------------------------
(* Valid.  Its recursion, from the end of the bytes, has a solution; and   *)
(* any solution is the same at all boundaries.                             *)

ScanStep(f, c, i) ==
  \/ i = Len(c) + 1
  \/ \E w \in 1 .. 4 : /\ i + w <= Len(c) + 1
                       /\ IsRune(SubSeq(c, i, i + w - 1))
                       /\ f[i + w]

Scan(f, c, lo) == f = [i \in lo .. Len(c) + 1 |-> ScanStep(f, c, i)]

LEMMA ScanExists ==
  ASSUME NEW c, Len(c) \in Nat
  PROVE  \E f : Scan(f, c, 1)
<1> DEFINE T == {d \in Nat : d <= Len(c) => \E f : Scan(f, c, Len(c) + 1 - d)}
<1>1. 0 \in T
  <2> DEFINE f == [i \in Len(c) + 1 .. Len(c) + 1 |-> TRUE]
  <2>1. \A i \in Len(c) + 1 .. Len(c) + 1 : i = Len(c) + 1 BY SMT
  <2>2. \A i \in Len(c) + 1 .. Len(c) + 1 : ScanStep(f, c, i) = TRUE BY <2>1, Zenon DEF ScanStep
  <2>3. Scan(f, c, Len(c) + 1) BY <2>2, Zenon DEF Scan
  <2>4. Len(c) + 1 - 0 = Len(c) + 1 BY SMT
  <2> QED BY <2>3, <2>4, Zenon
<1>2. ASSUME NEW d \in Nat, d \in T PROVE d + 1 \in T
  <2>1. ASSUME d + 1 <= Len(c) PROVE \E f : Scan(f, c, Len(c) + 1 - (d + 1))
    <3>1. PICK lo \in Nat : lo = Len(c) + 1 - d /\ lo - 1 = Len(c) + 1 - (d + 1) BY <2>1, SMT
    <3>2. d <= Len(c) BY <2>1, SMT
    <3>3. PICK f : Scan(f, c, lo) BY <1>2, <3>1, <3>2, Zenon
    <3> DEFINE h == [i \in lo - 1 .. Len(c) + 1 |-> ScanStep(f, c, i)]
    <3>4. ASSUME NEW i \in lo .. Len(c) + 1 PROVE h[i] = f[i]
      <4>1. i \in lo - 1 .. Len(c) + 1 BY SMT
      <4> QED BY <3>3, <4>1, Zenon DEF Scan
    <3>5. ASSUME NEW i \in lo - 1 .. Len(c) + 1 PROVE ScanStep(f, c, i) = ScanStep(h, c, i)
      <4>1. \A w \in 1 .. 4 : i + w <= Len(c) + 1 => i + w \in lo .. Len(c) + 1 BY SMT
      <4>2. \A w \in 1 .. 4 : i + w <= Len(c) + 1 => h[i + w] = f[i + w] BY <3>4, <4>1, Zenon
      <4> HIDE DEF h
      <4> QED BY <4>2, Zenon DEF ScanStep
    <3>6. h = [i \in lo - 1 .. Len(c) + 1 |-> ScanStep(h, c, i)]
      <4> DEFINE g == [i \in lo - 1 .. Len(c) + 1 |-> ScanStep(h, c, i)]
      <4>1. \A i \in lo - 1 .. Len(c) + 1 : h[i] = g[i] BY <3>5, Zenon
      <4> QED BY <4>1, Zenon
    <3>7. Scan(h, c, lo - 1) BY <3>6, Zenon DEF Scan
    <3> HIDE DEF h
    <3> QED BY <3>1, <3>7, Zenon
  <2>2. d + 1 \in Nat BY SMT
  <2> QED BY <2>1, <2>2, Zenon
<1> HIDE DEF T
<1>3. Len(c) \in T BY <1>1, <1>2, Counting
<1>4. Len(c) <= Len(c) /\ Len(c) + 1 - Len(c) = 1 BY SMT
<1> QED BY <1>3, <1>4, Zenon DEF T

LEMMA ValidIsScan ==
  ASSUME NEW c, Len(c) \in Nat
  PROVE  \E f : Scan(f, c, 1) /\ Valid(c) = f[1]
<1>1. \E f : Scan(f, c, 1) BY ScanExists
<1>2. PICK g : g = CHOOSE f : Scan(f, c, 1) OBVIOUS
<1>3. Scan(g, c, 1) BY <1>1, <1>2, Zenon
<1>4. Valid(c) = g[1] BY <1>2, Zenon DEF Valid, Scan, ScanStep
<1> QED BY <1>3, <1>4, Zenon

OneRune(c, m, i, l) ==
  \A w \in 1 .. 4 : i + w <= m + 1 => (IsRune(SubSeq(c, i, i + w - 1)) <=> w = l)

\* At a boundary one character is there to be read, the one that r has.
LEMMA AtBoundary ==
  ASSUME NEW r \in Seq(Rune), NEW m \in Nat, m <= Offset(r, Len(r)),
         NEW c, c = SubSeq(Prefix(r, Len(r)), 1, m),
         NEW k \in 1 .. Len(r), NEW i, i = Offset(r, k - 1) + 1
  PROVE  OneRune(c, m, i, Len(r[k]))
<1> SUFFICES ASSUME NEW w \in 1 .. 4, i + w <= m + 1
             PROVE  IsRune(SubSeq(c, i, i + w - 1)) <=> w = Len(r[k])
  BY Zenon DEF OneRune
<1>0. Len(r) \in Nat /\ Len(r) \in 0 .. Len(r) BY SMT
<1>1. PICK b : b = Prefix(r, Len(r)) OBVIOUS
<1>2. b \in Seq(Byte) /\ Len(b) = Offset(r, Len(r)) BY <1>0, <1>1, PrefixBytes, Zenon DEF Offset
<1>3. /\ Offset(r, k - 1) \in Nat /\ Len(r[k]) \in 1 .. 4
      /\ Offset(r, k) = Offset(r, k - 1) + Len(r[k])
  BY OffsetStep, Zenon
<1>4. r[k] \in Rune /\ Joint(Prefix(r, k), Prefix(r, k - 1), r[k]) BY PrefixJoint, Zenon
<1>5. r[k] \in Seq(Byte) /\ IsRune(r[k]) BY <1>4, RuneLength
<1>6. /\ Offset(r, k) <= Offset(r, Len(r))
      /\ \A j \in 1 .. Offset(r, k) : b[j] = Prefix(r, k)[j]
  <2>1. k \in 0 .. Len(r) /\ Len(r) \in k .. Len(r) BY <1>0, SMT
  <2> QED BY <1>1, <2>1, PrefixKept, Zenon
<1>7. ASSUME NEW j \in 1 .. Len(r[k]) PROVE b[Offset(r, k - 1) + j] = r[k][j]
  <2>1. Offset(r, k - 1) + j \in 1 .. Offset(r, k) BY <1>3, SMT
  <2>2. Prefix(r, k)[Offset(r, k - 1) + j] = r[k][j] BY <1>4, Zenon DEF Joint, Offset
  <2> QED BY <1>6, <2>1, <2>2, Zenon
<1>8. /\ c \in Seq(Byte) /\ Len(c) = m /\ \A j \in 1 .. m : c[j] = b[j]
  BY <1>1, <1>2, SMT
<1>9. PICK s : s = SubSeq(c, i, i + w - 1) OBVIOUS
<1>10. /\ s \in Seq(Byte) /\ Len(s) = w
       /\ \A j \in 1 .. w : s[j] = b[Offset(r, k - 1) + j]
  <2>1. PICK o \in Nat : o = Offset(r, k - 1) BY <1>3, Zenon
  <2>2. w \in Nat /\ i = o + 1 /\ i + w - 1 = o + w /\ o + w <= m BY <2>1, SMT
  <2>3. s = SubSeq(c, o + 1, o + w) BY <1>9, <2>2, Zenon
  <2>4. s \in Seq(Byte) /\ Len(s) = w /\ \A j \in 1 .. w : s[j] = c[o + j]
    BY <1>8, <2>2, <2>3, Taken
  <2>5. \A j \in 1 .. w : o + j \in 1 .. m BY <2>2, SMT
  <2>6. \A j \in 1 .. w : s[j] = b[o + j] BY <1>8, <2>4, <2>5, Zenon
  <2> QED BY <2>1, <2>4, <2>6, Zenon
<1>11. ASSUME IsRune(s) PROVE w = Len(r[k])
  <2>1. PICK l \in 1 .. 4 : l = Len(r[k]) BY <1>3, Zenon
  <2>2. 1 \in 1 .. w /\ 1 \in 1 .. l BY SMT
  <2>3. s[1] = b[Offset(r, k - 1) + 1] BY <1>10, <2>2, Zenon
  <2>4. b[Offset(r, k - 1) + 1] = r[k][1] BY <1>7, <2>1, <2>2, Zenon
  <2>5. Len(s) = Width(s[1]) /\ Len(r[k]) = Width(r[k][1]) BY <1>5, <1>11, RuneWidth, Zenon
  <2> QED BY <1>10, <2>3, <2>4, <2>5, Zenon
<1>12. ASSUME w = Len(r[k]) PROVE IsRune(s)
  <2>1. Len(s) = Len(r[k]) BY <1>10, <1>12, Zenon
  <2>2. \A j \in 1 .. Len(s) : s[j] = r[k][j] BY <1>7, <1>10, <1>12, Zenon
  <2>3. s = r[k] BY <1>5, <1>10, <2>1, <2>2, SeqEqual, Zenon
  <2> QED BY <1>5, <2>3, Zenon
<1> QED BY <1>9, <1>11, <1>12, Zenon

\* The bytes up to m are valid when m is a boundary, and only then.
LEMMA ValidAtBoundary ==
  ASSUME NEW r \in Seq(Rune), NEW m \in Nat, m <= Offset(r, Len(r)),
         NEW c, c = SubSeq(Prefix(r, Len(r)), 1, m)
  PROVE  Valid(c) <=> \E k \in 0 .. Len(r) : Offset(r, k) = m
<1>0. Len(r) \in Nat /\ Len(r) \in 0 .. Len(r) BY SMT
<1>1. Len(c) = m
  <2>1. PICK b : b = Prefix(r, Len(r)) OBVIOUS
  <2>2. b \in Seq(Byte) /\ Len(b) = Offset(r, Len(r)) BY <1>0, <2>1, PrefixBytes, Zenon DEF Offset
  <2> QED BY <2>1, <2>2, SMT
<1>2. PICK f : Scan(f, c, 1) /\ Valid(c) = f[1] BY <1>1, ValidIsScan, Zenon
<1>3. ASSUME NEW i \in 1 .. m + 1 PROVE f[i] = ScanStep(f, c, i)
  BY <1>1, <1>2, Zenon DEF Scan
<1>4. f[m + 1]
  <2>1. m + 1 \in 1 .. m + 1 BY SMT
  <2> QED BY <1>1, <1>3, <2>1, Zenon DEF ScanStep
<1>5. ASSUME NEW k \in 1 .. Len(r), NEW i, i = Offset(r, k - 1) + 1, i \in 1 .. m
      PROVE  f[i] <=> (i + Len(r[k]) <= m + 1 /\ f[i + Len(r[k])])
  <2>1. Len(r[k]) \in 1 .. 4 BY OffsetStep, Zenon
  <2>2. i \in 1 .. m + 1 /\ i # m + 1 BY <1>5, SMT
  <2>3. f[i] = (\E w \in 1 .. 4 : /\ i + w <= m + 1
                                  /\ IsRune(SubSeq(c, i, i + w - 1))
                                  /\ f[i + w])
    BY <1>1, <1>3, <2>2, Zenon DEF ScanStep
  <2>4. \A w \in 1 .. 4 : i + w <= m + 1 => (IsRune(SubSeq(c, i, i + w - 1)) <=> w = Len(r[k]))
    <3>1. OneRune(c, m, i, Len(r[k])) BY <1>5, AtBoundary
    <3> QED BY <3>1, Zenon DEF OneRune
  <2> QED BY <2>1, <2>3, <2>4, Zenon
<1> DEFINE T == {k \in Nat : k <= Len(r) /\ Offset(r, k) <= m => (f[1] <=> f[Offset(r, k) + 1])}
<1>6. 0 \in T
  <2>1. Offset(r, 0) + 1 = 1 BY OffsetNat, SMT
  <2> QED BY <2>1, Zenon
<1>7. ASSUME NEW j \in Nat, j \in T PROVE j + 1 \in T
  <2>1. ASSUME j + 1 <= Len(r), Offset(r, j + 1) <= m PROVE f[1] <=> f[Offset(r, j + 1) + 1]
    <3>1. PICK k \in 1 .. Len(r) : k = j + 1 /\ k - 1 = j /\ j <= Len(r) BY <1>0, <2>1, SMT
    <3>2. /\ Offset(r, k - 1) \in Nat /\ Len(r[k]) \in 1 .. 4
          /\ Offset(r, k) = Offset(r, k - 1) + Len(r[k])
      BY OffsetStep, Zenon
    <3>3. PICK i : i = Offset(r, k - 1) + 1 OBVIOUS
    <3>4. /\ i \in 1 .. m /\ i + Len(r[k]) <= m + 1 /\ i + Len(r[k]) = Offset(r, k) + 1
          /\ Offset(r, k - 1) <= m
      <4>1. Offset(r, k) <= m BY <2>1, <3>1, Zenon
      <4>2. PICK a \in Nat, l \in 1 .. 4 : a = Offset(r, k - 1) /\ l = Len(r[k]) BY <3>2, Zenon
      <4>3. i = a + 1 /\ Offset(r, k) = a + l BY <3>2, <3>3, <4>2, Zenon
      <4>4. a + l <= m BY <4>1, <4>3, Zenon
      <4>5. a + 1 \in 1 .. m /\ a + 1 + l <= m + 1 /\ a + 1 + l = a + l + 1 /\ a <= m BY <4>4, SMT
      <4> QED BY <4>2, <4>3, <4>5, Zenon
    <3>5. f[i] <=> f[i + Len(r[k])] BY <1>5, <3>3, <3>4, Zenon
    <3>6. f[1] <=> f[Offset(r, k - 1) + 1] BY <1>7, <3>1, <3>4, Zenon
    <3> QED BY <3>1, <3>3, <3>4, <3>5, <3>6, Zenon
  <2>2. j + 1 \in Nat BY SMT
  <2> QED BY <2>1, <2>2, Zenon
<1> HIDE DEF T
<1>8. \A k \in Nat : k \in T BY <1>6, <1>7, Counting
<1>9. ASSUME NEW k \in 0 .. Len(r), Offset(r, k) = m PROVE Valid(c)
  <2>1. k \in Nat /\ k <= Len(r) /\ m <= m BY <1>0, SMT
  <2>2. f[1] <=> f[m + 1] BY <1>8, <1>9, <2>1, Zenon DEF T
  <2> QED BY <1>2, <1>4, <2>2, Zenon
<1>10. ASSUME NEW k \in 1 .. Len(r), Offset(r, k - 1) < m, m < Offset(r, k) PROVE ~Valid(c)
  <2>1. PICK j \in Nat : j = k - 1 /\ j <= Len(r) BY <1>0, SMT
  <2>2. /\ Offset(r, k - 1) \in Nat /\ Len(r[k]) \in 1 .. 4
        /\ Offset(r, k) = Offset(r, k - 1) + Len(r[k])
    BY OffsetStep, Zenon
  <2>3. PICK i : i = Offset(r, k - 1) + 1 OBVIOUS
  <2>4. i \in 1 .. m /\ ~(i + Len(r[k]) <= m + 1) /\ Offset(r, k - 1) <= m
    BY <1>10, <2>2, <2>3, SMT
  <2>5. ~f[i] BY <1>5, <2>3, <2>4, Zenon
  <2>6. f[1] <=> f[Offset(r, j) + 1] BY <1>8, <2>1, <2>4, Zenon DEF T
  <2> QED BY <1>2, <2>1, <2>3, <2>5, <2>6, Zenon
<1> QED
  <2>1. CASE \E k \in 0 .. Len(r) : Offset(r, k) = m BY <1>9, <2>1, Zenon
  <2>2. CASE ~\E k \in 0 .. Len(r) : Offset(r, k) = m
    <3>1. PICK k \in 1 .. Len(r) : Offset(r, k - 1) < m /\ m < Offset(r, k) BY <2>2, Located, Zenon
    <3> QED BY <1>10, <2>2, <3>1, Zenon
  <2> QED BY <2>1, <2>2, Zenon

-----------------------------------------------------------------------------
(* The reason of a close frame.                                            *)

LEMMA PrefixWhole ==
  ASSUME NEW r \in Seq(Rune)
  PROVE  FlattenSeq(r) = Prefix(r, Len(r))
<1>1. SubSeq(r, 1, Len(r)) = r BY SubSeqFull
<1> QED BY <1>1, Zenon DEF Prefix

\* The bytes of r up to a boundary are those of the characters before it.
LEMMA PrefixCut ==
  ASSUME NEW r \in Seq(Rune), NEW k \in 0 .. Len(r)
  PROVE  /\ SubSeq(Prefix(r, Len(r)), 1, Offset(r, k)) = Prefix(r, k)
         /\ Offset(r, k) \in Nat /\ Offset(r, k) <= Offset(r, Len(r))
<1>0. Len(r) \in Nat /\ Len(r) \in 0 .. Len(r) /\ Len(r) \in k .. Len(r) BY SMT
<1>1. PICK b \in Seq(Byte) : b = Prefix(r, Len(r)) BY <1>0, PrefixBytes, Zenon
<1>2. PICK p \in Seq(Byte) : p = Prefix(r, k) BY PrefixBytes, Zenon
<1>3. PICK o \in Nat : o = Offset(r, k) BY OffsetNat, Zenon
<1>4. Len(p) = o /\ Len(b) = Offset(r, Len(r)) BY <1>1, <1>2, <1>3, Zenon DEF Offset
<1>5. o <= Offset(r, Len(r)) /\ \A i \in 1 .. o : b[i] = p[i]
  BY <1>0, <1>1, <1>2, <1>3, PrefixKept, Zenon
<1>6. o <= Len(b) BY <1>4, <1>5, Zenon
<1>7. PICK s : s = SubSeq(b, 1, o) OBVIOUS
<1>8. s \in Seq(Byte) /\ Len(s) = o /\ \A i \in 1 .. o : s[i] = b[i] BY <1>6, <1>7, SMT
<1>9. s = p
  <2>1. Len(s) = Len(p) /\ \A i \in 1 .. Len(s) : s[i] = p[i] BY <1>4, <1>5, <1>8, Zenon
  <2> QED BY <1>8, <2>1, SeqEqual
<1> QED BY <1>1, <1>2, <1>3, <1>5, <1>7, <1>9, Zenon

\* As many characters as fit.
Most(r, k) ==
  /\ k \in 0 .. Len(r) /\ Offset(r, k) <= MaxCloseReason
  /\ \A j \in 0 .. Len(r) : Offset(r, j) <= MaxCloseReason => j <= k

LEMMA MostExists ==
  ASSUME NEW r \in Seq(Rune)
  PROVE  \E k : Most(r, k)
<1> DEFINE T == {k \in 0 .. Len(r) : Offset(r, k) <= MaxCloseReason}
<1>0. Len(r) \in Nat /\ 0 \in 0 .. Len(r) BY SMT
<1>1. Offset(r, 0) <= MaxCloseReason
  <2>1. Offset(r, 0) = 0 BY OffsetNat
  <2> QED BY <2>1, CodecAssumption, SMT
<1>2. T \subseteq Nat /\ \A n \in T : n <= Len(r) BY <1>0, SMT
<1>3. T # {} BY <1>0, <1>1, Zenon
<1>4. PICK k \in T : \A j \in T : j <= k
  <2> HIDE DEF T
  <2> QED BY <1>0, <1>2, <1>3, LargestNumber
<1> QED BY <1>4, Zenon DEF Most

LEMMA MostIsLast ==
  ASSUME NEW r \in Seq(Rune), NEW k, Most(r, k), NEW j \in 0 .. Len(r)
  PROVE  Offset(r, j) <= MaxCloseReason <=> Offset(r, j) <= Offset(r, k)
<1>1. k \in 0 .. Len(r) /\ Offset(r, k) <= MaxCloseReason BY Zenon DEF Most
<1>2. PICK a \in Nat, o \in Nat : a = Offset(r, j) /\ o = Offset(r, k) BY <1>1, OffsetNat, Zenon
<1>3. ASSUME a <= MaxCloseReason PROVE a <= o
  <2>1. j <= k BY <1>2, <1>3, Zenon DEF Most
  <2>2. k \in j .. Len(r) BY <1>1, <2>1, SMT
  <2> QED BY <1>2, <2>2, PrefixKept, Zenon
<1>4. ASSUME a <= o PROVE a <= MaxCloseReason
  <2>1. o <= MaxCloseReason BY <1>1, <1>2, Zenon
  <2> QED BY <1>4, <2>1, CodecAssumption, SMT
<1> QED BY <1>2, <1>3, <1>4, Zenon

LEMMA TruncatedIsPrefix ==
  ASSUME NEW r \in Seq(Rune), NEW k, Most(r, k)
  PROVE  Truncated(FlattenSeq(r)) = Prefix(r, k)
<1>0. Len(r) \in Nat /\ Len(r) \in 0 .. Len(r) /\ MaxCloseReason \in Nat BY CodecAssumption, SMT
<1>1. k \in 0 .. Len(r) /\ Offset(r, k) <= MaxCloseReason BY Zenon DEF Most
<1>2. PICK b \in Seq(Byte) : b = Prefix(r, Len(r)) /\ b = FlattenSeq(r)
  BY <1>0, PrefixBytes, PrefixWhole, Zenon
<1>3. PICK o \in Nat : o = Offset(r, k) /\ o <= MaxCloseReason /\ SubSeq(b, 1, o) = Prefix(r, k)
  BY <1>1, <1>2, PrefixCut, Zenon
<1>4. Len(b) = Offset(r, Len(r)) /\ Len(b) \in Nat
  <2>1. Len(b) \in Nat OBVIOUS
  <2> QED BY <1>2, <2>1, Zenon DEF Offset
<1>5. CASE ~(Len(b) > MaxCloseReason)
  <2>1. Offset(r, Len(r)) <= MaxCloseReason BY <1>0, <1>4, <1>5, SMT
  <2>2. Len(r) <= k BY <1>0, <2>1, Zenon DEF Most
  <2>3. Len(r) = k BY <1>0, <1>1, <2>2, SMT
  <2>4. Truncated(b) = b BY <1>5, Zenon DEF Truncated
  <2> QED BY <1>2, <2>3, <2>4, Zenon
<1>6. CASE Len(b) > MaxCloseReason
  <2> DEFINE V(n) == Valid(SubSeq(b, 1, n))
  <2>1. ASSUME NEW n \in 0 .. MaxCloseReason PROVE V(n) <=> \E j \in 0 .. Len(r) : Offset(r, j) = n
    <3>1. n \in Nat /\ n <= Len(b) BY <1>0, <1>4, <1>6, SMT
    <3>2. n <= Offset(r, Len(r)) BY <1>4, <3>1, Zenon
    <3>3. PICK c : c = SubSeq(Prefix(r, Len(r)), 1, n) /\ c = SubSeq(b, 1, n) BY <1>2, Zenon
    <3>4. Valid(c) <=> \E j \in 0 .. Len(r) : Offset(r, j) = n BY <3>1, <3>2, <3>3, ValidAtBoundary
    <3> QED BY <3>3, <3>4, Zenon
  <2>2. o \in 0 .. MaxCloseReason BY <1>0, <1>3, SMT
  <2>3. V(o) BY <1>1, <1>3, <2>1, <2>2, Zenon
  <2>4. ASSUME NEW n \in 0 .. MaxCloseReason, V(n) PROVE n <= o
    <3>1. PICK j \in 0 .. Len(r) : Offset(r, j) = n BY <2>1, <2>4, Zenon
    <3>2. n <= MaxCloseReason BY SMT
    <3> QED BY <1>3, <3>1, <3>2, MostIsLast, Zenon
  <2>5. ASSUME NEW n \in o + 1 .. MaxCloseReason PROVE ~V(n)
    <3>1. n \in 0 .. MaxCloseReason /\ ~(n <= o) BY <1>0, SMT
    <3> HIDE DEF V
    <3> QED BY <2>4, <3>1, Zenon
  <2>6. ASSUME NEW n \in 0 .. MaxCloseReason, V(n), \A m \in n + 1 .. MaxCloseReason : ~V(m)
        PROVE  n = o
    <3> HIDE DEF V
    <3>1. n <= o BY <2>4, <2>6, Zenon
    <3>2. o \notin n + 1 .. MaxCloseReason BY <2>3, <2>6, Zenon
    <3> QED BY <1>0, <2>2, <3>1, <3>2, SMT
  <2>7. PICK cut : cut = CHOOSE n \in 0 .. MaxCloseReason :
                           /\ V(n) /\ \A m \in n + 1 .. MaxCloseReason : ~V(m)
    OBVIOUS
  <2>8. cut = o
    <3> HIDE DEF V
    <3>1. /\ cut \in 0 .. MaxCloseReason
          /\ V(cut) /\ \A m \in cut + 1 .. MaxCloseReason : ~V(m)
      BY <2>2, <2>3, <2>5, <2>7, Zenon
    <3> QED BY <2>6, <3>1, Zenon
  <2>9. Truncated(b) = SubSeq(b, 1, cut) BY <1>6, <2>7, Zenon DEF Truncated
  <2> QED BY <1>2, <1>3, <2>8, <2>9, Zenon
<1> QED BY <1>5, <1>6, Zenon

LEMMA PrefixValid ==
  ASSUME NEW r \in Seq(Rune), NEW k \in 0 .. Len(r)
  PROVE  Valid(Prefix(r, k))
<1>1. PICK o \in Nat : /\ o = Offset(r, k) /\ o <= Offset(r, Len(r))
                       /\ SubSeq(Prefix(r, Len(r)), 1, o) = Prefix(r, k)
  BY PrefixCut, Zenon
<1>2. PICK c : c = SubSeq(Prefix(r, Len(r)), 1, o) OBVIOUS
<1>3. Valid(c) <=> \E j \in 0 .. Len(r) : Offset(r, j) = o BY <1>1, <1>2, ValidAtBoundary
<1> QED BY <1>1, <1>2, <1>3, Zenon

\* The codes of the code's uint16.
IsCode(n) == n \in Nat /\ n < 65536

LEMMA Digits16 ==
  ASSUME NEW n, IsCode(n)
  PROVE  n \in Int /\ \E a, b \in Byte : n = 256 * a + b
<1>0. n \in Nat /\ n < 65536 BY SMT DEF IsCode
<1>1. PICK a \in Nat, b \in Byte : n = 256 * a + b BY <1>0, Division256, SMT
<1>2. b \in Int /\ b >= 0 BY ByteBounds, SMT
<1>3. a < 256 BY <1>0, <1>1, <1>2, SMT
<1>4. a \in Byte BY <1>3, ByteBounds, SMT
<1> QED BY <1>0, <1>1, <1>4, SMT

\* A code and a reason, taken apart again.
LEMMA ClosePayload ==
  ASSUME NEW code, IsCode(code), NEW x \in Seq(Byte)
  PROVE  \E p \in Seq(Byte) : /\ PutUint16(code) \o x = p /\ Len(p) = 2 + Len(x)
                              /\ Uint16(SubSeq(p, 1, 2)) = code
                              /\ SubSeq(p, 3, Len(p)) = x
<1>0. Len(x) \in Nat /\ code \in Int BY Digits16
<1>1. PICK a \in Byte, b \in Byte : code = 256 * a + b BY Digits16, Zenon
<1>2. PICK u : u = <<a, b>> OBVIOUS
<1>3. PutUint16(code) = u BY <1>0, <1>1, <1>2, Numbers16, Zenon
<1>4. u \in Seq(Byte) /\ Len(u) = 2 /\ u[1] = a /\ u[2] = b BY <1>2, SMT
<1>5. PICK p : p = u \o x OBVIOUS
<1>6. p \in Seq(Byte) /\ Joint(p, u, x) BY <1>4, <1>5, Joined
<1>7. /\ Len(p) = 2 + Len(x) /\ p[1] = a /\ p[2] = b
      /\ \A i \in 1 .. Len(x) : p[2 + i] = x[i]
  BY <1>4, <1>6, SMT DEF Joint
<1>8. Uint16(SubSeq(p, 1, 2)) = code
  <2>1. PICK v : v = SubSeq(p, 1, 2) OBVIOUS
  <2>2. v[1] = p[1] /\ v[2] = p[2] BY <1>0, <1>6, <1>7, <2>1, SMT
  <2> QED BY <1>1, <1>7, <2>1, <2>2, Zenon DEF Uint16
<1>9. SubSeq(p, 3, Len(p)) = x
  <2>1. PICK l \in Nat : l = Len(x) /\ 2 + l <= Len(p) /\ 2 + 1 = 3 BY <1>0, <1>7, SMT
  <2>2. PICK q : q = SubSeq(p, 2 + 1, 2 + l) OBVIOUS
  <2>3. q \in Seq(Byte) /\ Len(q) = l /\ \A i \in 1 .. l : q[i] = p[2 + i]
    BY <1>6, <2>1, <2>2, Taken
  <2>4. Len(q) = Len(x) /\ \A i \in 1 .. Len(q) : q[i] = x[i] BY <1>7, <2>1, <2>3, Zenon
  <2>5. q = x BY <2>3, <2>4, SeqEqual, Zenon
  <2> QED BY <1>7, <2>1, <2>2, <2>5, Zenon
<1> QED BY <1>3, <1>5, <1>6, <1>7, <1>8, <1>9, Zenon

\* The payload that EncodeClose makes of any code and any reason of whole characters:
\* the peer's ParseClose accepts it, with its code and as many of the characters as
\* fit, wherever the limit falls.
THEOREM ReasonsRoundTrip ==
  ASSUME NEW code, IsCode(code), NEW r \in Seq(Rune), NEW k, Most(r, k)
  PROVE  /\ EncodeClose(code, FlattenSeq(r)) \in Seq(Byte)
         /\ Len(EncodeClose(code, FlattenSeq(r))) = 2 + Offset(r, k)
         /\ ParseClose(EncodeClose(code, FlattenSeq(r))) = [code |-> code, reason |-> Prefix(r, k)]
<1>1. k \in 0 .. Len(r) /\ Offset(r, k) <= MaxCloseReason BY Zenon DEF Most
<1>2. PICK x \in Seq(Byte) : x = Prefix(r, k) BY <1>1, PrefixBytes, Zenon
<1>3. Len(x) = Offset(r, k) /\ Len(x) <= MaxCloseReason BY <1>1, <1>2, Zenon DEF Offset
<1>4. Valid(x) BY <1>1, <1>2, PrefixValid, Zenon
<1>5. PICK p \in Seq(Byte) : /\ PutUint16(code) \o x = p /\ Len(p) = 2 + Len(x)
                             /\ Uint16(SubSeq(p, 1, 2)) = code /\ SubSeq(p, 3, Len(p)) = x
  BY ClosePayload, Zenon
<1>6. EncodeClose(code, FlattenSeq(r)) = p BY <1>2, <1>5, TruncatedIsPrefix, Zenon DEF EncodeClose
<1>7. Len(p) >= 2
  <2>1. Len(x) \in Nat OBVIOUS
  <2> QED BY <1>5, <2>1, SMT
<1>8. ParseClose(p) = [code |-> code, reason |-> x] BY <1>3, <1>4, <1>5, <1>7, Zenon DEF ParseClose
<1> QED BY <1>2, <1>3, <1>5, <1>6, <1>8, Zenon

LEMMA ReasonsAreRunes ==
  ASSUME NEW n \in Nat, NEW r \in Reasons(n)
  PROVE  r \in Seq(Rune)
<1>1. PICK l \in 0 .. n : r \in [1 .. l -> TestRunes] BY Zenon DEF Reasons
<1>2. l \in Nat BY SMT
<1>3. r \in Seq(TestRunes) BY <1>1, <1>2, SMT
<1> QED BY <1>3, CodecAssumption, SMT

\* ReasonsWhole of the runs, for every limit and all characters.
LEMMA ReasonsAreWhole == ReasonsWhole
<1> DEFINE Fits(r) == {n \in 0 .. Len(r) : Len(FlattenSeq(SubSeq(r, 1, n))) <= MaxCloseReason}
           Largest(r) == CHOOSE n \in Fits(r) : \A m \in Fits(r) : m <= n
<1> SUFFICES ASSUME NEW code \in {0, 3, 257}, NEW r \in Reasons(MaxCloseReason + 1)
             PROVE  ParseClose(EncodeClose(code, FlattenSeq(r)))
                      = [code |-> code, reason |-> FlattenSeq(SubSeq(r, 1, Largest(r)))]
  BY DEF ReasonsWhole
<1>a. PICK fits : fits = Fits(r) OBVIOUS
<1>b. PICK most : most = Largest(r) OBVIOUS
<1>c. most = CHOOSE n \in fits : \A m \in fits : m <= n BY <1>a, <1>b, Zenon
<1>1. IsCode(code) BY SMT DEF IsCode
<1>2. r \in Seq(Rune)
  <2>1. MaxCloseReason + 1 \in Nat BY CodecAssumption, SMT
  <2> QED BY <2>1, ReasonsAreRunes
<1>3. fits = {n \in 0 .. Len(r) : Offset(r, n) <= MaxCloseReason} BY <1>a, Zenon DEF Offset, Prefix
<1>4. PICK k : Most(r, k) BY <1>2, MostExists
<1>5. k \in fits /\ \A m \in fits : m <= k BY <1>3, <1>4, Zenon DEF Most
<1>6. most \in fits /\ \A m \in fits : m <= most BY <1>5, <1>c, Zenon
<1>7. Most(r, most) BY <1>3, <1>6, Zenon DEF Most
<1>8. ParseClose(EncodeClose(code, FlattenSeq(r))) = [code |-> code, reason |-> Prefix(r, most)]
  BY <1>1, <1>2, <1>7, ReasonsRoundTrip
<1> QED BY <1>8, <1>b, Zenon DEF Prefix

-----------------------------------------------------------------------------
(* What a stream sends.                                                    *)

LEMMA FrameIsNotRefused ==
  ASSUME NEW t, NEW p
  PROVE  [type |-> t, payload |-> p] # Refused
<1>1. PICK x : x = [type |-> t, payload |-> p] OBVIOUS
<1>2. DOMAIN x = {"type", "payload"} BY <1>1, SMT
<1>3. DOMAIN Refused = {} BY SMT DEF Refused
<1> QED BY <1>1, <1>2, <1>3, Zenon

LEMMA AcceptedIfFits ==
  ASSUME NEW t \in Types, NEW p \in Seq(Byte), PayloadOK(t, Len(p)),
         NEW m \in Nat, m <= PayloadLimit, Len(p) <= m
  PROVE  /\ Parse(Encode(t, p), m) = [type |-> t, payload |-> p]
         /\ Parse(Encode(t, p), m) # Refused
<1>1. Len(p) <= PayloadLimit
  <2>1. Len(p) \in Nat /\ PayloadLimit \in Nat BY CodecAssumption, SMT DEF IsLength
  <2> QED BY <2>1, SMT
<1>2. m \in Int BY SMT
<1>3. Parse(Encode(t, p), m) = [type |-> t, payload |-> p] BY <1>1, <1>2, FramesRoundTrip, Zenon
<1> QED BY <1>3, FrameIsNotRefused, Zenon

\* Two ends with the same limit understand each other when it admits control frames.
LEMMA ControlIsUnderstood == ControlFits
<1> SUFFICES ASSUME NEW m \in 1 .. PayloadLimit, m >= PingSize, m >= 2 + MaxCloseReason,
                    NEW msg \in Sent(m)
             PROVE  Parse(msg, m) # Refused
  BY Zenon DEF ControlFits, Understood
<1>0. PayloadLimit \in Nat /\ MaxCloseReason \in Nat BY CodecAssumption, SMT DEF IsLength
<1>1. m \in Nat /\ m <= PayloadLimit BY <1>0, SMT
<1>2. \/ \E p \in TestPayloads : Len(p) <= m /\ msg = Encode(TypeData, p)
      \/ \E t \in {TypePing, TypePong} : msg = Encode(t, [i \in 1 .. PingSize |-> i])
      \/ \E r \in Reasons(2) : msg = Encode(TypeClose, EncodeClose(0, FlattenSeq(r)))
  BY Zenon DEF Sent
<1>3. ASSUME NEW p \in TestPayloads, Len(p) <= m, msg = Encode(TypeData, p)
      PROVE  Parse(msg, m) # Refused
  <2>1. p \in Seq(Byte) BY CodecAssumption
  <2>2. TypeData \in Types /\ PayloadOK(TypeData, Len(p))
    BY SMT DEF PayloadOK, Types, TypeData, TypePing, TypePong, TypeClose
  <2> QED BY <1>1, <1>3, <2>1, <2>2, AcceptedIfFits, Zenon
<1>4. ASSUME NEW t \in {TypePing, TypePong}, msg = Encode(t, [i \in 1 .. PingSize |-> i])
      PROVE  Parse(msg, m) # Refused
  <2>1. PICK p : p = [i \in 1 .. PingSize |-> i] OBVIOUS
  <2>2. p \in Seq(Byte) /\ Len(p) = PingSize
    <3>1. \A i \in 1 .. 8 : i \in Byte BY SMT DEF Byte
    <3> QED BY <2>1, <3>1, SMT DEF PingSize
  <2>3. t \in Types /\ PayloadOK(t, Len(p))
    BY <2>2, SMT DEF PayloadOK, Types, TypePing, TypePong, TypeClose
  <2>4. Len(p) <= m BY <1>1, <2>2, SMT DEF PingSize
  <2> QED BY <1>1, <1>4, <2>1, <2>2, <2>3, <2>4, AcceptedIfFits, Zenon
<1>5. ASSUME NEW r \in Reasons(2), msg = Encode(TypeClose, EncodeClose(0, FlattenSeq(r)))
      PROVE  Parse(msg, m) # Refused
  <2>1. r \in Seq(Rune) BY ReasonsAreRunes, SMT
  <2>2. IsCode(0) BY SMT DEF IsCode
  <2>3. PICK k : Most(r, k) BY <2>1, MostExists
  <2>4. PICK p : p = EncodeClose(0, FlattenSeq(r)) OBVIOUS
  <2>5. p \in Seq(Byte) /\ Len(p) = 2 + Offset(r, k) BY <2>1, <2>2, <2>3, <2>4, ReasonsRoundTrip
  <2>6. k \in 0 .. Len(r) /\ Offset(r, k) <= MaxCloseReason BY <2>3, Zenon DEF Most
  <2>7. PICK o \in Nat : o = Offset(r, k) BY <2>1, <2>6, OffsetNat, Zenon
  <2>8. Len(p) = 2 + o /\ o <= MaxCloseReason BY <2>5, <2>6, <2>7, Zenon
  <2>9. Len(p) <= m /\ Len(p) >= 2 BY <1>0, <1>1, <2>8, SMT
  <2>10. TypeClose \in Types /\ PayloadOK(TypeClose, Len(p))
    BY <2>9, SMT DEF PayloadOK, Types, TypePing, TypePong, TypeClose
  <2> QED BY <1>1, <1>5, <2>4, <2>5, <2>9, <2>10, AcceptedIfFits, Zenon
<1> QED BY <1>2, <1>3, <1>4, <1>5, Zenon

\* The codec does what both ends rely on, whatever the limits, payloads and
\* characters: no frame that Encode makes is lost or changed by Parse, no other
\* message is taken for it, and a close keeps its code and the characters that fit.
THEOREM CodecIsSound == CodecSound
  BY FramesAreExact, ReasonsAreWhole, ControlIsUnderstood DEF CodecSound

-----------------------------------------------------------------------------
(* The chunks of the stream.                                               *)

\* No frame of a Write is empty or exceeds the limit.
ChunksFit == \A i \in 1 .. Len(out) : out[i].t = "data" => Size(out[i]) \in 1 .. MaxPayload

LEMMA ChunkAppend ==
  ASSUME TypeOK, ChunksFit, NEW f, out' = Append(out, f), f.t = "data" => Size(f) \in 1 .. MaxPayload
  PROVE  ChunksFit'
<1>1. out \in Seq(Frames) BY DEF TypeOK
<1>2. /\ Len(out') = Len(out) + 1 /\ out'[Len(out) + 1] = f /\ Len(out) \in Nat
      /\ \A i \in 1 .. Len(out) : out'[i] = out[i]
  BY <1>1
<1>3. \A i \in 1 .. Len(out') : i \in 1 .. Len(out) \/ i = Len(out) + 1 BY <1>2
<1> QED BY <1>2, <1>3 DEF ChunksFit, Size

LEMMA ChunksWrite ==
  ASSUME WriteInv, ChunksFit, NEW w \in Writers, WriteCall(w) \/ WriteStep(w)
  PROVE  ChunksFit'
<1>0. /\ wlen \in [Writers -> Nat] /\ wn \in [Writers -> Nat] /\ MaxPayload \in Nat \ {0}
  <2>1. TypeOK BY DEF WriteInv
  <2> QED BY <2>1, BoundsAssumption, Zenon DEF TypeOK
<1>1. CASE WriteChunk(w)
  <2> DEFINE hi == Smaller(wlen[w], wn[w] + MaxPayload)
             f  == DataFrame(w, wn[w] + 1, hi)
  <2>1. wpc[w] = "chunk" /\ out' = Append(out, f) BY <1>1 DEF WriteChunk, ChannelWrite
  <2>2. wn[w] < wlen[w] BY <2>1 DEF WriteInv, ChunkInv
  <2>3. hi \in Nat /\ hi > wn[w] /\ hi <= wn[w] + MaxPayload /\ wn[w] \in Nat
    BY <1>0, <2>2 DEF Smaller
  <2>4. f.lo = wn[w] + 1 /\ f.hi = hi BY DEF DataFrame
  <2> HIDE DEF hi, f
  <2>5. Size(f) \in 1 .. MaxPayload BY <1>0, <2>3, <2>4 DEF Size
  <2>6. TypeOK BY DEF WriteInv
  <2> QED BY <2>1, <2>5, <2>6, ChunkAppend
<1>2. CASE WriteCall(w) \/ WriteLock(w) \/ WriteRefused(w) \/ WriteCheck(w) \/ WriteFail(w)
  <2>1. out' = out
    BY <1>2 DEF WriteCall, WriteLock, WriteRefused, WriteCheck, WriteFail, WriteReturns, outVars
  <2> QED BY <2>1 DEF ChunksFit, Size
<1> QED BY <1>1, <1>2 DEF WriteStep

LEMMA ChunksNext == WriteInv /\ ChunksFit /\ [Next]_vars => ChunksFit'
<1> SUFFICES ASSUME WriteInv, ChunksFit, [Next]_vars PROVE ChunksFit'
  OBVIOUS
<1>1. TypeOK BY DEF WriteInv
<1>2. ASSUME NotOfWrite PROVE ChunksFit'
  <2>1. CASE out' = out BY <2>1 DEF ChunksFit, Size
  <2>2. CASE \E f \in Frames : f.t # "data" /\ out' = Append(out, f) BY <1>1, <2>2, ChunkAppend
  <2> QED BY <1>2, <2>1, <2>2 DEF NotOfWrite
<1> QED BY <1>1, <1>2, OthersSendNoData, ChunksWrite

\* A chunk that fits is what the peer's Parse makes of it.
LEMMA ChunkIsExact ==
  ASSUME NEW n \in 1 .. MaxPayload
  PROVE  Parse(Encode(TypeData, Bytes(n)), MaxPayload) = [type |-> TypeData, payload |-> Bytes(n)]
<1>1. MaxPayload \in Nat /\ n \in Nat /\ n <= MaxPayload BY BoundsAssumption, SMT
<1>2. PICK p : p = Bytes(n) OBVIOUS
<1>3. p \in Seq(Byte) /\ Len(p) = n
  <2>1. \A i \in 1 .. n : (i % 256) \in Byte BY <1>1, SMT DEF Byte
  <2> QED BY <1>1, <1>2, <2>1, SMT DEF Bytes
<1>4. PayloadOK(TypeData, Len(p))
  BY SMT DEF PayloadOK, TypeData, TypePing, TypePong, TypeClose
<1>5. Len(p) <= MaxPayload BY <1>1, <1>3, Zenon
<1>6. Parse(Encode(TypeData, p), MaxPayload) = [type |-> TypeData, payload |-> p]
  BY <1>1, <1>3, <1>4, <1>5, TypesAreBytes, WireAssumption, AcceptedIfFits
<1> QED BY <1>2, <1>6, Zenon

LEMMA ChunksAreExact == ChunksFit => ChunksExact
<1> SUFFICES ASSUME ChunksFit, NEW i \in 1 .. Len(out), out[i].t = "data"
             PROVE  Parse(Encode(TypeData, Bytes(Size(out[i]))), MaxPayload)
                      = [type |-> TypeData, payload |-> Bytes(Size(out[i]))]
  BY Zenon DEF ChunksExact
<1>1. Size(out[i]) \in 1 .. MaxPayload BY Zenon DEF ChunksFit
<1> QED BY <1>1, ChunkIsExact, Zenon

\* Every frame that a stream puts on its channel, chunks of any Write included, is
\* taken by the peer for what it is: the codec loses, adds and confuses nothing.
THEOREM WireIsExact == Spec => []WireExact
<1>1. Init => ChunksFit
  <2>1. ASSUME Init PROVE ChunksFit
    <3>1. out = <<>> BY <2>1 DEF Init
    <3> QED BY <3>1 DEF ChunksFit
  <2> QED BY <2>1
<1>2. ChunksFit => WireExact BY ChunksAreExact, CodecIsSound DEF WireExact
<1> QED BY <1>1, <1>2, WriteInit, WriteNext, ChunksNext, PTL DEF Spec
=============================================================================
