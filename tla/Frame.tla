-------------------------------- MODULE Frame --------------------------------
(***************************************************************************)
(* The codec of the stream's frames (internal/frame/frame.go): a header of *)
(* version, type, flags and length, and the payload; and the payload of a  *)
(* close frame, a code and a reason.  Bytes are numbers, a message is a    *)
(* sequence of them.                                                       *)
(***************************************************************************)
EXTENDS Integers, Sequences, SequencesExt

CONSTANTS
  PayloadLimit,   \* the largest payload, whatever is configured
  MaxCloseReason, \* the longest reason, in bytes
  TestPayloads,   \* payloads to encode
  TestRunes       \* UTF-8 characters, each a sequence of bytes

Byte == 0 .. 255

HeaderSize == 8
PingSize   == 8
Version    == 1

TypeData  == 1
TypePing  == 2
TypePong  == 3
TypeClose == 4
Types     == {TypeData, TypePing, TypePong, TypeClose}

\* What is not a frame, or not a close payload.
Refused == <<>>

\* Big-endian numbers.
PutUint16(n) == <<(n \div 256) % 256, n % 256>>
PutUint32(n) == <<(n \div 16777216) % 256, (n \div 65536) % 256, (n \div 256) % 256, n % 256>>
Uint16(b)    == 256 * b[1] + b[2]
Uint32(b)    == 16777216 * b[1] + 65536 * b[2] + 256 * b[3] + b[4]

\* Numbers that fit four bytes, as far as TLC counts.
IsLength(n) == n \in Nat /\ n <= 2147483647

-----------------------------------------------------------------------------
(* Encode, and Append, which adds the same bytes to a buffer.              *)

Encode(t, payload) ==
  IF Len(payload) > PayloadLimit THEN Refused
  ELSE <<Version, t>> \o PutUint16(0) \o PutUint32(Len(payload)) \o payload

-----------------------------------------------------------------------------
(* Parse.                                                                  *)

Header(msg) == [version |-> msg[1], type |-> msg[2],
                flags |-> Uint16(SubSeq(msg, 3, 4)), length |-> Uint32(SubSeq(msg, 5, 8))]

\* Mutant of HeaderOK: bytes after the payload are ignored.
HeaderLenient(hdr, size, limit) ==
  /\ hdr.version = Version /\ hdr.type \in Types /\ hdr.flags = 0
  /\ hdr.length <= limit /\ hdr.length <= size - HeaderSize

HeaderOK(hdr, size, limit) ==
  /\ hdr.version = Version /\ hdr.type \in Types /\ hdr.flags = 0
  /\ hdr.length <= limit /\ hdr.length = size - HeaderSize

PayloadOK(t, n) ==
  /\ t \in {TypePing, TypePong} => n = PingSize
  /\ t = TypeClose => n >= 2

Parse(msg, maxPayload) ==
  LET limit == IF maxPayload < 0 \/ maxPayload > PayloadLimit THEN PayloadLimit ELSE maxPayload
      hdr   == Header(msg)
  IN  IF /\ Len(msg) >= HeaderSize
         /\ HeaderOK(hdr, Len(msg), limit)
         /\ PayloadOK(hdr.type, hdr.length)
      THEN [type |-> hdr.type, payload |-> SubSeq(msg, HeaderSize + 1, HeaderSize + hdr.length)]
      ELSE Refused

-----------------------------------------------------------------------------
(* The close payload.                                                      *)

\* One UTF-8 character (unicode/utf8, external).
IsRune(b) ==
  /\ \/ Len(b) = 1 /\ b[1] \in 0 .. 127
     \/ Len(b) = 2 /\ b[1] \in 194 .. 223
     \/ Len(b) = 3 /\ b[1] \in 224 .. 239
     \/ Len(b) = 4 /\ b[1] \in 240 .. 244
  /\ \A i \in 2 .. Len(b) : b[i] \in 128 .. 191
  /\ b[1] = 224 => b[2] >= 160
  /\ b[1] = 237 => b[2] <= 159
  /\ b[1] = 240 => b[2] >= 144
  /\ b[1] = 244 => b[2] <= 143

Rune == {b \in Seq(Byte) : IsRune(b)}

\* A length fits its field (the code's limit is 2^18); what is encoded is bytes, and
\* a reason is a string of whole characters.
ASSUME CodecAssumption ==
  /\ IsLength(PayloadLimit)
  /\ MaxCloseReason \in Nat
  /\ TestPayloads \subseteq Seq(Byte)
  /\ TestRunes \subseteq Rune

Valid(b) ==
  LET from[i \in 1 .. Len(b) + 1] ==
        \/ i = Len(b) + 1
        \/ \E w \in 1 .. 4 : /\ i + w <= Len(b) + 1
                             /\ IsRune(SubSeq(b, i, i + w - 1))
                             /\ from[i + w]
  IN  from[1]

\* A long reason is cut to its limit, and then byte by byte until it is valid.
Truncated(reason) ==
  LET cut == CHOOSE n \in 0 .. MaxCloseReason :
               /\ Valid(SubSeq(reason, 1, n))
               /\ \A m \in n + 1 .. MaxCloseReason : ~Valid(SubSeq(reason, 1, m))
  IN  IF Len(reason) > MaxCloseReason THEN SubSeq(reason, 1, cut) ELSE reason

EncodeClose(code, reason) == PutUint16(code) \o Truncated(reason)

ParseClose(payload) ==
  LET reason == SubSeq(payload, 3, Len(payload))
  IN  IF Len(payload) >= 2 /\ Len(reason) <= MaxCloseReason /\ Valid(reason)
      THEN [code |-> Uint16(SubSeq(payload, 1, 2)), reason |-> reason]
      ELSE Refused

-----------------------------------------------------------------------------
(* Properties.                                                             *)

\* A message with one byte changed, added or lost.
Damaged(msg) ==
  {[msg EXCEPT ![i] = b] : i \in 1 .. Len(msg), b \in 0 .. 5}
    \cup {Append(msg, 0)} \cup {SubSeq(msg, 1, n) : n \in 0 .. Len(msg) - 1}

\* A frame that may be sent is the one that is received, up to the limit of
\* either end; and there is one message for a frame: what is accepted, after
\* whatever damage, is what Encode makes of it.
FramesExact ==
  \A t \in Types, p \in TestPayloads :
    LET msg == Encode(t, p)
    IN  msg # Refused =>
          /\ \A limit \in {-1, Len(p) - 1, Len(p), PayloadLimit + 1} :
               Parse(msg, limit)
                 = IF PayloadOK(t, Len(p)) /\ (limit < 0 \/ Len(p) <= limit)
                   THEN [type |-> t, payload |-> p] ELSE Refused
          /\ \A m \in Damaged(msg) :
               Parse(m, PayloadLimit) # Refused =>
                 m = Encode(Parse(m, PayloadLimit).type, Parse(m, PayloadLimit).payload)

\* The reasons of up to k characters.
Reasons(k) == UNION {[1 .. n -> TestRunes] : n \in 0 .. k}

\* A close payload is always accepted by the peer, with its code and with as many
\* whole characters of the reason as fit, wherever the limit falls.
ReasonsWhole ==
  \A code \in {0, 3, 257}, r \in Reasons(MaxCloseReason + 1) :
    LET fits == {n \in 0 .. Len(r) : Len(FlattenSeq(SubSeq(r, 1, n))) <= MaxCloseReason}
        most == CHOOSE n \in fits : \A m \in fits : m <= n
    IN  ParseClose(EncodeClose(code, FlattenSeq(r)))
          = [code |-> code, reason |-> FlattenSeq(SubSeq(r, 1, most))]

\* What a stream with payload limit m sends: chunks, probes and their answers, and
\* a close.
Sent(m) ==
  {Encode(TypeData, p) : p \in {q \in TestPayloads : Len(q) <= m}}
    \cup {Encode(t, [i \in 1 .. PingSize |-> i]) : t \in {TypePing, TypePong}}
    \cup {Encode(TypeClose, EncodeClose(0, FlattenSeq(r))) : r \in Reasons(2)}

\* Two ends with the same limit understand each other, ...
Understood(m) == \A msg \in Sent(m) : Parse(msg, m) # Refused

\* ... provided that control frames fit it too.  FramePayload may be smaller
\* (config.go:282 takes anything above 0): then the first probe ends the session.
ControlFits == \A m \in 1 .. PayloadLimit : m >= PingSize /\ m >= 2 + MaxCloseReason => Understood(m)

\* The codec, header and close payload, does what both ends rely on.
CodecSound == FramesExact /\ ReasonsWhole /\ ControlFits
=============================================================================
