-------------------------------- MODULE Wire --------------------------------
(***************************************************************************)
(* The stream composed with the codec of its frames: Encode in Write and   *)
(* writeControl, Parse in readLoop (internal/frame/stream.go).             *)
(***************************************************************************)
EXTENDS Stream, Frame

\* The configuration refuses a larger FramePayload (config.go:282).
ASSUME WireAssumption == MaxPayload <= PayloadLimit

\* A payload of n bytes.
Bytes(n) == [i \in 1 .. n |-> i % 256]

\* A chunk of a Write, cut at the limit, is what a peer with the same limit takes
\* for that chunk.
ChunksExact ==
  \A i \in 1 .. Len(out) :
    out[i].t = "data" =>
      Parse(Encode(TypeData, Bytes(Size(out[i]))), MaxPayload)
        = [type |-> TypeData, payload |-> Bytes(Size(out[i]))]

\* The codec loses or adds nothing on any frame, and every chunk gets through it
\* (Encode in Write and writeControl, Parse in readLoop).
WireExact == CodecSound /\ ChunksExact
=============================================================================
