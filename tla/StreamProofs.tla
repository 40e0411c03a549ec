---------------------------- MODULE StreamProofs ----------------------------
(***************************************************************************)
(* What TLAPS proves of Stream, for every number of callers, every bound   *)
(* and every behaviour of the peer.                                        *)
(***************************************************************************)
EXTENDS Stream, TLAPS

(* The write side.  Who holds the write lock is read off the program       *)
(* counters; a Write that has sent a part of its bytes sent the last frame *)
(* on the wire; a Write in its loop has seen the stream open.              *)

LockInv ==
  /\ \A w \in Writers : wsem = w <=> wpc[w] \in {"check", "chunk"}
  /\ \A p \in Pingers : wsem = p <=> ppc[p] = "send"
  /\ \A c \in Closers : wsem = c <=> cpc[c] = "frame"
  /\ wsem = Loop <=> lpc = "pongSend"

ChunkInv ==
  \A w \in Writers :
    /\ wpc[w] \in {"lock", "check"} => wlen[w] > 0
    /\ wpc[w] \in {"idle", "lock", "check"} => wn[w] = 0
    /\ wpc[w] = "chunk" => wn[w] < wlen[w]
    /\ wpc[w] = "chunk" /\ wn[w] > 0 =>
         /\ Len(out) > 0
         /\ out[Len(out)].t = "data"
         /\ out[Len(out)].by = w
         /\ out[Len(out)].hi = wn[w]

LocalCloseSent == \E i \in 1 .. Len(out) : out[i].t = "close" /\ mode[out[i].by] = "close"

CloseInv ==
  /\ \A c \in Closers :
       mode[c] = "close" /\ cpc[c] \in {"term", "frame", "finish", "done"} => closed
  /\ \A i \in 1 .. Len(out) : out[i].t = "close" =>
       out[i].by \in Closers /\ cpc[out[i].by] \in {"finish", "done"}
  /\ LocalCloseSent => closed /\ \A w \in Writers : wpc[w] # "chunk"

WriteInv == /\ TypeOK /\ LockInv /\ ChunkInv /\ CloseInv
            /\ WriteContiguous /\ NoDataAfterClose

(* The read side.  The bytes received form one chain: returned, rest of    *)
(* the current payload, queue, the payload the read loop holds.            *)

CurEnd   == IF cur = NoData THEN ReadSoFar ELSE cur.hi
QueueEnd == IF dataCh = <<>> THEN CurEnd ELSE dataCh[Len(dataCh)].hi

ChainInv ==
  /\ cur # NoData => cur.lo = ReadSoFar + 1 /\ cur.lo <= cur.hi
  /\ \A i \in 1 .. Len(dataCh) :
       /\ dataCh[i].lo = (IF i = 1 THEN CurEnd ELSE dataCh[i - 1].hi) + 1
       /\ dataCh[i].lo <= dataCh[i].hi
  /\ lpc = "enqueue" => held.lo = QueueEnd + 1 /\ held.lo <= held.hi /\ held.hi = rcvd
  /\ lpc \in {"read", "pongLock", "pongSend"} => rcvd = QueueEnd

ReadInv == TypeOK /\ ChainInv /\ ReadsInOrder

-----------------------------------------------------------------------------
(* Type correctness.                                                       *)

LEMMA TypeInit == Init => TypeOK
<1> SUFFICES ASSUME Init PROVE TypeOK
  OBVIOUS
<1> USE CallsAssumption, BoundsAssumption
<1>1. /\ rpc \in [Readers -> {"idle", "lock", "poll", "wait"}]
      /\ rres \in [Readers -> Errors]
      /\ wpc \in [Writers -> {"idle", "lock", "check", "chunk", "done"}]
      /\ wlen \in [Writers -> Nat] /\ wn \in [Writers -> Nat]
      /\ wres \in [Writers -> Errors]
      /\ ppc \in [Pingers -> {"idle", "lock", "send", "await", "answered", "failed"}]
      /\ cpc \in [Closers -> {"idle", "local", "term", "frame", "finish", "done"}]
      /\ mode \in [Closers -> AllCloseModes]
  BY DEF Init, Errors, AllCloseModes
<1>2. drain \in [Closers -> BOOLEAN]
  BY DEF Init
<1>3. /\ cur \in Payloads /\ held \in Payloads /\ dataCh \in Seq(Payloads) /\ Len(dataCh) <= Depth
      /\ got \in Seq(Payloads) /\ in \in Seq(InFrames) /\ out \in Seq(Frames)
      /\ rpos \in Nat /\ rpos <= Len(in) /\ acked \in Nat /\ acked <= Len(out)
  BY DEF Init, Payloads, NoData
<1>4. /\ dataClosed \in BOOLEAN /\ closed \in BOOLEAN /\ term \in BOOLEAN
      /\ done \in BOOLEAN /\ released \in BOOLEAN /\ remoteClose \in BOOLEAN
      /\ timedOut \in BOOLEAN /\ chClosed \in BOOLEAN /\ rdl \in BOOLEAN /\ wdl \in BOOLEAN
  BY DEF Init
<1> QED BY <1>1, <1>2, <1>3, <1>4 DEF Init, TypeOK, Errors, Holders

LEMMA ReadTyped == ASSUME TypeOK, NEW r \in Readers, ReadCall(r) \/ ReadStep(r) PROVE TypeOK'
<1> USE CallsAssumption, BoundsAssumption
        DEF readVars, queueVars, writeVars, pingVars, closeVars, errVars,
            loopVars, relVars, inVars, outVars, dlVars
<1>1. CASE ReadCall(r) BY <1>1 DEF TypeOK, ReadCall
<1>2. CASE ReadLock(r) BY <1>2 DEF TypeOK, ReadLock
<1>3. ASSUME NEW e \in Errors, ReadReturns(r, e) PROVE TypeOK'
  BY <1>3 DEF TypeOK, ReadReturns
<1>4. CASE ReadRefused(r) BY <1>3, <1>4 DEF ReadRefused, Errors
<1>5. ASSUME NEW b \in Payloads, Copy(r, b), dataCh' \in Seq(Payloads), Len(dataCh') <= Depth PROVE TypeOK'
  <2>1. PICK n \in 1 .. MaxRead :
          LET hi == Smaller(b.hi, b.lo + n - 1)
          IN  /\ got' = Append(got, [lo |-> b.lo, hi |-> hi])
              /\ cur' = IF hi = b.hi THEN NoData ELSE [lo |-> hi + 1, hi |-> b.hi]
    BY <1>5 DEF Copy
  <2>2. got' \in Seq(Payloads) /\ cur' \in Payloads
    BY <2>1, <1>5, SMTT(30) DEF TypeOK, Payloads, Smaller, NoData
  <2>3. /\ rpc' = [rpc EXCEPT ![r] = "idle"]
        /\ rres' = [rres EXCEPT ![r] = "nil"]
        /\ rsem' = None
        /\ UNCHANGED <<dataClosed, writeVars, wsem, pingVars, closeVars, errVars,
                       loopVars, relVars, inVars, outVars, dlVars>>
    BY <1>5 DEF Copy
  <2>4. /\ rpc' \in [Readers -> {"idle", "lock", "poll", "wait"}]
        /\ rres' \in [Readers -> Errors]
    BY <2>3 DEF TypeOK, Errors
  <2> QED BY <2>2, <2>3, <2>4, <1>5 DEF TypeOK
<1>6. CASE ReadCur(r)
  BY <1>5, <1>6 DEF ReadCur, TypeOK
<1>7. CASE ReadTake(r)
  <2>1. Head(dataCh) \in Payloads /\ dataCh' \in Seq(Payloads) /\ Len(dataCh') <= Depth
    BY <1>7 DEF ReadTake, TypeOK
  <2> QED BY <2>1, <1>5, <1>7 DEF ReadTake
<1>8. CASE ReadEnd(r) \/ ReadClosed(r) \/ ReadExpired(r)
  BY <1>3, <1>8 DEF ReadEnd, ReadClosed, ReadExpired, TerminalErr, TypeOK, Errors
<1>9. CASE ReadBlock(r) BY <1>9 DEF TypeOK, ReadBlock
<1> QED BY <1>1, <1>2, <1>4, <1>6, <1>7, <1>8, <1>9 DEF ReadStep

LEMMA WriteTyped == ASSUME TypeOK, NEW w \in Writers, WriteCall(w) \/ WriteStep(w) PROVE TypeOK'
<1> USE CallsAssumption, BoundsAssumption
        DEF readVars, queueVars, writeVars, pingVars, closeVars, errVars,
            loopVars, relVars, inVars, outVars, dlVars
<1>0. Writable \in Errors /\ WriteTerminalErr \in Errors
      /\ \A e \in Errors : MapWriteErr(e) \in Errors
  BY DEF Writable, WriteTerminalErr, TerminalErr, MapWriteErr, Errors, TypeOK
<1>1. CASE WriteCall(w)
  <2>1. PICK n \in WriteSizes :
          /\ wlen' = [wlen EXCEPT ![w] = n]
          /\ wpc' = [wpc EXCEPT ![w] = IF n = 0 THEN "done" ELSE "lock"]
          /\ wres' = [wres EXCEPT ![w] = IF n = 0 THEN Writable ELSE "nil"]
    BY <1>1 DEF WriteCall
  <2>2. /\ wlen' \in [Writers -> Nat]
        /\ wpc' \in [Writers -> {"idle", "lock", "check", "chunk", "done"}]
        /\ wres' \in [Writers -> Errors]
    BY <1>0, <2>1 DEF TypeOK, Errors
  <2> QED BY <1>1, <2>2 DEF TypeOK, WriteCall
<1>2. CASE WriteLock(w) BY <1>2 DEF TypeOK, WriteLock, Holders
<1>3. ASSUME NEW e \in Errors, WriteReturns(w, e) PROVE TypeOK'
  BY <1>3 DEF TypeOK, WriteReturns, Holders
<1>4. CASE WriteRefused(w) BY <1>0, <1>3, <1>4 DEF WriteRefused, Errors
<1>5. CASE WriteCheck(w)
  <2>1. CASE Writable = "nil"
    <3>1. /\ wpc' = [wpc EXCEPT ![w] = "chunk"]
          /\ UNCHANGED <<readVars, queueVars, wlen, wn, wres, wsem, pingVars, closeVars,
                         errVars, loopVars, relVars, inVars, outVars, dlVars>>
      BY <1>5, <2>1 DEF WriteCheck
    <3> QED BY <3>1 DEF TypeOK
  <2>2. CASE Writable # "nil" BY <1>0, <1>3, <1>5, <2>2 DEF WriteCheck
  <2> QED BY <2>1, <2>2
<1>6. CASE WriteChunk(w)
  <2> DEFINE hi == Smaller(wlen[w], wn[w] + MaxPayload)
  <2>1. hi \in Nat /\ wn[w] + 1 \in Nat BY DEF TypeOK, Smaller
  <2>2. DataFrame(w, wn[w] + 1, hi) \in Frames BY <2>1 DEF DataFrame, Frames
  <2>3. out' \in Seq(Frames) /\ acked' \in Nat /\ acked' <= Len(out')
    BY <1>6, <2>2 DEF WriteChunk, ChannelWrite, TypeOK
  <2>4. /\ wn' \in [Writers -> Nat]
        /\ wpc' \in [Writers -> {"idle", "lock", "check", "chunk", "done"}]
        /\ wsem' \in Holders
    BY <1>6, <2>1 DEF WriteChunk, TypeOK, Holders
  <2> QED BY <1>6, <2>3, <2>4, SMTT(30) DEF WriteChunk, TypeOK
<1>7. CASE WriteFail(w)
  <2>1. PICK e \in ChannelWriteErr(wdl) : WriteReturns(w, MapWriteErr(e))
    BY <1>7 DEF WriteFail
  <2>2. e \in Errors BY <2>1 DEF ChannelWriteErr, Errors
  <2> QED BY <1>0, <1>3, <2>1, <2>2
<1> QED BY <1>1, <1>2, <1>4, <1>5, <1>6, <1>7 DEF WriteStep

LEMMA PingTyped == ASSUME TypeOK, NEW p \in Pingers, PingCall(p) \/ PingStep(p) PROVE TypeOK'
<1> USE CallsAssumption, BoundsAssumption
        DEF readVars, queueVars, writeVars, pingVars, closeVars, errVars,
            loopVars, relVars, inVars, outVars, dlVars
<1>1. CASE PingCall(p) BY <1>1 DEF TypeOK, PingCall
<1>2. CASE PingLock(p) BY <1>2 DEF TypeOK, PingLock, Holders
<1>3. CASE PingSend(p)
  <2>1. PingFrame(p) \in Frames BY DEF PingFrame, Frames
  <2>2. out' \in Seq(Frames) /\ acked' \in Nat /\ acked' <= Len(out')
    BY <1>3, <2>1 DEF PingSend, ChannelWrite, TypeOK
  <2> QED BY <1>3, <2>2 DEF PingSend, TypeOK, Holders
<1>4. ASSUME NEW how \in {"answered", "failed"}, PingReturns(p, how) PROVE TypeOK'
  BY <1>4 DEF TypeOK, PingReturns, Holders
<1>5. CASE PingFail(p) \/ PingDone(p) BY <1>4, <1>5 DEF PingFail, PingDone
<1> QED BY <1>1, <1>2, <1>3, <1>5 DEF PingStep

LEMMA LoopTyped == ASSUME TypeOK, LoopStep PROVE TypeOK'
<1> USE CallsAssumption, BoundsAssumption
        DEF readVars, queueVars, writeVars, pingVars, closeVars, errVars,
            loopVars, relVars, inVars, outVars, dlVars
<1>0. ASSUME NEW e \in Errors, LoopExits(e) PROVE readErr' \in Errors /\ lpc' = "exit"
  BY <1>0 DEF LoopExits, SetReadErr, TypeOK
<1>1. CASE LoopRead
  <2> DEFINE f == in[rpos + 1]
  <2>1. f \in InFrames /\ rpos' \in Nat /\ rpos' <= Len(in)
    BY <1>1 DEF LoopRead, TypeOK
  <2>2. CASE LoopData(f)
    <3>1. f.lo \in Nat /\ f.hi \in Nat /\ Size(f) \in Nat
      BY <2>1, <2>2 DEF LoopData, InFrames, Frames, Size
    <3>a. rcvd \in Nat /\ held \in Payloads
      BY DEF TypeOK
    <3>b. PICK n \in Nat : n = Size(f)
      BY <3>1
    <3>c. held' = held \/ held' = [lo |-> rcvd + 1, hi |-> rcvd + n]
      BY <2>2, <3>b DEF LoopData
    <3>d. rcvd' = rcvd + n
      BY <2>2, <3>b DEF LoopData
    <3>2. held' \in Payloads /\ rcvd' \in Nat
      BY <3>a, <3>c, <3>d DEF Payloads
    <3> QED BY <1>1, <2>1, <2>2, <3>2, SMTT(30) DEF LoopRead, LoopData, TypeOK
  <2>3. CASE LoopPing(f)
    <3>1. ponging' \in Pingers \cup Closers \cup {None}
      BY <2>1, <2>3 DEF LoopPing, InFrames, Frames
    <3> QED BY <1>1, <2>1, <2>3, <3>1 DEF LoopRead, LoopPing, TypeOK
  <2>4. CASE LoopPong(f)
    BY <1>1, <2>1, <2>4, SMTT(30) DEF LoopRead, LoopPong, DeliverPong, TypeOK
  <2>5. CASE LoopClose(f)
    BY <1>0, <1>1, <2>1, <2>5 DEF LoopRead, LoopClose, TypeOK, Errors
  <2>6. CASE LoopBad(f)
    BY <1>0, <1>1, <2>1, <2>6 DEF LoopRead, LoopBad, TypeOK, Errors
  <2> QED BY <1>1, <2>2, <2>3, <2>4, <2>5, <2>6 DEF LoopRead
<1>2. CASE LoopReadErr
  <2>1. PICK e \in ReadErrors : LoopExits(e) BY <1>2 DEF LoopReadErr
  <2>2. e \in Errors BY <2>1 DEF ReadErrors, Errors
  <2>3. readErr' \in Errors /\ lpc' = "exit" BY <1>0, <2>1, <2>2
  <2> QED BY <1>2, <2>3 DEF LoopReadErr, TypeOK
<1>3. CASE LoopEnqueue
  <2>1. dataCh' \in Seq(Payloads) /\ Len(dataCh') <= Depth /\ held' \in Payloads
    BY <1>3 DEF LoopEnqueue, TypeOK, Payloads, NoData
  <2> QED BY <1>3, <2>1 DEF LoopEnqueue, TypeOK
<1>4. CASE LoopDrop
  BY <1>0, <1>4 DEF LoopDrop, TypeOK, Payloads, NoData, Errors
<1>5. CASE LoopPongLock BY <1>5 DEF LoopPongLock, TypeOK, Holders
<1>6. CASE LoopPongRefused
  <2>1. readErr' \in Errors /\ lpc' \in {"read", "exit"}
    BY <1>0, <1>6 DEF LoopPongRefused, TypeOK, Errors
  <2> QED BY <1>6, <2>1 DEF LoopPongRefused, TypeOK
<1>7. CASE LoopPongSend
  <2>1. PongFrame(ponging) \in Frames BY DEF PongFrame, Frames, TypeOK
  <2>2. out' \in Seq(Frames) /\ acked' \in Nat /\ acked' <= Len(out')
    BY <1>7, <2>1 DEF LoopPongSend, ChannelWrite, TypeOK
  <2> QED BY <1>7, <2>2 DEF LoopPongSend, TypeOK, Holders
<1>8. CASE LoopPongFail
  <2>1. PICK e \in ChannelWriteErr(ChannelFull) : LoopExits(MapWriteErr(e))
    BY <1>8 DEF LoopPongFail
  <2>2. MapWriteErr(e) \in Errors
    BY <2>1 DEF ChannelWriteErr, MapWriteErr, WriteTerminalErr, TerminalErr, TypeOK, Errors
  <2>3. readErr' \in Errors /\ lpc' = "exit" BY <1>0, <2>1, <2>2
  <2> QED BY <1>8, <2>3 DEF LoopPongFail, TypeOK, Holders
<1>9. CASE LoopCloseData BY <1>9 DEF LoopCloseData, TypeOK
<1>10. CASE LoopDone BY <1>10 DEF LoopDone, TypeOK
<1> QED BY <1>1, <1>2, <1>3, <1>4, <1>5, <1>6, <1>7, <1>8, <1>9, <1>10
       DEF LoopStep

LEMMA CloseTyped == ASSUME TypeOK, NEW c \in Closers, CloseCall(c) \/ CloseStep(c) PROVE TypeOK'
<1> USE CallsAssumption, BoundsAssumption
        DEF readVars, queueVars, writeVars, pingVars, closeVars, errVars,
            loopVars, relVars, inVars, outVars, dlVars
<1>1. CASE CloseCall(c)
  <2>1. PICK m \in CloseModes :
          /\ mode' = [mode EXCEPT ![c] = m]
          /\ drain' = [drain EXCEPT ![c] = m = "close" /\ readErr = "nil"]
          /\ cpc' = [cpc EXCEPT ![c] = IF m = "close" THEN "local" ELSE "term"]
          /\ readErr' = IF m = "eof" THEN "EOF" ELSE readErr
    BY <1>1 DEF CloseCall
  <2>2. drain' \in [Closers -> BOOLEAN]
    <3> DEFINE d == m = "close" /\ readErr = "nil"
    <3>1. d \in BOOLEAN OBVIOUS
    <3>2. drain \in [Closers -> BOOLEAN] BY DEF TypeOK
    <3>3. drain' = [drain EXCEPT ![c] = d] BY <2>1
    <3> HIDE DEF d
    <3> QED BY <3>1, <3>2, <3>3, Zenon
  <2>3. /\ mode' \in [Closers -> AllCloseModes]
        /\ cpc' \in [Closers -> {"idle", "local", "term", "frame", "finish", "done"}]
        /\ readErr' \in Errors
    BY <2>1 DEF TypeOK, Errors
  <2> QED BY <1>1, <2>2, <2>3 DEF TypeOK, CloseCall
<1>2. CASE CloseLocal(c)
  <2>1. readErr' \in Errors /\ closed' \in BOOLEAN /\ mustAck' \in Nat
    <3>1. CASE closed BY <1>2, <3>1 DEF CloseLocal, TypeOK
    <3>2. CASE ~closed
      <4>1. SetReadErr("closed") /\ closed' = TRUE /\ mustAck' = Len(out)
        BY <1>2, <3>2, Zenon DEF CloseLocal
      <4> QED BY <4>1 DEF SetReadErr, TypeOK, Errors
    <3> QED BY <3>1, <3>2
  <2> QED BY <1>2, <2>1 DEF CloseLocal, TypeOK
<1>3. CASE CloseTerm(c) BY <1>3 DEF CloseTerm, TypeOK, Holders
<1>4. CASE CloseAgain(c) BY <1>4 DEF CloseAgain, TypeOK
<1>5. CASE CloseSend(c)
  <2>1. CloseFrame(c) \in Frames BY DEF CloseFrame, Frames
  <2>2. out' \in Seq(Frames) /\ acked' \in Nat /\ acked' <= Len(out')
    <3>1. CASE ChannelWrite(CloseFrame(c)) BY <2>1, <3>1 DEF ChannelWrite, TypeOK
    <3>2. CASE UNCHANGED outVars BY <3>2 DEF TypeOK
    <3> QED BY <1>5, <3>1, <3>2 DEF CloseSend
  <2> QED BY <1>5, <2>2 DEF CloseSend, TypeOK, Holders
<1>6. CASE CloseFinish(c)
  <2>1. readErr' \in Errors BY <1>6 DEF CloseFinish, SetReadErr, TypeOK, Errors
  <2> QED BY <1>6, <2>1 DEF CloseFinish, TypeOK
<1> QED BY <1>1, <1>2, <1>3, <1>4, <1>5, <1>6 DEF CloseStep

LEMMA OtherTyped ==
  ASSUME TypeOK, ReleaseStep \/ SetReadDeadline \/ SetWriteDeadline \/ Environment
  PROVE  TypeOK'
<1> USE CallsAssumption, BoundsAssumption
        DEF readVars, queueVars, writeVars, pingVars, closeVars, errVars,
            loopVars, relVars, inVars, outVars, dlVars
<1>1. CASE ReleaseWait BY <1>1 DEF ReleaseWait, TypeOK
<1>2. CASE ReleaseDrained
  <2>1. timedOut' \in BOOLEAN /\ rel' = "closeCh" BY <1>2 DEF ReleaseDrained, TypeOK
  <2> QED BY <1>2, <2>1 DEF ReleaseDrained, TypeOK
<1>9. CASE ReleaseClose BY <1>9 DEF ReleaseClose, TypeOK
<1>3. CASE ReleaseDiscard BY <1>3 DEF ReleaseDiscard, TypeOK
<1>4. CASE SetReadDeadline BY <1>4 DEF SetReadDeadline, TypeOK
<1>5. CASE SetWriteDeadline BY <1>5 DEF SetWriteDeadline, TypeOK
<1>6. CASE PeerSend
  <2>1. PICK f \in PeerFrames : in' = Append(in, f) BY <1>6 DEF PeerSend
  <2>2. f \in InFrames
    <3>1. CASE f \in {DataFrame(None, 1, n) : n \in PeerSizes}
      BY <3>1 DEF DataFrame, InFrames, Frames
    <3>2. CASE f \in {[t |-> k, by |-> None] : k \in PeerControl}
      BY <3>2 DEF InFrames, Frames
    <3>3. CASE \E p \in Pingers : f = PongFrame(p)
      BY <3>3 DEF PongFrame, InFrames, Frames
    <3> QED BY <2>1, <3>1, <3>2, <3>3 DEF PeerFrames
  <2>3. in' \in Seq(InFrames) /\ rpos' \in Nat /\ rpos' <= Len(in')
    BY <1>6, <2>1, <2>2 DEF PeerSend, TypeOK
  <2> QED BY <1>6, <2>3 DEF PeerSend, TypeOK
<1>7. CASE PeerEnd BY <1>7 DEF PeerEnd, TypeOK
<1>8. CASE PeerAck BY <1>8 DEF PeerAck, TypeOK
<1> QED BY <1>1, <1>2, <1>3, <1>4, <1>5, <1>6, <1>7, <1>8, <1>9
       DEF ReleaseStep, Environment

LEMMA TypeStutter == TypeOK /\ UNCHANGED vars => TypeOK'
  BY DEF TypeOK, vars, readVars, queueVars, writeVars, pingVars, closeVars, errVars,
         loopVars, relVars, inVars, outVars, dlVars

LEMMA TypeNext == TypeOK /\ [Next]_vars => TypeOK'
  BY ReadTyped, WriteTyped, PingTyped, LoopTyped, CloseTyped, OtherTyped, TypeStutter
     DEF Next, Calls, Steps

\* Every variable keeps its type, and the receive queue its capacity, in every
\* behaviour of the stream.
THEOREM TypeCorrect == Spec => []TypeOK
  BY TypeInit, TypeNext, PTL DEF Spec

-----------------------------------------------------------------------------
(* The write side.                                                         *)

\* A frame may be added when it continues the last one or begins a Write.
LEMMA ContiguousAppend ==
  ASSUME TypeOK, WriteContiguous, NEW f \in Frames, out' = Append(out, f),
         f.t = "data" => \/ f.lo = 1
                         \/ /\ Len(out) > 0
                            /\ out[Len(out)].t = "data"
                            /\ out[Len(out)].by = f.by
                            /\ out[Len(out)].hi = f.lo - 1
  PROVE  WriteContiguous'
<1>1. /\ Len(out') = Len(out) + 1
      /\ out'[Len(out) + 1] = f
      /\ \A i \in 1 .. Len(out) : out'[i] = out[i]
      /\ Len(out) \in Nat
  BY DEF TypeOK
<1> SUFFICES ASSUME NEW i \in 1 .. Len(out'), out'[i].t = "data"
             PROVE  \/ out'[i].lo = 1
                    \/ /\ i > 1
                       /\ out'[i - 1].t = "data"
                       /\ out'[i - 1].by = out'[i].by
                       /\ out'[i - 1].hi = out'[i].lo - 1
  BY DEF WriteContiguous
<1>2. CASE i \in 1 .. Len(out)
  <2>1. i > 1 => i - 1 \in 1 .. Len(out) BY <1>1, <1>2
  <2> QED BY <1>1, <1>2, <2>1 DEF WriteContiguous
<1>3. CASE i = Len(out) + 1
  <2>1. Len(out) > 0 => i - 1 = Len(out) /\ i - 1 \in 1 .. Len(out) /\ i > 1 BY <1>1, <1>3
  <2> QED BY <1>1, <1>3, <2>1
<1> QED BY <1>1, <1>2, <1>3

\* A data frame may be added while no local close frame is on the wire.
LEMMA AfterCloseAppend ==
  ASSUME TypeOK, NoDataAfterClose, NEW f, out' = Append(out, f), mode' = mode,
         f.t = "data" => ~LocalCloseSent
  PROVE  NoDataAfterClose'
<1>1. /\ Len(out') = Len(out) + 1
      /\ out'[Len(out) + 1] = f
      /\ \A i \in 1 .. Len(out) : out'[i] = out[i]
      /\ Len(out) \in Nat
  BY DEF TypeOK
<1> SUFFICES ASSUME NEW i \in 1 .. Len(out'), NEW j \in 1 .. Len(out'),
                    out'[i].t = "close", mode[out'[i].by] = "close", i < j
             PROVE  out'[j].t # "data"
  BY DEF NoDataAfterClose
<1>2. i \in 1 .. Len(out) BY <1>1
<1>3. CASE j \in 1 .. Len(out) BY <1>1, <1>2, <1>3 DEF NoDataAfterClose
<1>4. CASE j = Len(out) + 1 BY <1>1, <1>2, <1>4 DEF LocalCloseSent
<1> QED BY <1>1, <1>3, <1>4

LEMMA WriteInit == Init => WriteInv
<1> SUFFICES ASSUME Init PROVE WriteInv
  OBVIOUS
<1> USE CallsAssumption
<1>1. TypeOK BY TypeInit
<1>2. LockInv BY DEF Init, LockInv
<1>3. ChunkInv BY DEF Init, ChunkInv
<1>4. CloseInv /\ WriteContiguous /\ NoDataAfterClose
  BY DEF Init, CloseInv, LocalCloseSent, WriteContiguous, NoDataAfterClose
<1> QED BY <1>1, <1>2, <1>3, <1>4 DEF WriteInv

\* Steps that touch neither the write lock nor what is written.
LEMMA WriteFrame ==
  ASSUME WriteInv, TypeOK', UNCHANGED <<wsem, wpc, wn, wlen, ppc, cpc, mode, closed, out>>,
         lpc' = "pongSend" <=> lpc = "pongSend"
  PROVE  WriteInv'
  BY DEF WriteInv, LockInv, ChunkInv, CloseInv, LocalCloseSent, WriteContiguous, NoDataAfterClose

\* Steps of a Write.
LEMMA WriteWrite ==
  ASSUME WriteInv, TypeOK', NEW w \in Writers, WriteCall(w) \/ WriteStep(w) PROVE WriteInv'
<1> USE CallsAssumption, BoundsAssumption
        DEF readVars, queueVars, writeVars, pingVars, closeVars, errVars,
            loopVars, relVars, inVars, outVars, dlVars
<1> USE DEF WriteInv
<1>0. /\ wpc \in [Writers -> {"idle", "lock", "check", "chunk", "done"}]
      /\ wlen \in [Writers -> Nat] /\ wn \in [Writers -> Nat]
      /\ out \in Seq(Frames)
      /\ ppc \in [Pingers -> {"idle", "lock", "send", "await", "answered", "failed"}]
      /\ cpc \in [Closers -> {"idle", "local", "term", "frame", "finish", "done"}]
  <2>1. TypeOK BY DEF WriteInv
  <2> QED BY <2>1, Zenon DEF TypeOK
<1>1. CASE WriteCall(w)
  <2>1. PICK n \in WriteSizes :
          /\ wlen' = [wlen EXCEPT ![w] = n]
          /\ wpc' = [wpc EXCEPT ![w] = IF n = 0 THEN "done" ELSE "lock"]
    BY <1>1 DEF WriteCall
  <2>2. wpc[w] = "idle" /\ UNCHANGED <<wsem, ppc, cpc, lpc, wn, out, mode, closed>>
    BY <1>1 DEF WriteCall
  <2>3. LockInv' BY <1>0, <2>1, <2>2 DEF LockInv
  <2>4. ChunkInv' BY <1>0, <2>1, <2>2 DEF ChunkInv
  <2>5. CloseInv' BY <1>0, <2>1, <2>2 DEF CloseInv, LocalCloseSent
  <2> QED BY <2>2, <2>3, <2>4, <2>5 DEF WriteContiguous, NoDataAfterClose
<1>2. CASE WriteLock(w)
  <2>1. LockInv' BY <1>0, <1>2 DEF WriteLock, LockInv
  <2>2. ChunkInv' BY <1>0, <1>2 DEF WriteLock, ChunkInv
  <2>3. CloseInv' BY <1>0, <1>2 DEF WriteLock, CloseInv, LocalCloseSent
  <2> QED BY <1>2, <2>1, <2>2, <2>3 DEF WriteLock, WriteContiguous, NoDataAfterClose
<1>3. ASSUME NEW e, WriteReturns(w, e), wpc[w] \in {"lock", "check", "chunk"} PROVE WriteInv'
  <2>1. LockInv' BY <1>0, <1>3 DEF WriteReturns, LockInv
  <2>2. ChunkInv' BY <1>0, <1>3 DEF WriteReturns, ChunkInv
  <2>3. CloseInv' BY <1>0, <1>3 DEF WriteReturns, CloseInv, LocalCloseSent
  <2> QED BY <1>3, <2>1, <2>2, <2>3 DEF WriteReturns, WriteContiguous, NoDataAfterClose
<1>4. CASE WriteRefused(w) BY <1>3, <1>4 DEF WriteRefused
<1>5. CASE WriteCheck(w)
  <2>1. CASE Writable = "nil"
    <3>1. /\ wpc[w] = "check"
          /\ wpc' = [wpc EXCEPT ![w] = "chunk"]
          /\ UNCHANGED <<wsem, ppc, cpc, lpc, wlen, wn, out, mode, closed>>
      BY <1>5, <2>1 DEF WriteCheck
    <3>2. ~closed BY <2>1 DEF Writable
    <3>3. LockInv' BY <1>0, <3>1 DEF LockInv
    <3>4. ChunkInv' BY <1>0, <3>1 DEF ChunkInv
    <3>5. CloseInv' BY <1>0, <3>1, <3>2 DEF CloseInv, LocalCloseSent
    <3> QED BY <3>1, <3>3, <3>4, <3>5 DEF WriteContiguous, NoDataAfterClose
  <2>2. CASE Writable # "nil" BY <1>3, <1>5, <2>2 DEF WriteCheck
  <2> QED BY <2>1, <2>2
<1>6. CASE WriteChunk(w)
  <2> DEFINE hi == Smaller(wlen[w], wn[w] + MaxPayload)
             f  == DataFrame(w, wn[w] + 1, hi)
  <2>1. /\ wpc[w] = "chunk"
        /\ out' = Append(out, f)
        /\ wn' = [wn EXCEPT ![w] = hi]
        /\ wpc' = [wpc EXCEPT ![w] = IF hi = wlen[w] THEN "done" ELSE "chunk"]
        /\ wsem' = IF hi = wlen[w] THEN None ELSE wsem
        /\ UNCHANGED <<ppc, cpc, lpc, wlen, mode, closed>>
    BY <1>6 DEF WriteChunk, ChannelWrite
  <2>2. hi \in Nat /\ hi > wn[w] /\ hi <= wlen[w] /\ wn[w] \in Nat /\ wlen[w] \in Nat
    BY <1>0, <2>1 DEF Smaller, ChunkInv
  <2>3. /\ f \in Frames /\ f.t = "data" /\ f.by = w /\ f.lo = wn[w] + 1 /\ f.hi = hi
    BY <2>2 DEF DataFrame, Frames
  <2> HIDE DEF hi, f
  <2>4. /\ Len(out') = Len(out) + 1 /\ out'[Len(out')] = f /\ Len(out) \in Nat
        /\ \A i \in 1 .. Len(out) : out'[i] = out[i]
    BY <1>0, <2>1
  <2>5. wsem = w BY <2>1 DEF LockInv
  <2>6. LockInv' BY <1>0, <2>1, <2>5 DEF LockInv
  <2>7. \A v \in Writers : v # w => wpc[v] \notin {"check", "chunk"} BY <2>5 DEF LockInv
  <2>8. ChunkInv' BY <1>0, <2>1, <2>2, <2>3, <2>4, <2>7 DEF ChunkInv
  <2>9. ~LocalCloseSent BY <2>1 DEF CloseInv
  <2>10. ~LocalCloseSent' BY <2>1, <2>3, <2>4, <2>9 DEF LocalCloseSent
  <2>11. CloseInv' BY <2>1, <2>3, <2>4, <2>10 DEF CloseInv
  <2>12. WriteContiguous'
    <3>1. wn[w] = 0 \/ wn[w] > 0 BY <2>2
    <3> QED BY <2>1, <2>2, <2>3, <3>1, ContiguousAppend DEF ChunkInv
  <2>13. NoDataAfterClose' BY <2>1, <2>9, AfterCloseAppend
  <2> QED BY <2>6, <2>8, <2>11, <2>12, <2>13
<1>7. CASE WriteFail(w)
  BY <1>3, <1>7 DEF WriteFail
<1> QED BY <1>1, <1>2, <1>4, <1>5, <1>6, <1>7 DEF WriteStep

\* A control frame that is not a close frame, sent while no Write is in its loop.
LEMMA ControlAppend ==
  ASSUME WriteInv, TypeOK', NEW f \in Frames, f.t \in {"ping", "pong"},
         out' = Append(out, f), LockInv', UNCHANGED <<wpc, wn, wlen, cpc, mode, closed>>,
         \A w \in Writers : wpc[w] # "chunk"
  PROVE  WriteInv'
<1> USE DEF WriteInv
<1>1. /\ Len(out') = Len(out) + 1 /\ out'[Len(out) + 1] = f /\ Len(out) \in Nat
      /\ \A i \in 1 .. Len(out) : out'[i] = out[i]
  <2>1. out \in Seq(Frames) BY DEF TypeOK
  <2> QED BY <2>1
<1>2. ChunkInv' BY DEF ChunkInv
<1>3. LocalCloseSent' => LocalCloseSent BY <1>1 DEF LocalCloseSent
<1>4. CloseInv' BY <1>1, <1>3 DEF CloseInv
<1> QED BY <1>2, <1>4, ContiguousAppend, AfterCloseAppend

LEMMA WritePing ==
  ASSUME WriteInv, TypeOK', NEW p \in Pingers, PingCall(p) \/ PingStep(p) PROVE WriteInv'
<1> USE CallsAssumption
        DEF readVars, queueVars, writeVars, pingVars, closeVars, errVars,
            loopVars, relVars, inVars, outVars, dlVars
<1>0. /\ wpc \in [Writers -> {"idle", "lock", "check", "chunk", "done"}]
      /\ out \in Seq(Frames)
      /\ ppc \in [Pingers -> {"idle", "lock", "send", "await", "answered", "failed"}]
      /\ cpc \in [Closers -> {"idle", "local", "term", "frame", "finish", "done"}]
      /\ mode \in [Closers -> AllCloseModes]
  <2>1. TypeOK BY DEF WriteInv
  <2> QED BY <2>1, Zenon DEF TypeOK
<1>1. CASE PingCall(p)
  <2>1. LockInv' BY <1>0, <1>1 DEF PingCall, LockInv, WriteInv
  <2>2. UNCHANGED <<wpc, wn, wlen, cpc, mode, closed, out>> BY <1>1 DEF PingCall
  <2> QED BY <2>1, <2>2
          DEF WriteInv, ChunkInv, CloseInv, LocalCloseSent, WriteContiguous, NoDataAfterClose
<1>2. CASE PingLock(p)
  <2>1. LockInv' BY <1>0, <1>2 DEF PingLock, LockInv, WriteInv
  <2>2. UNCHANGED <<wpc, wn, wlen, cpc, mode, closed, out>> BY <1>2 DEF PingLock
  <2> QED BY <2>1, <2>2
          DEF WriteInv, ChunkInv, CloseInv, LocalCloseSent, WriteContiguous, NoDataAfterClose
<1>3. CASE PingSend(p)
  <2>1. LockInv' BY <1>0, <1>3 DEF PingSend, LockInv, WriteInv
  <2>2. /\ UNCHANGED <<wpc, wn, wlen, cpc, mode, closed>>
        /\ out' = Append(out, PingFrame(p))
        /\ ppc[p] = "send"
    BY <1>3 DEF PingSend, ChannelWrite
  <2>3. PingFrame(p) \in Frames /\ PingFrame(p).t = "ping" BY DEF PingFrame, Frames
  <2>4. \A w \in Writers : wpc[w] # "chunk" BY <2>2 DEF LockInv, WriteInv
  <2> QED BY <2>1, <2>2, <2>3, <2>4, ControlAppend
<1>4. ASSUME NEW how \in {"answered", "failed"}, PingReturns(p, how),
             ppc[p] \in {"lock", "send", "await"} PROVE WriteInv'
  <2>1. LockInv' BY <1>0, <1>4 DEF PingReturns, LockInv, WriteInv
  <2>2. UNCHANGED <<wpc, wn, wlen, cpc, mode, closed, out>> BY <1>4 DEF PingReturns
  <2> QED BY <2>1, <2>2
          DEF WriteInv, ChunkInv, CloseInv, LocalCloseSent, WriteContiguous, NoDataAfterClose
<1>5. CASE PingFail(p) \/ PingDone(p) BY <1>4, <1>5 DEF PingFail, PingDone
<1> QED BY <1>1, <1>2, <1>3, <1>5 DEF PingStep

LEMMA WriteLoop == ASSUME WriteInv, TypeOK', LoopStep PROVE WriteInv'
<1> USE CallsAssumption
        DEF readVars, queueVars, writeVars, pingVars, closeVars, errVars,
            loopVars, relVars, inVars, outVars, dlVars
<1>0. /\ wpc \in [Writers -> {"idle", "lock", "check", "chunk", "done"}]
      /\ out \in Seq(Frames)
      /\ ppc \in [Pingers -> {"idle", "lock", "send", "await", "answered", "failed"}]
      /\ cpc \in [Closers -> {"idle", "local", "term", "frame", "finish", "done"}]
      /\ mode \in [Closers -> AllCloseModes]
  <2>1. TypeOK BY DEF WriteInv
  <2> QED BY <2>1, Zenon DEF TypeOK
<1>1. CASE LoopPongLock
  <2>1. LockInv' BY <1>1 DEF LoopPongLock, LockInv, WriteInv
  <2>2. UNCHANGED <<wpc, wn, wlen, cpc, mode, closed, out>> BY <1>1 DEF LoopPongLock
  <2> QED BY <2>1, <2>2
          DEF WriteInv, ChunkInv, CloseInv, LocalCloseSent, WriteContiguous, NoDataAfterClose
<1>2. CASE LoopPongSend
  <2>1. LockInv' BY <1>2 DEF LoopPongSend, LockInv, WriteInv
  <2>2. /\ UNCHANGED <<wpc, wn, wlen, cpc, mode, closed>>
        /\ out' = Append(out, PongFrame(ponging))
        /\ lpc = "pongSend"
    BY <1>2 DEF LoopPongSend, ChannelWrite
  <2>3. ponging \in Pingers \cup Closers \cup {None} BY DEF WriteInv, TypeOK
  <2>4. PongFrame(ponging) \in Frames /\ PongFrame(ponging).t = "pong"
    BY <2>3 DEF PongFrame, Frames
  <2>5. \A w \in Writers : wpc[w] # "chunk" BY <2>2 DEF LockInv, WriteInv
  <2> QED BY <2>1, <2>2, <2>4, <2>5, ControlAppend
<1>3. CASE LoopPongFail
  <2>1. lpc' = "exit" BY <1>3 DEF LoopPongFail, LoopExits
  <2>2. UNCHANGED <<wpc, wn, wlen, ppc, cpc, mode, closed, out>> /\ wsem' = None /\ lpc = "pongSend"
    BY <1>3 DEF LoopPongFail
  <2>3. LockInv' BY <2>1, <2>2 DEF LockInv, WriteInv
  <2> QED BY <2>2, <2>3
          DEF WriteInv, ChunkInv, CloseInv, LocalCloseSent, WriteContiguous, NoDataAfterClose
<1>4. CASE LoopRead
  <2>1. lpc = "read" /\ UNCHANGED <<wsem, wpc, wn, wlen, cpc, mode, closed, out>>
    BY <1>4 DEF LoopRead
  <2>2. ppc' = ppc /\ lpc' # "pongSend"
    BY <1>4, <2>1 DEF LoopRead, LoopData, LoopPing, LoopPong, LoopClose, LoopBad, LoopExits
  <2> QED BY <2>1, <2>2, WriteFrame
<1>5. CASE LoopReadErr \/ LoopEnqueue \/ LoopDrop \/ LoopPongRefused \/ LoopCloseData \/ LoopDone
  <2>1. /\ UNCHANGED <<wsem, wpc, wn, wlen, ppc, cpc, mode, closed, out>>
        /\ lpc # "pongSend" /\ lpc' # "pongSend"
    BY <1>5 DEF LoopReadErr, LoopEnqueue, LoopDrop, LoopPongRefused, LoopCloseData,
                LoopDone, LoopExits
  <2> QED BY <2>1, WriteFrame
<1> QED BY <1>1, <1>2, <1>3, <1>4, <1>5 DEF LoopStep

LEMMA WriteClose ==
  ASSUME WriteInv, TypeOK', NEW c \in Closers, CloseCall(c) \/ CloseStep(c) PROVE WriteInv'
<1> USE CallsAssumption
        DEF readVars, queueVars, writeVars, pingVars, closeVars, errVars,
            loopVars, relVars, inVars, outVars, dlVars
<1>0. /\ wpc \in [Writers -> {"idle", "lock", "check", "chunk", "done"}]
      /\ out \in Seq(Frames)
      /\ ppc \in [Pingers -> {"idle", "lock", "send", "await", "answered", "failed"}]
      /\ cpc \in [Closers -> {"idle", "local", "term", "frame", "finish", "done"}]
      /\ mode \in [Closers -> AllCloseModes]
  <2>1. TypeOK BY DEF WriteInv
  <2> QED BY <2>1, Zenon DEF TypeOK
<1>1. CASE CloseCall(c)
  <2>1. PICK m \in CloseModes :
          /\ mode' = [mode EXCEPT ![c] = m]
          /\ cpc' = [cpc EXCEPT ![c] = IF m = "close" THEN "local" ELSE "term"]
    BY <1>1 DEF CloseCall
  <2>2. cpc[c] = "idle" /\ UNCHANGED <<wsem, wpc, wn, wlen, ppc, lpc, closed, out>>
    BY <1>1 DEF CloseCall
  <2>3. LockInv' BY <1>0, <2>1, <2>2 DEF LockInv, WriteInv
  <2>4. \A i \in 1 .. Len(out) : out[i].t = "close" =>
          out[i].by \in Closers /\ out[i].by # c /\ mode'[out[i].by] = mode[out[i].by]
    BY <1>0, <2>1, <2>2 DEF CloseInv, WriteInv
  <2>5. LocalCloseSent' <=> LocalCloseSent BY <2>2, <2>4 DEF LocalCloseSent
  <2>6. CloseInv' BY <1>0, <2>1, <2>2, <2>4, <2>5 DEF CloseInv, WriteInv
  <2>7. NoDataAfterClose' BY <2>2, <2>4 DEF NoDataAfterClose, WriteInv
  <2> QED BY <2>2, <2>3, <2>6, <2>7 DEF WriteInv, ChunkInv, WriteContiguous
<1>2. CASE CloseLocal(c)
  <2>1. /\ cpc[c] = "local" /\ cpc' = [cpc EXCEPT ![c] = "term"]
        /\ UNCHANGED <<wsem, wpc, wn, wlen, ppc, lpc, mode, out>>
    BY <1>2 DEF CloseLocal
  <2>2. closed'
    <3>1. CASE closed /\ UNCHANGED <<readErr, closed, mustAck>> BY <3>1
    <3>2. CASE closed' = TRUE BY <3>2
    <3> QED BY <1>2, <3>1, <3>2, Zenon DEF CloseLocal
  <2>3. LockInv' BY <1>0, <2>1 DEF LockInv, WriteInv
  <2>4. CloseInv' BY <1>0, <2>1, <2>2 DEF CloseInv, LocalCloseSent, WriteInv
  <2> QED BY <2>1, <2>3, <2>4 DEF WriteInv, ChunkInv, WriteContiguous, NoDataAfterClose
<1>3. CASE CloseTerm(c)
  <2>1. /\ cpc[c] = "term"
        /\ cpc' = [cpc EXCEPT ![c] = IF wsem = None THEN "frame" ELSE "finish"]
        /\ wsem' = IF wsem = None THEN c ELSE wsem
        /\ UNCHANGED <<wpc, wn, wlen, ppc, lpc, closed, mode, out>>
    BY <1>3 DEF CloseTerm
  <2>2. LockInv' BY <1>0, <2>1 DEF LockInv, WriteInv
  <2>3. CloseInv' BY <1>0, <2>1 DEF CloseInv, LocalCloseSent, WriteInv
  <2> QED BY <2>1, <2>2, <2>3 DEF WriteInv, ChunkInv, WriteContiguous, NoDataAfterClose
<1>4. CASE CloseAgain(c) \/ CloseFinish(c)
  <2>1. /\ cpc[c] \in {"term", "finish"}
        /\ cpc' = [cpc EXCEPT ![c] = "done"]
        /\ UNCHANGED <<wsem, wpc, wn, wlen, ppc, lpc, closed, mode, out>>
    BY <1>4 DEF CloseAgain, CloseFinish
  <2>2. LockInv' BY <1>0, <2>1 DEF LockInv, WriteInv
  <2>3. CloseInv' BY <1>0, <2>1 DEF CloseInv, LocalCloseSent, WriteInv
  <2> QED BY <2>1, <2>2, <2>3 DEF WriteInv, ChunkInv, WriteContiguous, NoDataAfterClose
<1>5. CASE CloseSend(c)
  <2> DEFINE f == CloseFrame(c)
  <2>1. /\ cpc[c] = "frame" /\ cpc' = [cpc EXCEPT ![c] = "finish"] /\ wsem' = None
        /\ out' = out \/ out' = Append(out, f)
        /\ UNCHANGED <<wpc, wn, wlen, ppc, lpc, closed, mode>>
    BY <1>5 DEF CloseSend, ChannelWrite
  <2>2. f \in Frames /\ f.t = "close" /\ f.by = c BY DEF CloseFrame, Frames
  <2> HIDE DEF f
  <2>3. wsem = c BY <2>1 DEF LockInv, WriteInv
  <2>4. LockInv' BY <1>0, <2>1, <2>3 DEF LockInv, WriteInv
  <2>5. \A w \in Writers : wpc[w] # "chunk" BY <2>3 DEF LockInv, WriteInv
  <2>6. mode[c] = "close" => closed BY <2>1 DEF CloseInv, WriteInv
  <2>7. CASE out' = out
    <3>1. CloseInv' BY <1>0, <2>1, <2>7 DEF CloseInv, LocalCloseSent, WriteInv
    <3> QED BY <2>1, <2>4, <2>7, <3>1 DEF WriteInv, ChunkInv, WriteContiguous, NoDataAfterClose
  <2>8. CASE out' = Append(out, f)
    <3>1. /\ Len(out') = Len(out) + 1 /\ out'[Len(out) + 1] = f /\ Len(out) \in Nat
          /\ \A i \in 1 .. Len(out) : out'[i] = out[i]
      BY <1>0, <2>8
    <3>2. ChunkInv' BY <2>1, <2>5 DEF ChunkInv, WriteInv
    <3>3. LocalCloseSent' => LocalCloseSent \/ mode[c] = "close"
      BY <2>1, <2>2, <3>1 DEF LocalCloseSent
    <3>4. CloseInv'
      <4>1. LocalCloseSent' => closed' /\ \A w \in Writers : wpc'[w] # "chunk"
        BY <2>1, <2>5, <2>6, <3>3 DEF CloseInv, WriteInv
      <4>2. \A i \in 1 .. Len(out') : out'[i].t = "close" =>
              out'[i].by \in Closers /\ cpc'[out'[i].by] \in {"finish", "done"}
        <5> SUFFICES ASSUME NEW i \in 1 .. Len(out'), out'[i].t = "close"
                     PROVE  out'[i].by \in Closers /\ cpc'[out'[i].by] \in {"finish", "done"}
          OBVIOUS
        <5>1. CASE i \in 1 .. Len(out) BY <1>0, <2>1, <3>1, <5>1 DEF CloseInv, WriteInv
        <5>2. CASE i = Len(out) + 1 BY <1>0, <2>1, <2>2, <3>1, <5>2
        <5> QED BY <3>1, <5>1, <5>2
      <4>3. \A d \in Closers :
              mode'[d] = "close" /\ cpc'[d] \in {"term", "frame", "finish", "done"} => closed'
        BY <1>0, <2>1, <2>6 DEF CloseInv, WriteInv
      <4> QED BY <4>1, <4>2, <4>3 DEF CloseInv
    <3>5. WriteContiguous' BY <2>2, <2>8, ContiguousAppend DEF WriteInv
    <3>6. NoDataAfterClose' BY <2>1, <2>2, <2>8, AfterCloseAppend DEF WriteInv
    <3> QED BY <2>4, <3>2, <3>4, <3>5, <3>6 DEF WriteInv
  <2> QED BY <2>1, <2>7, <2>8
<1> QED BY <1>1, <1>2, <1>3, <1>4, <1>5 DEF CloseStep

LEMMA WriteNext == WriteInv /\ [Next]_vars => WriteInv'
<1> SUFFICES ASSUME WriteInv, [Next]_vars PROVE WriteInv'
  OBVIOUS
<1>0. TypeOK' BY TypeNext DEF WriteInv
<1> USE DEF readVars, queueVars, writeVars, pingVars, closeVars, errVars,
            loopVars, relVars, inVars, outVars, dlVars
<1>1. ASSUME NEW r \in Readers, ReadCall(r) \/ ReadStep(r) PROVE WriteInv'
  <2>1. UNCHANGED <<wsem, wpc, wn, wlen, ppc, cpc, mode, closed, out, lpc>>
    BY <1>1 DEF ReadCall, ReadStep, ReadLock, ReadRefused, ReadCur, ReadTake, ReadEnd,
                ReadClosed, ReadBlock, ReadExpired, ReadReturns, Copy
  <2> QED BY <1>0, <2>1, WriteFrame
<1>2. CASE ReleaseStep
  <2>1. UNCHANGED <<wsem, wpc, wn, wlen, ppc, cpc, mode, closed, out, lpc>>
    BY <1>2 DEF ReleaseStep, ReleaseWait, ReleaseDrained, ReleaseDiscard, ReleaseClose
  <2> QED BY <1>0, <2>1, WriteFrame
<1>3. CASE SetReadDeadline \/ SetWriteDeadline \/ Environment
  <2>1. UNCHANGED <<wsem, wpc, wn, wlen, ppc, cpc, mode, closed, out, lpc>>
    BY <1>3 DEF SetReadDeadline, SetWriteDeadline, Environment, PeerSend, PeerEnd, PeerAck
  <2> QED BY <1>0, <2>1, WriteFrame
<1>4. CASE UNCHANGED vars
  <2>1. UNCHANGED <<wsem, wpc, wn, wlen, ppc, cpc, mode, closed, out, lpc>> BY <1>4 DEF vars
  <2> QED BY <1>0, <2>1, WriteFrame
<1> QED BY <1>0, <1>1, <1>2, <1>3, <1>4, WriteWrite, WritePing, WriteLoop, WriteClose
        DEF Next, Calls, Steps

\* The frames of one Write are contiguous on the wire, whatever other writers,
\* pings, pongs and closing calls do.
THEOREM WritesContiguous == Spec => []WriteContiguous
<1>1. WriteInv => WriteContiguous BY DEF WriteInv
<1> QED BY WriteInit, WriteNext, <1>1, PTL DEF Spec

\* No data frame follows the close frame of a local close (Shutdown frees the write
\* lock before it closes term, so its close frame is not covered).
THEOREM CloseFrameIsLast == Spec => []NoDataAfterClose
<1>1. WriteInv => NoDataAfterClose BY DEF WriteInv
<1> QED BY WriteInit, WriteNext, <1>1, PTL DEF Spec

(* What a Write reports.  Only a Write adds a data frame, and only its own. *)

\* A call that is refused, or whose channel write fails, reports an error.
LEMMA RefusedWithError ==
  /\ WriteTerminalErr # "nil"
  /\ \A e : e # "nil" => MapWriteErr(e) # "nil"
  /\ \A t : \A e \in ChannelWriteErr(t) : e # "nil"
  BY DEF WriteTerminalErr, TerminalErr, MapWriteErr, ChannelWriteErr

\* What the steps of everyone else leave of a Write, and add to the wire.
NotOfWrite ==
  /\ UNCHANGED writeVars
  /\ out' = out \/ \E f \in Frames : f.t # "data" /\ out' = Append(out, f)

LEMMA OthersSendNoData ==
  ASSUME TypeOK, [Next]_vars
  PROVE  (\E w \in Writers : WriteCall(w) \/ WriteStep(w)) \/ NotOfWrite
<1> USE DEF readVars, queueVars, writeVars, pingVars, closeVars, errVars,
            loopVars, relVars, inVars, outVars, dlVars, NotOfWrite
<1>1. ASSUME NEW r \in Readers, ReadCall(r) \/ ReadStep(r) PROVE NotOfWrite
  BY <1>1 DEF ReadCall, ReadStep, ReadLock, ReadRefused, ReadCur, ReadTake, ReadEnd, ReadClosed,
              ReadBlock, ReadExpired, ReadReturns, Copy
<1>2. ASSUME NEW p \in Pingers, PingCall(p) \/ PingStep(p) PROVE NotOfWrite
  <2>1. PingFrame(p) \in Frames /\ PingFrame(p).t # "data" BY DEF PingFrame, Frames
  <2>2. CASE PingSend(p) BY <2>1, <2>2 DEF PingSend, ChannelWrite
  <2>3. CASE PingCall(p) \/ PingLock(p) \/ PingFail(p) \/ PingDone(p)
    BY <2>3 DEF PingCall, PingLock, PingFail, PingDone, PingReturns
  <2> QED BY <1>2, <2>2, <2>3 DEF PingStep
<1>3. ASSUME NEW c \in Closers, CloseCall(c) \/ CloseStep(c) PROVE NotOfWrite
  <2>1. CloseFrame(c) \in Frames /\ CloseFrame(c).t # "data" BY DEF CloseFrame, Frames
  <2>2. CASE CloseSend(c) BY <2>1, <2>2 DEF CloseSend, ChannelWrite
  <2>3. CASE CloseCall(c) \/ CloseLocal(c) \/ CloseTerm(c) \/ CloseAgain(c) \/ CloseFinish(c)
    BY <2>3 DEF CloseCall, CloseLocal, CloseTerm, CloseAgain, CloseFinish
  <2> QED BY <1>3, <2>2, <2>3 DEF CloseStep
<1>4. ASSUME LoopStep PROVE NotOfWrite
  <2>1. PongFrame(ponging) \in Frames /\ PongFrame(ponging).t # "data"
    BY DEF PongFrame, Frames, TypeOK
  <2>2. CASE LoopPongSend BY <2>1, <2>2 DEF LoopPongSend, ChannelWrite
  <2>3. CASE \/ LoopRead \/ LoopReadErr \/ LoopEnqueue \/ LoopDrop \/ LoopPongLock
             \/ LoopPongRefused \/ LoopPongFail \/ LoopCloseData \/ LoopDone
    BY <2>3 DEF LoopRead, LoopReadErr, LoopEnqueue, LoopDrop, LoopPongLock, LoopPongRefused,
                LoopPongFail, LoopCloseData, LoopDone
  <2> QED BY <1>4, <2>2, <2>3 DEF LoopStep
<1>5. ASSUME ReleaseStep PROVE NotOfWrite
  BY <1>5 DEF ReleaseStep, ReleaseWait, ReleaseDrained, ReleaseDiscard, ReleaseClose
<1>6. ASSUME SetReadDeadline \/ SetWriteDeadline \/ Environment PROVE NotOfWrite
  BY <1>6 DEF SetReadDeadline, SetWriteDeadline, Environment, PeerSend, PeerEnd, PeerAck
<1>7. ASSUME UNCHANGED vars PROVE NotOfWrite BY <1>7 DEF vars
<1> HIDE DEF NotOfWrite
<1> QED BY <1>1, <1>2, <1>3, <1>4, <1>5, <1>6, <1>7 DEF Next, Calls, Steps

\* WriteCommitted, of one Write.
Committed(w) ==
  /\ wn[w] > 0 => \E i \in 1 .. Len(out) : out[i].t = "data" /\ out[i].by = w /\ out[i].hi = wn[w]
  /\ \A i \in 1 .. Len(out) : out[i].t = "data" /\ out[i].by = w => out[i].hi <= wn[w]
  /\ wpc[w] = "done" /\ wres[w] = "nil" => wn[w] = wlen[w]

LEMMA CommittedAll == WriteCommitted <=> \A w \in Writers : Committed(w)
  BY DEF WriteCommitted, Committed

\* Frames of others leave what a Write has committed alone.
LEMMA CommittedAppend ==
  ASSUME TypeOK, NEW v, Committed(v), NEW f, out' = Append(out, f), f.t # "data" \/ f.by # v,
         wn'[v] = wn[v], wlen'[v] = wlen[v], wpc'[v] = wpc[v], wres'[v] = wres[v]
  PROVE  Committed(v)'
<1>1. /\ Len(out') = Len(out) + 1 /\ out'[Len(out) + 1] = f /\ Len(out) \in Nat
      /\ \A i \in 1 .. Len(out) : out'[i] = out[i]
  <2>1. out \in Seq(Frames) BY DEF TypeOK
  <2> QED BY <2>1
<1>2. \A i \in 1 .. Len(out') : i \in 1 .. Len(out) \/ i = Len(out) + 1 BY <1>1
<1>3. 1 .. Len(out) \subseteq 1 .. Len(out') BY <1>1
<1> QED BY <1>1, <1>2, <1>3 DEF Committed

LEMMA CommittedWrite ==
  ASSUME WriteInv, WriteCommitted, NEW w \in Writers, WriteCall(w) \/ WriteStep(w)
  PROVE  WriteCommitted'
<1> USE BoundsAssumption DEF writeVars, outVars
<1>0. /\ wpc \in [Writers -> {"idle", "lock", "check", "chunk", "done"}]
      /\ wlen \in [Writers -> Nat] /\ wn \in [Writers -> Nat] /\ wres \in [Writers -> Errors]
      /\ out \in Seq(Frames)
  <2>1. TypeOK BY DEF WriteInv
  <2> QED BY <2>1, Zenon DEF TypeOK
<1>a. \A v \in Writers : Committed(v) BY CommittedAll
<1>1. CASE WriteCall(w)
  <2>1. PICK n \in WriteSizes :
          /\ wlen' = [wlen EXCEPT ![w] = n]
          /\ wpc' = [wpc EXCEPT ![w] = IF n = 0 THEN "done" ELSE "lock"]
          /\ wres' = [wres EXCEPT ![w] = IF n = 0 THEN Writable ELSE "nil"]
    BY <1>1 DEF WriteCall
  <2>2. wpc[w] = "idle" /\ UNCHANGED <<wn, out>> BY <1>1 DEF WriteCall
  <2>3. wn[w] = 0 BY <2>2 DEF WriteInv, ChunkInv
  <2> QED BY <1>0, <2>1, <2>2, <2>3 DEF WriteCommitted
<1>2. CASE WriteLock(w) BY <1>0, <1>2 DEF WriteLock, WriteCommitted
<1>3. ASSUME NEW e, e # "nil", WriteReturns(w, e) PROVE WriteCommitted'
  BY <1>0, <1>3 DEF WriteReturns, WriteCommitted
<1>4. CASE WriteRefused(w) BY <1>3, <1>4, RefusedWithError DEF WriteRefused
<1>5. CASE WriteCheck(w)
  <2>1. CASE Writable = "nil"
    <3>1. /\ wpc' = [wpc EXCEPT ![w] = "chunk"]
          /\ UNCHANGED <<wlen, wn, wres, out>>
      BY <1>5, <2>1 DEF WriteCheck
    <3> QED BY <1>0, <3>1 DEF WriteCommitted
  <2>2. CASE Writable # "nil" BY <1>3, <1>5, <2>2 DEF WriteCheck
  <2> QED BY <2>1, <2>2
<1>6. CASE WriteChunk(w)
  <2> DEFINE hi == Smaller(wlen[w], wn[w] + MaxPayload)
             f  == DataFrame(w, wn[w] + 1, hi)
  <2>1. /\ wpc[w] = "chunk"
        /\ out' = Append(out, f)
        /\ wn' = [wn EXCEPT ![w] = hi]
        /\ wpc' = [wpc EXCEPT ![w] = IF hi = wlen[w] THEN "done" ELSE "chunk"]
        /\ UNCHANGED <<wlen, wres>>
    BY <1>6 DEF WriteChunk, ChannelWrite
  <2>2. hi \in Nat /\ hi > wn[w] /\ wn[w] \in Nat /\ wlen[w] \in Nat
    <3>1. wn[w] < wlen[w] BY <2>1 DEF WriteInv, ChunkInv
    <3> QED BY <1>0, <3>1 DEF Smaller
  <2>3. f \in Frames /\ f.t = "data" /\ f.by = w /\ f.hi = hi
    BY <2>2 DEF DataFrame, Frames
  <2> HIDE DEF hi, f
  <2>4. /\ Len(out') = Len(out) + 1 /\ out'[Len(out) + 1] = f /\ Len(out) \in Nat
        /\ \A i \in 1 .. Len(out) : out'[i] = out[i]
    BY <1>0, <2>1
  <2>5. wn'[w] = hi /\ wlen'[w] = wlen[w] /\ (wpc'[w] = "done" => hi = wlen[w])
    BY <1>0, <2>1
  <2>6. Committed(w)'
    <3>1. Len(out) + 1 \in 1 .. Len(out') BY <2>4
    <3>2. ASSUME NEW i \in 1 .. Len(out'), out'[i].t = "data", out'[i].by = w
          PROVE  out'[i].hi <= hi
      <4>1. CASE i = Len(out) + 1 BY <2>2, <2>3, <2>4, <4>1
      <4>2. CASE i \in 1 .. Len(out)
        <5>1. out[i].t = "data" /\ out[i].by = w /\ out'[i] = out[i] BY <2>4, <3>2, <4>2
        <5>2. out[i] \in Frames BY <1>0, <4>2
        <5>3. out[i].hi \in Nat BY <5>1, <5>2 DEF Frames
        <5>4. out[i].hi <= wn[w] BY <1>a, <4>2, <5>1 DEF Committed
        <5> QED BY <2>2, <5>1, <5>3, <5>4
      <4> QED BY <2>4, <4>1, <4>2
    <3> QED BY <2>3, <2>4, <2>5, <3>1, <3>2 DEF Committed
  <2>7. ASSUME NEW v \in Writers, v # w PROVE Committed(v)'
    <3>1. wn'[v] = wn[v] /\ wlen'[v] = wlen[v] /\ wpc'[v] = wpc[v] /\ wres'[v] = wres[v]
      BY <1>0, <2>1, <2>7
    <3>2. TypeOK BY DEF WriteInv
    <3> QED BY <1>a, <2>1, <2>3, <2>7, <3>1, <3>2, CommittedAppend
  <2>8. \A v \in Writers : Committed(v)' BY <2>6, <2>7
  <2> QED BY <2>8 DEF WriteCommitted, Committed
<1>7. CASE WriteFail(w) BY <1>3, <1>7, RefusedWithError DEF WriteFail
<1> QED BY <1>1, <1>2, <1>4, <1>5, <1>6, <1>7 DEF WriteStep

LEMMA CommittedNext == WriteInv /\ WriteCommitted /\ [Next]_vars => WriteCommitted'
<1> SUFFICES ASSUME WriteInv, WriteCommitted, [Next]_vars PROVE WriteCommitted'
  OBVIOUS
<1>1. TypeOK BY DEF WriteInv
<1>2. ASSUME NotOfWrite PROVE WriteCommitted'
  <2>1. wn' = wn /\ wlen' = wlen /\ wpc' = wpc /\ wres' = wres BY <1>2 DEF NotOfWrite, writeVars
  <2>2. CASE out' = out BY <2>1, <2>2 DEF WriteCommitted
  <2>3. CASE \E f \in Frames : f.t # "data" /\ out' = Append(out, f)
    <3>1. \A v \in Writers : Committed(v) BY CommittedAll
    <3>2. \A v \in Writers : Committed(v)' BY <1>1, <2>1, <2>3, <3>1, CommittedAppend
    <3> QED BY <3>2 DEF WriteCommitted, Committed
  <2> QED BY <1>2, <2>2, <2>3 DEF NotOfWrite
<1> QED BY <1>1, <1>2, OthersSendNoData, CommittedWrite

\* The count a Write returns is what it put on the wire, all of it when it reports no
\* error, however its frames meet with pings, closing calls and deadlines.
THEOREM WritesAreCommitted == Spec => []WriteCommitted
<1>1. Init => WriteCommitted BY DEF Init, WriteCommitted
<1> QED BY <1>1, WriteInit, WriteNext, CommittedNext, PTL DEF Spec

-----------------------------------------------------------------------------
(* The read side.                                                          *)

ReadTypes ==
  /\ cur \in Payloads /\ held \in Payloads
  /\ dataCh \in Seq(Payloads) /\ got \in Seq(Payloads)
  /\ rcvd \in Nat

LEMMA ReadTypesHold == TypeOK => ReadTypes
  BY DEF TypeOK, ReadTypes

LEMMA ReadInit == Init => ReadInv
<1> SUFFICES ASSUME Init PROVE ReadInv
  OBVIOUS
<1>1. TypeOK BY TypeInit
<1>2. cur = NoData /\ got = <<>> /\ dataCh = <<>> /\ lpc = "read" /\ rcvd = 0
  BY DEF Init
<1>3. ReadsInOrder BY <1>2 DEF ReadsInOrder
<1>4. ChainInv BY <1>2 DEF ChainInv, QueueEnd, CurEnd, ReadSoFar
<1> QED BY <1>1, <1>3, <1>4 DEF ReadInv

\* Steps that leave the chain of received bytes alone.
LEMMA ReadFrame ==
  ASSUME ReadInv, TypeOK', UNCHANGED <<cur, dataCh, got, held, rcvd>>,
         lpc' = "enqueue" => lpc = "enqueue",
         lpc' \in {"read", "pongLock", "pongSend"} => lpc \in {"read", "pongLock", "pongSend"}
  PROVE  ReadInv'
  BY DEF ReadInv, ChainInv, QueueEnd, CurEnd, ReadSoFar, ReadsInOrder

\* Handing out the first bytes of b, the payload that follows what was read.
LEMMA CopyKeepsOrder ==
  ASSUME ReadInv, NEW r \in Readers, NEW b \in Payloads, Copy(r, b),
         b.lo = ReadSoFar + 1, b.lo <= b.hi
  PROVE  /\ ReadsInOrder'
         /\ CurEnd' = b.hi
         /\ cur' # NoData => cur'.lo = ReadSoFar' + 1 /\ cur'.lo <= cur'.hi
<1> USE BoundsAssumption
<1>0. ReadTypes BY ReadTypesHold DEF ReadInv
<1>1. PICK n \in 1 .. MaxRead :
        LET h == Smaller(b.hi, b.lo + n - 1)
        IN  /\ got' = Append(got, [lo |-> b.lo, hi |-> h])
            /\ cur' = IF h = b.hi THEN NoData ELSE [lo |-> h + 1, hi |-> b.hi]
  BY DEF Copy
<1> DEFINE hi == Smaller(b.hi, b.lo + n - 1)
           g  == [lo |-> b.lo, hi |-> hi]
<1>2. hi \in Nat /\ b.lo <= hi /\ hi <= b.hi /\ b.lo \in Nat /\ b.hi \in Nat
  BY <1>1 DEF Smaller, Payloads
<1>3. /\ got' = Append(got, g)
      /\ cur' = IF hi = b.hi THEN NoData ELSE [lo |-> hi + 1, hi |-> b.hi]
      /\ g.lo = b.lo /\ g.hi = hi /\ g \in Payloads
  BY <1>1, <1>2 DEF Payloads
<1> HIDE DEF hi, g
<1>4. /\ Len(got') = Len(got) + 1 /\ got'[Len(got) + 1] = g /\ Len(got) \in Nat
      /\ \A i \in 1 .. Len(got) : got'[i] = got[i]
      /\ got' # <<>>
  BY <1>0, <1>3 DEF ReadTypes
<1>5. ReadSoFar' = hi BY <1>3, <1>4 DEF ReadSoFar
<1>6. ReadsInOrder'
  <2> SUFFICES ASSUME NEW i \in 1 .. Len(got')
               PROVE  /\ got'[i].lo = (IF i = 1 THEN 1 ELSE got'[i - 1].hi + 1)
                      /\ got'[i].lo <= got'[i].hi
    BY DEF ReadsInOrder
  <2>1. CASE i \in 1 .. Len(got)
    <3>1. i # 1 => i - 1 \in 1 .. Len(got) BY <1>4, <2>1
    <3> QED BY <1>4, <2>1, <3>1 DEF ReadInv, ReadsInOrder
  <2>2. CASE i = Len(got) + 1
    <3>1. CASE Len(got) = 0
      <4>1. got = <<>> BY <1>0, <3>1 DEF ReadTypes
      <4> QED BY <1>2, <1>3, <1>4, <2>2, <3>1, <4>1 DEF ReadSoFar
    <3>2. CASE Len(got) > 0
      <4>1. got # <<>> /\ i - 1 = Len(got) /\ Len(got) \in 1 .. Len(got) /\ i # 1
        BY <1>4, <2>2, <3>2
      <4> QED BY <1>2, <1>3, <1>4, <2>2, <4>1 DEF ReadSoFar
    <3> QED BY <1>4, <3>1, <3>2
  <2> QED BY <1>4, <2>1, <2>2
<1>7. CASE hi = b.hi
  BY <1>3, <1>5, <1>6, <1>7 DEF CurEnd
<1>8. CASE hi # b.hi
  <2>1. cur' = [lo |-> hi + 1, hi |-> b.hi] BY <1>3, <1>8
  <2>2. cur'.lo = hi + 1 /\ cur'.hi = b.hi /\ hi + 1 <= b.hi BY <1>2, <1>8, <2>1
  <2>3. cur' # NoData BY <1>2, <2>2 DEF NoData
  <2> QED BY <1>5, <1>6, <2>2, <2>3 DEF CurEnd
<1> QED BY <1>7, <1>8

\* What is left of a short read is handed out: the chain keeps its end.
LEMMA ReadCurKeepsChain ==
  ASSUME ReadInv, NEW r \in Readers, ReadCur(r)
  PROVE  /\ UNCHANGED <<dataCh, held, rcvd, lpc>>
         /\ ReadsInOrder'
         /\ cur' # NoData => cur'.lo = ReadSoFar' + 1 /\ cur'.lo <= cur'.hi
         /\ CurEnd' = CurEnd /\ CurEnd = cur.hi
         /\ QueueEnd' = QueueEnd
<1> USE DEF loopVars, queueVars
<1>0. ReadTypes BY ReadTypesHold DEF ReadInv
<1>1. cur # NoData /\ Copy(r, cur) /\ dataCh' = dataCh BY DEF ReadCur
<1>2. UNCHANGED <<held, rcvd, lpc>> BY <1>1 DEF Copy
<1>3. /\ ReadsInOrder'
      /\ CurEnd' = cur.hi
      /\ cur' # NoData => cur'.lo = ReadSoFar' + 1 /\ cur'.lo <= cur'.hi
  BY <1>0, <1>1, CopyKeepsOrder DEF ReadInv, ChainInv, ReadTypes
<1>4. CurEnd = cur.hi BY <1>1 DEF CurEnd
<1>5. QueueEnd' = QueueEnd BY <1>1, <1>3, <1>4 DEF QueueEnd
<1> QED BY <1>1, <1>2, <1>3, <1>4, <1>5

\* The first payload of the queue is handed out: the chain keeps its end.
LEMMA ReadTakeKeepsChain ==
  ASSUME ReadInv, NEW r \in Readers, ReadTake(r)
  PROVE  /\ UNCHANGED <<held, rcvd, lpc>>
         /\ ReadsInOrder'
         /\ cur' # NoData => cur'.lo = ReadSoFar' + 1 /\ cur'.lo <= cur'.hi
         /\ \A i \in 1 .. Len(dataCh') :
              /\ dataCh'[i].lo = (IF i = 1 THEN CurEnd' ELSE dataCh'[i - 1].hi) + 1
              /\ dataCh'[i].lo <= dataCh'[i].hi
         /\ QueueEnd' = QueueEnd
         /\ Len(dataCh) \in Nat \ {0} /\ Len(dataCh') = Len(dataCh) - 1
         /\ \A i \in 1 .. Len(dataCh) - 1 : dataCh'[i] = dataCh[i + 1]
         /\ Copy(r, dataCh[1]) /\ dataCh[1] \in Payloads
         /\ dataCh[1].lo = ReadSoFar + 1 /\ dataCh[1].lo <= dataCh[1].hi
<1> USE DEF loopVars, queueVars
<1>0. ReadTypes BY ReadTypesHold DEF ReadInv
<1> DEFINE b == Head(dataCh)
<1>1. cur = NoData /\ dataCh # <<>> /\ Copy(r, b) /\ dataCh' = Tail(dataCh)
  BY DEF ReadTake, Looking
<1>2. UNCHANGED <<held, rcvd, lpc>> BY <1>1 DEF Copy
<1>3. /\ Len(dataCh) \in Nat \ {0} /\ b = dataCh[1] /\ b \in Payloads
      /\ Len(dataCh') = Len(dataCh) - 1
      /\ \A i \in 1 .. Len(dataCh) - 1 : dataCh'[i] = dataCh[i + 1]
      /\ dataCh' = <<>> <=> Len(dataCh) = 1
  <2>1. dataCh \in Seq(Payloads) BY <1>0 DEF ReadTypes
  <2>2. Len(dataCh) \in Nat /\ Len(dataCh) # 0 BY <1>1, <2>1
  <2>3. b = dataCh[1] /\ b \in Payloads BY <1>1, <2>1
  <2>4. dataCh' \in Seq(Payloads) /\ Len(dataCh') = Len(dataCh) - 1 BY <1>1, <2>1
  <2>5. \A i \in 1 .. Len(dataCh) - 1 : dataCh'[i] = dataCh[i + 1] BY <1>1, <2>1
  <2>6. \A q \in Seq(Payloads) : q = <<>> <=> Len(q) = 0 OBVIOUS
  <2>7. dataCh' = <<>> <=> Len(dataCh') = 0 BY <2>4, <2>6, Zenon
  <2> QED BY <2>2, <2>3, <2>4, <2>5, <2>7
<1> HIDE DEF b
<1>4. CurEnd = ReadSoFar BY <1>1 DEF CurEnd
<1>5. b.lo = ReadSoFar + 1 /\ b.lo <= b.hi BY <1>3, <1>4 DEF ReadInv, ChainInv
<1>6. /\ ReadsInOrder'
      /\ CurEnd' = b.hi
      /\ cur' # NoData => cur'.lo = ReadSoFar' + 1 /\ cur'.lo <= cur'.hi
  BY <1>1, <1>3, <1>5, CopyKeepsOrder
<1>7. QueueEnd' = QueueEnd
  <2>1. CASE Len(dataCh) = 1 BY <1>1, <1>3, <1>6, <2>1 DEF QueueEnd
  <2>2. CASE Len(dataCh) > 1
    <3>1. Len(dataCh') \in 1 .. Len(dataCh) - 1 BY <1>3, <2>2
    <3> QED BY <1>1, <1>3, <2>2, <3>1 DEF QueueEnd
  <2> QED BY <1>3, <2>1, <2>2
<1>8. \A i \in 1 .. Len(dataCh') :
        /\ dataCh'[i].lo = (IF i = 1 THEN CurEnd' ELSE dataCh'[i - 1].hi) + 1
        /\ dataCh'[i].lo <= dataCh'[i].hi
  <2> SUFFICES ASSUME NEW i \in 1 .. Len(dataCh')
               PROVE  /\ dataCh'[i].lo = (IF i = 1 THEN CurEnd' ELSE dataCh'[i - 1].hi) + 1
                      /\ dataCh'[i].lo <= dataCh'[i].hi
    OBVIOUS
  <2>1. i + 1 \in 1 .. Len(dataCh) /\ i + 1 # 1 /\ (i + 1) - 1 = i BY <1>3
  <2>2. /\ dataCh[i + 1].lo = dataCh[i].hi + 1
        /\ dataCh[i + 1].lo <= dataCh[i + 1].hi
    BY <2>1 DEF ReadInv, ChainInv
  <2>3. dataCh'[i] = dataCh[i + 1] BY <1>3
  <2>4. i # 1 => dataCh'[i - 1] = dataCh[i] BY <1>3
  <2> QED BY <1>3, <1>6, <2>2, <2>3, <2>4
<1>9. Copy(r, dataCh[1]) /\ dataCh[1].lo = ReadSoFar + 1 /\ dataCh[1].lo <= dataCh[1].hi
  BY <1>1, <1>3, <1>5
<1> QED BY <1>2, <1>3, <1>6, <1>7, <1>8, <1>9

LEMMA ReadRead ==
  ASSUME ReadInv, TypeOK', NEW r \in Readers, ReadCall(r) \/ ReadStep(r) PROVE ReadInv'
<1> USE BoundsAssumption
        DEF readVars, queueVars, writeVars, pingVars, closeVars, errVars,
            loopVars, relVars, inVars, outVars, dlVars
<1>0. ReadTypes BY ReadTypesHold DEF ReadInv
<1>1. CASE ReadCall(r) \/ ReadLock(r) \/ ReadRefused(r) \/ ReadEnd(r) \/ ReadClosed(r)
           \/ ReadBlock(r) \/ ReadExpired(r)
  <2>1. UNCHANGED <<cur, dataCh, got, held, rcvd, lpc>>
    BY <1>1 DEF ReadCall, ReadLock, ReadRefused, ReadEnd, ReadClosed, ReadBlock,
                ReadExpired, ReadReturns
  <2> QED BY <2>1, ReadFrame
<1>2. CASE ReadCur(r)
  BY <1>2, ReadCurKeepsChain DEF ReadInv, ChainInv
<1>3. CASE ReadTake(r)
  BY <1>3, ReadTakeKeepsChain DEF ReadInv, ChainInv
<1> QED BY <1>1, <1>2, <1>3 DEF ReadStep

LEMMA ReadLoop == ASSUME ReadInv, TypeOK', LoopStep PROVE ReadInv'
<1> USE BoundsAssumption
        DEF readVars, queueVars, writeVars, pingVars, closeVars, errVars,
            loopVars, relVars, inVars, outVars, dlVars
<1>0. ReadTypes BY ReadTypesHold DEF ReadInv
<1>1. CASE LoopRead
  <2> DEFINE f == in[rpos + 1]
  <2>1. lpc = "read" /\ UNCHANGED <<cur, dataCh, got>> BY <1>1 DEF LoopRead
  <2>2. f \in InFrames BY <1>1 DEF LoopRead, ReadInv, TypeOK
  <2>3. CASE LoopData(f)
    <3>1. Size(f) \in Nat BY <2>2, <2>3 DEF LoopData, InFrames, Frames, Size
    <3>2. rcvd = QueueEnd BY <2>1 DEF ReadInv, ChainInv
    <3>3. QueueEnd' = QueueEnd /\ CurEnd' = CurEnd /\ ReadSoFar' = ReadSoFar /\ ReadsInOrder'
      BY <2>1 DEF QueueEnd, CurEnd, ReadSoFar, ReadInv, ReadsInOrder
    <3>4. CASE Size(f) = 0
      BY <1>0, <2>1, <2>3, <3>2, <3>3, <3>4 DEF LoopData, ReadTypes, ReadInv, ChainInv
    <3>5. CASE Size(f) > 0
      <4>1. /\ lpc' = "enqueue" /\ rcvd' = rcvd + Size(f)
            /\ held'.lo = rcvd + 1 /\ held'.hi = rcvd + Size(f)
        BY <2>3, <3>1, <3>5 DEF LoopData
      <4>2. rcvd \in Nat BY <1>0 DEF ReadTypes
      <4> HIDE DEF f
      <4> QED BY <2>1, <3>1, <3>2, <3>3, <3>5, <4>1, <4>2 DEF ReadInv, ChainInv
    <3> QED BY <3>1, <3>4, <3>5
  <2>4. CASE LoopPing(f) \/ LoopPong(f) \/ LoopClose(f) \/ LoopBad(f)
    <3>1. UNCHANGED <<held, rcvd>> /\ lpc' # "enqueue"
      BY <2>1, <2>4 DEF LoopPing, LoopPong, LoopClose, LoopBad, LoopExits
    <3> QED BY <2>1, <3>1, ReadFrame
  <2> QED BY <1>1, <2>3, <2>4 DEF LoopRead
<1>2. CASE LoopEnqueue
  <2>1. /\ lpc = "enqueue" /\ lpc' = "read" /\ dataCh' = Append(dataCh, held)
        /\ UNCHANGED <<cur, got, rcvd>>
    BY <1>2 DEF LoopEnqueue
  <2>2. /\ Len(dataCh') = Len(dataCh) + 1 /\ dataCh'[Len(dataCh) + 1] = held
        /\ Len(dataCh) \in Nat /\ dataCh' # <<>>
        /\ \A i \in 1 .. Len(dataCh) : dataCh'[i] = dataCh[i]
        /\ dataCh = <<>> <=> Len(dataCh) = 0
    BY <1>0, <2>1 DEF ReadTypes
  <2>3. held.lo = QueueEnd + 1 /\ held.lo <= held.hi /\ held.hi = rcvd
    BY <2>1 DEF ReadInv, ChainInv
  <2>4. CurEnd' = CurEnd /\ ReadSoFar' = ReadSoFar /\ ReadsInOrder'
    BY <2>1 DEF CurEnd, ReadSoFar, ReadInv, ReadsInOrder
  <2>5. QueueEnd' = rcvd' BY <2>1, <2>2, <2>3 DEF QueueEnd
  <2>6. \A i \in 1 .. Len(dataCh') :
          /\ dataCh'[i].lo = (IF i = 1 THEN CurEnd' ELSE dataCh'[i - 1].hi) + 1
          /\ dataCh'[i].lo <= dataCh'[i].hi
    <3> SUFFICES ASSUME NEW i \in 1 .. Len(dataCh')
                 PROVE  /\ dataCh'[i].lo = (IF i = 1 THEN CurEnd' ELSE dataCh'[i - 1].hi) + 1
                        /\ dataCh'[i].lo <= dataCh'[i].hi
      OBVIOUS
    <3>1. CASE i \in 1 .. Len(dataCh)
      <4>1. i # 1 => i - 1 \in 1 .. Len(dataCh) BY <2>2, <3>1
      <4> QED BY <2>2, <2>4, <3>1, <4>1 DEF ReadInv, ChainInv
    <3>2. CASE i = Len(dataCh) + 1
      <4>1. CASE Len(dataCh) = 0 BY <2>2, <2>3, <2>4, <3>2, <4>1 DEF QueueEnd
      <4>2. CASE Len(dataCh) > 0
        <5>1. i - 1 = Len(dataCh) /\ i - 1 \in 1 .. Len(dataCh) /\ i # 1 BY <2>2, <3>2, <4>2
        <5> QED BY <2>2, <2>3, <3>2, <4>2, <5>1 DEF QueueEnd
      <4> QED BY <2>2, <4>1, <4>2
    <3> QED BY <2>2, <3>1, <3>2
  <2> QED BY <2>1, <2>4, <2>5, <2>6 DEF ReadInv, ChainInv
<1>3. CASE LoopDrop
  <2>1. lpc' = "exit" /\ UNCHANGED <<cur, dataCh, got, rcvd>> BY <1>3 DEF LoopDrop, LoopExits
  <2> QED BY <2>1 DEF ReadInv, ChainInv, QueueEnd, CurEnd, ReadSoFar, ReadsInOrder
<1>4. CASE \/ LoopReadErr \/ LoopPongLock \/ LoopPongRefused \/ LoopPongSend
           \/ LoopPongFail \/ LoopCloseData \/ LoopDone
  <2>1. /\ UNCHANGED <<cur, dataCh, got, held, rcvd>>
        /\ lpc' # "enqueue"
        /\ lpc' \in {"read", "pongLock", "pongSend"} => lpc \in {"read", "pongLock", "pongSend"}
    BY <1>4 DEF LoopReadErr, LoopPongLock, LoopPongRefused, LoopPongSend, LoopPongFail,
                LoopCloseData, LoopDone, LoopExits
  <2> QED BY <2>1, ReadFrame
<1> QED BY <1>1, <1>2, <1>3, <1>4 DEF LoopStep

LEMMA ReadNext == ReadInv /\ [Next]_vars => ReadInv'
<1> SUFFICES ASSUME ReadInv, [Next]_vars PROVE ReadInv'
  OBVIOUS
<1>0. TypeOK' BY TypeNext DEF ReadInv
<1> USE DEF readVars, queueVars, writeVars, pingVars, closeVars, errVars,
            loopVars, relVars, inVars, outVars, dlVars
<1> DEFINE Same == UNCHANGED <<cur, dataCh, got, held, rcvd, lpc>>
<1>1. ASSUME NEW w \in Writers, WriteCall(w) \/ WriteStep(w) PROVE Same
  BY <1>1 DEF WriteCall, WriteStep, WriteLock, WriteRefused, WriteCheck, WriteChunk,
              WriteFail, WriteReturns
<1>2. ASSUME NEW p \in Pingers, PingCall(p) \/ PingStep(p) PROVE Same
  BY <1>2 DEF PingCall, PingStep, PingLock, PingSend, PingFail, PingDone, PingReturns
<1>3. ASSUME NEW c \in Closers, CloseCall(c) \/ CloseStep(c) PROVE Same
  BY <1>3 DEF CloseCall, CloseStep, CloseLocal, CloseTerm, CloseAgain, CloseSend, CloseFinish
<1>4. ASSUME ReleaseStep PROVE Same
  BY <1>4 DEF ReleaseStep, ReleaseWait, ReleaseDrained, ReleaseDiscard, ReleaseClose
<1>5. ASSUME SetReadDeadline \/ SetWriteDeadline \/ Environment PROVE Same
  BY <1>5 DEF SetReadDeadline, SetWriteDeadline, Environment, PeerSend, PeerEnd, PeerAck
<1>6. ASSUME UNCHANGED vars PROVE Same BY <1>6 DEF vars
<1>7. Same => ReadInv' BY <1>0, ReadFrame
<1> HIDE DEF Same
<1> QED BY <1>0, <1>1, <1>2, <1>3, <1>4, <1>5, <1>6, <1>7, ReadRead, ReadLoop
        DEF Next, Calls, Steps

\* Read hands out the peer's bytes in order, without a gap and without a repeat,
\* however many readers share the stream and whoever closes it.
THEOREM ReadsOrdered == Spec => []ReadsInOrder
<1>1. ReadInv => ReadsInOrder BY DEF ReadInv
<1> QED BY ReadInit, ReadNext, <1>1, PTL DEF Spec

-----------------------------------------------------------------------------
(* The read side implements ByteStream.                                    *)

\* Nothing in the chain is beyond what was received; the queue is closed by the
\* read loop's exit, which has all of the chain in it unless the stream was ended
\* here; and whoever was told EOF is at the end.
EndInv ==
  /\ \A i \in 1 .. Len(dataCh) : dataCh[i].hi <= rcvd
  /\ cur.hi <= rcvd
  /\ dataClosed <=> lpc \in {"exited", "stopped"}
  /\ ~term /\ lpc \in {"exit", "exited", "stopped"} => rcvd = QueueEnd
  /\ \A r \in Readers : rres[r] = "EOF" => Drained

LEMMA EndInit == Init => EndInv
  BY DEF Init, EndInv, NoData

LEMMA EndFrame ==
  ASSUME EndInv, UNCHANGED <<cur, dataCh, dataClosed, got, rcvd, lpc, rres>>, term => term'
  PROVE  EndInv'
  BY DEF EndInv, Drained, QueueEnd, CurEnd, ReadSoFar

\* Bytes are handed out of payload b.
LEMMA CopyDelivers ==
  ASSUME NEW r \in Readers, NEW b \in Payloads, Copy(r, b), b.lo <= b.hi
  PROVE  \E hi \in b.lo .. b.hi :
           /\ got' = Append(got, [lo |-> b.lo, hi |-> hi])
           /\ cur' = NoData \/ cur'.hi = b.hi
           /\ rres' = [rres EXCEPT ![r] = "nil"]
           /\ dataClosed' = dataClosed /\ term' = term /\ rcvd' = rcvd /\ lpc' = lpc
<1> USE BoundsAssumption DEF closeVars, loopVars
<1>1. PICK n \in 1 .. MaxRead :
        LET h == Smaller(b.hi, b.lo + n - 1)
        IN  /\ got' = Append(got, [lo |-> b.lo, hi |-> h])
            /\ cur' = IF h = b.hi THEN NoData ELSE [lo |-> h + 1, hi |-> b.hi]
  BY DEF Copy
<1>2. Smaller(b.hi, b.lo + n - 1) \in b.lo .. b.hi BY <1>1 DEF Smaller, Payloads
<1>3. /\ rres' = [rres EXCEPT ![r] = "nil"]
      /\ dataClosed' = dataClosed /\ term' = term /\ rcvd' = rcvd /\ lpc' = lpc
  BY DEF Copy
<1> QED BY <1>1, <1>2, <1>3

\* A Read that returns no bytes.
LEMMA ReturnsKeepEnd ==
  ASSUME ReadInv, EndInv, NEW r \in Readers, NEW e, ReadReturns(r, e), e = "EOF" => Drained
  PROVE  EndInv'
<1>1. /\ UNCHANGED <<cur, dataCh, dataClosed, got, rcvd, lpc, term>>
      /\ rres' = [rres EXCEPT ![r] = e]
  BY DEF ReadReturns, queueVars, loopVars, closeVars
<1>2. Drained' = Drained BY <1>1 DEF Drained
<1>3. \A q \in Readers : rres'[q] = "EOF" => Drained'
  BY <1>1, <1>2 DEF EndInv, ReadInv, TypeOK
<1> QED BY <1>1, <1>3 DEF EndInv, QueueEnd, CurEnd, ReadSoFar

LEMMA EndRead ==
  ASSUME ReadInv, EndInv, NEW r \in Readers, ReadCall(r) \/ ReadStep(r) PROVE EndInv'
<1>0. ReadTypes BY ReadTypesHold DEF ReadInv
<1>1. CASE ReadCall(r) \/ ReadLock(r) \/ ReadBlock(r)
  <2>1. UNCHANGED <<cur, dataCh, dataClosed, got, rcvd, lpc, rres, term>>
    BY <1>1 DEF ReadCall, ReadLock, ReadBlock, queueVars, loopVars, closeVars
  <2> QED BY <2>1, EndFrame
<1>2. CASE ReadRefused(r) \/ ReadClosed(r) \/ ReadExpired(r)
  <2>1. ReadReturns(r, "closed") \/ ReadReturns(r, "deadline")
    BY <1>2 DEF ReadRefused, ReadClosed, ReadExpired
  <2> QED BY <2>1, ReturnsKeepEnd
<1>3. CASE ReadEnd(r)
  <2>1. Drained /\ ReadReturns(r, TerminalErr) BY <1>3 DEF ReadEnd, Looking, Drained
  <2> QED BY <2>1, ReturnsKeepEnd
<1>4. CASE ReadCur(r)
  <2>1. cur # NoData /\ Copy(r, cur) /\ cur \in Payloads /\ cur.lo <= cur.hi
    BY <1>0, <1>4 DEF ReadCur, ReadTypes, ReadInv, ChainInv
  <2>2. PICK hi \in cur.lo .. cur.hi :
          /\ cur' = NoData \/ cur'.hi = cur.hi
          /\ rres' = [rres EXCEPT ![r] = "nil"]
          /\ dataClosed' = dataClosed /\ term' = term /\ rcvd' = rcvd /\ lpc' = lpc
    BY <2>1, CopyDelivers
  <2>3. dataCh' = dataCh /\ QueueEnd' = QueueEnd BY <1>4, ReadCurKeepsChain
  <2>4. \A q \in Readers : rres[q] # "EOF" BY <2>1 DEF EndInv, Drained
  <2>5. \A q \in Readers : rres'[q] # "EOF" BY <2>2, <2>4 DEF ReadInv, TypeOK
  <2>6. cur'.hi <= rcvd' BY <1>0, <2>2 DEF EndInv, NoData, ReadTypes
  <2> QED BY <2>2, <2>3, <2>5, <2>6 DEF EndInv
<1>5. CASE ReadTake(r)
  <2>1. /\ Len(dataCh) \in Nat \ {0} /\ Len(dataCh') = Len(dataCh) - 1
        /\ \A i \in 1 .. Len(dataCh) - 1 : dataCh'[i] = dataCh[i + 1]
        /\ Copy(r, dataCh[1]) /\ dataCh[1] \in Payloads /\ dataCh[1].lo <= dataCh[1].hi
        /\ QueueEnd' = QueueEnd
    BY <1>5, ReadTakeKeepsChain
  <2>2. PICK hi \in dataCh[1].lo .. dataCh[1].hi :
          /\ cur' = NoData \/ cur'.hi = dataCh[1].hi
          /\ rres' = [rres EXCEPT ![r] = "nil"]
          /\ dataClosed' = dataClosed /\ term' = term /\ rcvd' = rcvd /\ lpc' = lpc
    BY <2>1, CopyDelivers
  <2>3. dataCh # <<>> BY <1>5 DEF ReadTake
  <2>4. \A q \in Readers : rres[q] # "EOF" BY <2>3 DEF EndInv, Drained
  <2>5. \A q \in Readers : rres'[q] # "EOF" BY <2>2, <2>4 DEF ReadInv, TypeOK
  <2>6. 1 \in 1 .. Len(dataCh) /\ dataCh[1].hi <= rcvd BY <2>1 DEF EndInv
  <2>7. cur'.hi <= rcvd' BY <1>0, <2>2, <2>6 DEF NoData, ReadTypes
  <2>8. \A i \in 1 .. Len(dataCh') : dataCh'[i].hi <= rcvd'
    <3> SUFFICES ASSUME NEW i \in 1 .. Len(dataCh') PROVE dataCh'[i].hi <= rcvd'
      OBVIOUS
    <3>1. i + 1 \in 1 .. Len(dataCh) /\ i \in 1 .. Len(dataCh) - 1 BY <2>1
    <3> QED BY <2>1, <2>2, <3>1 DEF EndInv
  <2> QED BY <2>1, <2>2, <2>5, <2>7, <2>8 DEF EndInv
<1> QED BY <1>1, <1>2, <1>3, <1>4, <1>5 DEF ReadStep

LEMMA EndLoop == ASSUME ReadInv, EndInv, LoopStep PROVE EndInv'
<1> USE DEF readVars, queueVars, closeVars, loopVars
<1>0. ReadTypes BY ReadTypesHold DEF ReadInv
<1>1. CASE LoopRead
  <2> DEFINE f == in[rpos + 1]
  <2>1. lpc = "read" /\ UNCHANGED <<cur, dataCh, dataClosed, got, rres, term>>
    BY <1>1 DEF LoopRead
  <2>2. f \in InFrames BY <1>1 DEF LoopRead, ReadInv, TypeOK
  <2>3. ~dataClosed /\ rcvd = QueueEnd /\ QueueEnd' = QueueEnd
    BY <2>1 DEF EndInv, ReadInv, ChainInv, QueueEnd, CurEnd, ReadSoFar
  <2>4. \A q \in Readers : rres'[q] # "EOF" BY <2>1, <2>3 DEF EndInv, Drained
  <2>5. CASE LoopData(f)
    <3>1. Size(f) \in Nat BY <2>2, <2>5 DEF LoopData, InFrames, Frames, Size
    <3>2. rcvd' = rcvd + Size(f) /\ lpc' \in {"read", "enqueue"} BY <2>5 DEF LoopData
    <3>3. rcvd' \in Nat /\ rcvd <= rcvd' BY <1>0, <3>1, <3>2 DEF ReadTypes
    <3> HIDE DEF f
    <3>4. cur.hi \in Nat /\ cur.hi <= rcvd' BY <1>0, <3>3 DEF EndInv, ReadTypes, Payloads
    <3>5. \A i \in 1 .. Len(dataCh) : dataCh[i].hi <= rcvd'
      <4> SUFFICES ASSUME NEW i \in 1 .. Len(dataCh) PROVE dataCh[i].hi <= rcvd'
        OBVIOUS
      <4>1. dataCh[i] \in Payloads BY <1>0 DEF ReadTypes
      <4>2. dataCh[i].hi \in Nat BY <4>1 DEF Payloads
      <4>3. dataCh[i].hi <= rcvd /\ rcvd \in Nat BY <1>0 DEF EndInv, ReadTypes
      <4> QED BY <3>3, <4>2, <4>3
    <3> QED BY <2>1, <2>3, <2>4, <3>2, <3>4, <3>5 DEF EndInv
  <2>6. CASE LoopPing(f) \/ LoopPong(f) \/ LoopClose(f) \/ LoopBad(f)
    <3>1. rcvd' = rcvd /\ lpc' \in {"read", "pongLock", "exit"}
      BY <2>1, <2>6 DEF LoopPing, LoopPong, LoopClose, LoopBad, LoopExits
    <3> QED BY <2>1, <2>3, <2>4, <3>1 DEF EndInv
  <2> QED BY <1>1, <2>5, <2>6 DEF LoopRead
<1>2. CASE LoopEnqueue
  <2>1. /\ lpc = "enqueue" /\ lpc' = "read" /\ dataCh' = Append(dataCh, held)
        /\ UNCHANGED <<cur, dataClosed, rcvd, rres>>
    BY <1>2 DEF LoopEnqueue
  <2>2. ~dataClosed BY <2>1 DEF EndInv
  <2>3. \A q \in Readers : rres'[q] # "EOF" BY <2>1, <2>2 DEF EndInv, Drained
  <2>4. held.hi = rcvd BY <2>1 DEF ReadInv, ChainInv
  <2>5. \A i \in 1 .. Len(dataCh') : dataCh'[i].hi <= rcvd'
    <3>1. /\ Len(dataCh') = Len(dataCh) + 1 /\ dataCh'[Len(dataCh) + 1] = held
          /\ Len(dataCh) \in Nat
          /\ \A i \in 1 .. Len(dataCh) : dataCh'[i] = dataCh[i]
      BY <1>0, <2>1 DEF ReadTypes
    <3> QED BY <1>0, <2>1, <2>4, <3>1 DEF EndInv, ReadTypes
  <2> QED BY <2>1, <2>2, <2>3, <2>5 DEF EndInv
<1>3. CASE LoopDrop
  <2>1. /\ lpc = "enqueue" /\ lpc' = "exit" /\ term'
        /\ UNCHANGED <<cur, dataCh, dataClosed, rcvd, rres>>
    BY <1>3 DEF LoopDrop, LoopExits
  <2> QED BY <2>1 DEF EndInv, Drained
<1>4. CASE LoopReadErr \/ LoopPongLock \/ LoopPongRefused \/ LoopPongSend \/ LoopPongFail
  <2>1. /\ lpc \in {"read", "pongLock", "pongSend"}
        /\ lpc' \in {"read", "pongLock", "pongSend", "exit"}
        /\ UNCHANGED <<cur, dataCh, dataClosed, got, rcvd, rres, term>>
    BY <1>4 DEF LoopReadErr, LoopPongLock, LoopPongRefused, LoopPongSend, LoopPongFail,
                LoopExits
  <2>2. rcvd = QueueEnd /\ QueueEnd' = QueueEnd
    BY <2>1 DEF ReadInv, ChainInv, QueueEnd, CurEnd, ReadSoFar
  <2> QED BY <2>1, <2>2 DEF EndInv, Drained
<1>5. CASE LoopCloseData
  <2>1. /\ lpc = "exit" /\ lpc' = "exited" /\ dataClosed'
        /\ UNCHANGED <<cur, dataCh, got, rcvd, rres, term>>
    BY <1>5 DEF LoopCloseData
  <2>2. \A q \in Readers : rres'[q] # "EOF" BY <2>1 DEF EndInv, Drained
  <2> QED BY <2>1, <2>2 DEF EndInv, QueueEnd, CurEnd, ReadSoFar
<1>6. CASE LoopDone
  <2>1. /\ lpc = "exited" /\ lpc' = "stopped"
        /\ UNCHANGED <<cur, dataCh, dataClosed, got, rcvd, rres, term>>
    BY <1>6 DEF LoopDone
  <2> QED BY <2>1 DEF EndInv, Drained, QueueEnd, CurEnd, ReadSoFar
<1> QED BY <1>1, <1>2, <1>3, <1>4, <1>5, <1>6 DEF LoopStep

\* The variables of the read side, which only Read, the read loop and the end of a
\* closing call change.
readSide == <<cur, dataCh, dataClosed, got, rcvd, lpc, rres>>

LEMMA OthersLeaveReadSide ==
  ASSUME [Next]_vars
  PROVE  \/ \E r \in Readers : ReadCall(r) \/ ReadStep(r)
         \/ LoopStep
         \/ UNCHANGED readSide /\ (term' = term \/ term' = TRUE)
<1> USE DEF readVars, queueVars, writeVars, pingVars, closeVars, errVars,
            loopVars, relVars, inVars, outVars, dlVars, readSide
<1>1. ASSUME NEW w \in Writers, WriteCall(w) \/ WriteStep(w) PROVE UNCHANGED <<readSide, term>>
  BY <1>1 DEF WriteCall, WriteStep, WriteLock, WriteRefused, WriteCheck, WriteChunk,
              WriteFail, WriteReturns
<1>2. ASSUME NEW p \in Pingers, PingCall(p) \/ PingStep(p) PROVE UNCHANGED <<readSide, term>>
  BY <1>2 DEF PingCall, PingStep, PingLock, PingSend, PingFail, PingDone, PingReturns
<1>3. ASSUME NEW c \in Closers, CloseCall(c) \/ CloseStep(c)
      PROVE  UNCHANGED readSide /\ (term' = term \/ term' = TRUE)
  BY <1>3 DEF CloseCall, CloseStep, CloseLocal, CloseTerm, CloseAgain, CloseSend, CloseFinish
<1>4. ASSUME ReleaseStep PROVE UNCHANGED <<readSide, term>>
  BY <1>4 DEF ReleaseStep, ReleaseWait, ReleaseDrained, ReleaseDiscard, ReleaseClose
<1>5. ASSUME SetReadDeadline \/ SetWriteDeadline \/ Environment PROVE UNCHANGED <<readSide, term>>
  BY <1>5 DEF SetReadDeadline, SetWriteDeadline, Environment, PeerSend, PeerEnd, PeerAck
<1>6. ASSUME UNCHANGED vars PROVE UNCHANGED <<readSide, term>> BY <1>6 DEF vars
<1> HIDE DEF readSide
<1> QED BY <1>1, <1>2, <1>3, <1>4, <1>5, <1>6 DEF Next, Calls, Steps

LEMMA EndNext == ReadInv /\ EndInv /\ [Next]_vars => EndInv'
<1> SUFFICES ASSUME ReadInv, EndInv, [Next]_vars PROVE EndInv'
  OBVIOUS
<1>1. ASSUME UNCHANGED readSide, term' = term \/ term' = TRUE PROVE EndInv'
  BY <1>1, EndFrame DEF readSide
<1> QED BY <1>1, OthersLeaveReadSide, EndRead, EndLoop

\* A step of Read that hands out bytes is a delivery.
LEMMA CopyIsDeliver ==
  ASSUME ReadInv, EndInv, EndInv', NEW r \in Readers, NEW b \in Payloads, Copy(r, b),
         b.lo = ReadSoFar + 1, b.lo <= b.hi, b.hi <= rcvd, ~Drained
  PROVE  ReadSide!Next
<1>0. ReadTypes BY ReadTypesHold DEF ReadInv
<1>1. PICK hi \in b.lo .. b.hi :
        /\ got' = Append(got, [lo |-> b.lo, hi |-> hi])
        /\ term' = term /\ rcvd' = rcvd
  BY CopyDelivers
<1>2. b.lo \in Nat /\ hi \in Nat /\ hi <= rcvd /\ rcvd \in Nat BY <1>0 DEF Payloads, ReadTypes
<1> DEFINE g == [lo |-> b.lo, hi |-> hi]
<1>a. g \in Payloads /\ g.lo = b.lo /\ g.hi = hi /\ got' = Append(got, g)
  BY <1>1, <1>2 DEF Payloads
<1> HIDE DEF g
<1>3. Len(got') = Len(got) + 1 /\ got'[Len(got')] = g
  BY <1>0, <1>a DEF ReadTypes
<1>4. ReadSide!Count(got) = ReadSoFar BY DEF ReadSide!Count, ReadSoFar
<1>5. ReadSide!Count(got') = ReadSoFar' BY DEF ReadSide!Count, ReadSoFar
<1>6. Drained' => term \/ ReadSoFar' = rcvd
  BY <1>1 DEF EndInv, Drained, QueueEnd, CurEnd
<1>7. Drained' \in BOOLEAN BY DEF Drained
<1>8. ReadSide!Deliver
  BY <1>1, <1>2, <1>a, <1>3, <1>4, <1>5, <1>6, <1>7 DEF ReadSide!Deliver, ReadSide!Complete
<1> QED BY <1>8 DEF ReadSide!Next

\* Every step of the stream is a step of the byte stream, or changes nothing that
\* its reader could see.
LEMMA ReadSideStep ==
  ReadInv /\ EndInv /\ EndInv' /\ [Next]_vars => [ReadSide!Next]_(ReadSide!vars)
<1> SUFFICES ASSUME ReadInv, EndInv, EndInv', [Next]_vars
             PROVE  ReadSide!Next \/ UNCHANGED <<rcvd, got, term, Drained>>
  BY DEF ReadSide!vars
<1>0. ReadTypes BY ReadTypesHold DEF ReadInv
<1> USE DEF queueVars, closeVars, loopVars
<1>1. ASSUME UNCHANGED readSide, term' = term \/ term' = TRUE
      PROVE  ReadSide!Next \/ UNCHANGED <<rcvd, got, term, Drained>>
  <2>1. UNCHANGED <<rcvd, got, Drained>> BY <1>1 DEF readSide, Drained
  <2>2. CASE term' = term BY <2>1, <2>2
  <2>3. CASE term' # term
    <3>1. term \in BOOLEAN BY DEF ReadInv, TypeOK
    <3>2. ~term /\ term' = TRUE BY <1>1, <2>3, <3>1
    <3>3. ReadSide!Cut BY <2>1, <3>2 DEF ReadSide!Cut
    <3> QED BY <3>3 DEF ReadSide!Next
  <2> QED BY <2>2, <2>3
<1>2. ASSUME NEW r \in Readers, ReadCall(r) \/ ReadStep(r)
      PROVE  ReadSide!Next \/ UNCHANGED <<rcvd, got, term, Drained>>
  <2>1. CASE \/ ReadCall(r) \/ ReadLock(r) \/ ReadBlock(r) \/ ReadRefused(r) \/ ReadClosed(r)
             \/ ReadExpired(r) \/ ReadEnd(r)
    <3>1. UNCHANGED <<cur, dataCh, dataClosed, got, rcvd, term>>
      BY <2>1 DEF ReadCall, ReadLock, ReadBlock, ReadRefused, ReadClosed, ReadExpired,
                  ReadEnd, ReadReturns
    <3> QED BY <3>1 DEF Drained
  <2>2. CASE ReadCur(r)
    <3>1. /\ cur # NoData /\ Copy(r, cur) /\ cur \in Payloads
          /\ cur.lo = ReadSoFar + 1 /\ cur.lo <= cur.hi /\ cur.hi <= rcvd
      BY <1>0, <2>2 DEF ReadCur, ReadTypes, ReadInv, ChainInv, EndInv
    <3>2. ~Drained BY <3>1 DEF Drained
    <3> QED BY <3>1, <3>2, CopyIsDeliver
  <2>3. CASE ReadTake(r)
    <3>1. /\ Copy(r, dataCh[1]) /\ dataCh[1] \in Payloads /\ Len(dataCh) \in Nat \ {0}
          /\ dataCh[1].lo = ReadSoFar + 1 /\ dataCh[1].lo <= dataCh[1].hi
      BY <2>3, ReadTakeKeepsChain
    <3>2. 1 \in 1 .. Len(dataCh) /\ dataCh[1].hi <= rcvd BY <3>1 DEF EndInv
    <3>3. ~Drained BY <2>3 DEF Drained, ReadTake
    <3> QED BY <3>1, <3>2, <3>3, CopyIsDeliver
  <2> QED BY <1>2, <2>1, <2>2, <2>3 DEF ReadStep
<1>3. ASSUME LoopStep PROVE ReadSide!Next \/ UNCHANGED <<rcvd, got, term, Drained>>
  <2>1. UNCHANGED <<cur, got, term>>
    BY <1>3 DEF LoopStep, LoopRead, LoopReadErr, LoopEnqueue, LoopDrop, LoopPongLock,
                LoopPongRefused, LoopPongSend, LoopPongFail, LoopCloseData, LoopDone,
                readVars
  <2>2. CASE LoopRead
    <3> DEFINE f == in[rpos + 1]
    <3>1. lpc = "read" /\ UNCHANGED <<dataCh, dataClosed>> BY <2>2 DEF LoopRead
    <3>2. ~Drained /\ ~Drained' BY <3>1 DEF EndInv, Drained
    <3>3. f \in InFrames BY <2>2 DEF LoopRead, ReadInv, TypeOK
    <3>4. CASE LoopData(f)
      <4>1. Size(f) \in Nat BY <3>3, <3>4 DEF LoopData, InFrames, Frames, Size
      <4>2. rcvd' = rcvd + Size(f) BY <3>4 DEF LoopData
      <4> HIDE DEF f
      <4>3. rcvd' = rcvd \/ (rcvd' \in Nat /\ rcvd' > rcvd)
        BY <1>0, <4>1, <4>2 DEF ReadTypes
      <4>a. Drained' = Drained BY <3>2 DEF Drained
      <4>4. CASE rcvd' = rcvd BY <2>1, <4>a, <4>4
      <4>5. CASE rcvd' \in Nat /\ rcvd' > rcvd
        <5>1. ReadSide!Arrive BY <2>1, <3>2, <4>5, <4>a DEF ReadSide!Arrive
        <5> QED BY <5>1 DEF ReadSide!Next
      <4> QED BY <4>3, <4>4, <4>5
    <3>5. CASE LoopPing(f) \/ LoopPong(f) \/ LoopClose(f) \/ LoopBad(f)
      <4>1. rcvd' = rcvd BY <3>5 DEF LoopPing, LoopPong, LoopClose, LoopBad
      <4> QED BY <2>1, <3>1, <4>1 DEF Drained
    <3> QED BY <2>2, <3>4, <3>5 DEF LoopRead
  <2>3. CASE LoopEnqueue
    <3>1. lpc = "enqueue" /\ UNCHANGED <<dataClosed, rcvd>> BY <2>3 DEF LoopEnqueue
    <3>2. ~dataClosed BY <3>1 DEF EndInv
    <3> QED BY <2>1, <3>1, <3>2 DEF Drained
  <2>4. CASE LoopCloseData
    <3>1. lpc = "exit" /\ dataClosed' /\ UNCHANGED <<dataCh, rcvd>> BY <2>4 DEF LoopCloseData
    <3>2. ~Drained BY <3>1 DEF EndInv, Drained
    <3>3. CASE Drained'
      <4>1. dataCh = <<>> /\ cur = NoData BY <2>1, <3>1, <3>3 DEF Drained
      <4>2. term \/ ReadSoFar = rcvd BY <3>1, <4>1 DEF EndInv, QueueEnd, CurEnd
      <4>3. ReadSide!Complete(got) BY <4>2 DEF ReadSide!Complete, ReadSide!Count, ReadSoFar
      <4>4. Drained' = TRUE BY <3>3 DEF Drained
      <4>5. ReadSide!Finish BY <2>1, <3>1, <3>2, <4>3, <4>4 DEF ReadSide!Finish
      <4> QED BY <4>5 DEF ReadSide!Next
    <3>4. CASE ~Drained'
      <4>1. Drained' = Drained BY <3>2, <3>4 DEF Drained
      <4> QED BY <2>1, <3>1, <4>1
    <3> QED BY <3>3, <3>4
  <2>5. CASE \/ LoopReadErr \/ LoopDrop \/ LoopPongLock \/ LoopPongRefused \/ LoopPongSend
             \/ LoopPongFail \/ LoopDone
    <3>1. UNCHANGED <<dataCh, dataClosed, rcvd>>
      BY <2>5 DEF LoopReadErr, LoopDrop, LoopPongLock, LoopPongRefused, LoopPongSend,
                  LoopPongFail, LoopDone
    <3> QED BY <2>1, <3>1 DEF Drained
  <2> QED BY <1>3, <2>2, <2>3, <2>4, <2>5 DEF LoopStep
<1> QED BY <1>1, <1>2, <1>3, OthersLeaveReadSide

\* The read side of a stream implements the byte stream that net.Conn promises,
\* for any number of readers, any queue and any closing calls: bytes in order and
\* without a gap, then the end, and EOF for no reader before that end.
THEOREM ReadSideImplements == Spec => ReadsAreByteStream
<1>1. Init => ReadSide!Init
  BY DEF Init, ReadSide!Init, Drained
<1>2. EndInv => \A r \in Readers : rres[r] = "EOF" => Drained
  BY DEF EndInv
<1> QED BY ReadInit, ReadNext, EndInit, EndNext, ReadSideStep, <1>1, <1>2, PTL
        DEF Spec, ReadsAreByteStream, ReadSide!Spec
-----------------------------------------------------------------------------
(* The drain and the ping.                                                 *)

\* The drain has ended as its caller was promised.
DrainEnded == acked >= mustAck \/ timedOut \/ inEnd # "open"

(* One closing call runs termOnce, and only it starts the release          *)
(* goroutine, so the release goroutine acts on the drain flag of that      *)
(* call.  A call that drains has closed the stream locally, so what must   *)
(* be acknowledged is settled before the release goroutine looks at it.    *)
DrainInv ==
  /\ mustAck <= Len(out)
  /\ \A c \in Closers : drain[c] => mode[c] = "close" /\ cpc[c] # "idle"
  /\ \A c \in Closers : cpc[c] \in {"frame", "finish"} => termBy = c
  /\ termBy # None => cpc[termBy] \in {"frame", "finish", "done"}
  /\ rel # "none" => termBy # None /\ cpc[termBy] = "done"
  /\ released => rel = "released"
  /\ rel \in {"closeCh", "released"} /\ drain[termBy] => DrainEnded

LEMMA DrainInit == Init => DrainInv
<1> SUFFICES ASSUME Init PROVE DrainInv
  OBVIOUS
<1>1. drain = [c \in Closers |-> FALSE] /\ cpc = [c \in Closers |-> "idle"] BY DEF Init
<1>2. \A c \in Closers : ~drain[c] /\ cpc[c] = "idle" BY <1>1
<1>3. termBy = None /\ rel = "none" /\ ~released /\ mustAck = 0 /\ Len(out) = 0 BY DEF Init
<1> QED BY <1>2, <1>3 DEF DrainInv

\* Steps that touch neither a closing call nor the release goroutine.
LEMMA DrainFrame ==
  ASSUME TypeOK, TypeOK', DrainInv, UNCHANGED <<closeVars, rel, timedOut, released>>,
         Len(out) <= Len(out'), acked <= acked', inEnd # "open" => inEnd' # "open"
  PROVE  DrainInv'
<1>1. /\ Len(out) \in Nat /\ Len(out') \in Nat /\ acked \in Nat /\ acked' \in Nat /\ mustAck \in Nat
  BY SMTT(30) DEF TypeOK
<1>2. /\ UNCHANGED <<cpc, mode, drain, termBy, mustAck, rel, timedOut, released>>
  BY DEF closeVars
<1>3. DrainEnded => DrainEnded' BY <1>1, <1>2 DEF DrainEnded
<1>4. mustAck' <= Len(out') BY <1>1, <1>2 DEF DrainInv
<1> HIDE DEF DrainEnded
<1> QED BY <1>2, <1>3, <1>4 DEF DrainInv

\* Outside of closing calls and the release goroutine the wire only grows.
LEMMA DrainOthers ==
  ASSUME TypeOK, [Next]_vars
  PROVE  \/ \E c \in Closers : CloseCall(c) \/ CloseStep(c)
         \/ ReleaseStep
         \/ /\ UNCHANGED <<closeVars, rel, timedOut, released>>
            /\ Len(out) <= Len(out') /\ acked <= acked'
            /\ inEnd # "open" => inEnd' # "open"
<1> DEFINE Same == /\ UNCHANGED <<closeVars, rel, timedOut, released>>
                   /\ Len(out) <= Len(out') /\ acked <= acked'
                   /\ inEnd # "open" => inEnd' # "open"
<1>0. Len(out) \in Nat /\ acked \in Nat /\ out \in Seq(Frames) BY DEF TypeOK
<1>a. \A f : out' = Append(out, f) => Len(out') = Len(out) + 1 BY <1>0
<1> USE DEF readVars, queueVars, writeVars, pingVars, closeVars, errVars,
            loopVars, relVars, inVars, outVars, dlVars
<1>1. ASSUME NEW r \in Readers, ReadCall(r) \/ ReadStep(r) PROVE Same
  <2>1. UNCHANGED <<closeVars, relVars, inVars, outVars>>
    BY <1>1 DEF ReadCall, ReadStep, ReadLock, ReadRefused, ReadCur, ReadTake, ReadEnd,
                ReadClosed, ReadBlock, ReadExpired, ReadReturns, Copy
  <2> QED BY <1>0, <2>1
<1>2. ASSUME NEW w \in Writers, WriteCall(w) \/ WriteStep(w) PROVE Same
  <2>1. UNCHANGED <<closeVars, relVars, inVars>>
    BY <1>2 DEF WriteCall, WriteStep, WriteLock, WriteRefused, WriteCheck, WriteChunk,
                WriteFail, WriteReturns
  <2>2. acked' = acked /\ (out' = out \/ \E f : out' = Append(out, f))
    BY <1>2 DEF WriteCall, WriteStep, WriteLock, WriteRefused, WriteCheck, WriteChunk,
                WriteFail, WriteReturns, ChannelWrite
  <2> QED BY <1>0, <1>a, <2>1, <2>2
<1>3. ASSUME NEW p \in Pingers, PingCall(p) \/ PingStep(p) PROVE Same
  <2>1. UNCHANGED <<closeVars, relVars, inVars>>
    BY <1>3 DEF PingCall, PingStep, PingLock, PingSend, PingFail, PingDone, PingReturns
  <2>2. acked' = acked /\ (out' = out \/ \E f : out' = Append(out, f))
    BY <1>3 DEF PingCall, PingStep, PingLock, PingSend, PingFail, PingDone, PingReturns,
                ChannelWrite
  <2> QED BY <1>0, <1>a, <2>1, <2>2
<1>4. ASSUME LoopStep PROVE Same
  <2>1. UNCHANGED <<closeVars, relVars, inEnd>>
    BY <1>4 DEF LoopStep, LoopRead, LoopReadErr, LoopEnqueue, LoopDrop, LoopPongLock,
                LoopPongRefused, LoopPongSend, LoopPongFail, LoopCloseData, LoopDone
  <2>2. acked' = acked /\ (out' = out \/ \E f : out' = Append(out, f))
    BY <1>4 DEF LoopStep, LoopRead, LoopReadErr, LoopEnqueue, LoopDrop, LoopPongLock,
                LoopPongRefused, LoopPongSend, LoopPongFail, LoopCloseData, LoopDone,
                ChannelWrite
  <2> QED BY <1>0, <1>a, <2>1, <2>2
<1>5. ASSUME SetReadDeadline \/ SetWriteDeadline \/ Environment \/ UNCHANGED vars PROVE Same
  <2>1. UNCHANGED <<closeVars, relVars, out>> /\ (acked' = acked \/ acked' = acked + 1)
    BY <1>5 DEF SetReadDeadline, SetWriteDeadline, Environment, PeerSend, PeerEnd, PeerAck, vars
  <2>2. inEnd' = inEnd \/ inEnd = "open"
    BY <1>5 DEF SetReadDeadline, SetWriteDeadline, Environment, PeerSend, PeerEnd, PeerAck, vars
  <2> QED BY <1>0, <2>1, <2>2
<1> HIDE DEF Same
<1>6. (\E c \in Closers : CloseCall(c) \/ CloseStep(c)) \/ ReleaseStep \/ Same
  BY <1>1, <1>2, <1>3, <1>4, <1>5 DEF Next, Calls, Steps
<1> QED BY <1>6 DEF Same

LEMMA DrainClose ==
  ASSUME WriteInv, TypeOK', DrainInv, NEW c \in Closers, CloseCall(c) \/ CloseStep(c)
  PROVE  DrainInv'
<1> USE CallsAssumption
        DEF readVars, queueVars, writeVars, pingVars, closeVars, errVars,
            loopVars, relVars, inVars, outVars, dlVars
<1>0. /\ cpc \in [Closers -> {"idle", "local", "term", "frame", "finish", "done"}]
      /\ mode \in [Closers -> AllCloseModes]
      /\ drain \in [Closers -> BOOLEAN]
      /\ termBy \in Closers \cup {None} /\ out \in Seq(Frames) /\ mustAck \in Nat /\ acked \in Nat
      /\ rel \in {"none", "waitDone", "acks", "closeCh", "released"}
  <2>1. TypeOK BY DEF WriteInv
  <2> QED BY <2>1, Zenon DEF TypeOK
<1>a. None \notin Closers OBVIOUS
<1>1. CASE CloseCall(c)
  <2>1. PICK m \in CloseModes :
          /\ mode' = [mode EXCEPT ![c] = m]
          /\ drain' = [drain EXCEPT ![c] = m = "close" /\ readErr = "nil"]
          /\ cpc' = [cpc EXCEPT ![c] = IF m = "close" THEN "local" ELSE "term"]
    BY <1>1 DEF CloseCall
  <2>2. cpc[c] = "idle" /\ UNCHANGED <<termBy, mustAck, rel, timedOut, released, inEnd, out, acked>>
    BY <1>1 DEF CloseCall
  <2>3. termBy # c BY <1>a, <2>2 DEF DrainInv
  <2>4. \A d \in Closers : d # c => drain'[d] = drain[d] /\ mode'[d] = mode[d] /\ cpc'[d] = cpc[d]
    BY <1>0, <2>1
  <2>5. /\ mode'[c] = m /\ cpc'[c] \in {"local", "term"}
    BY <1>0, <2>1
  <2>6. drain'[c] => m = "close"
    <3> DEFINE d == m = "close" /\ readErr = "nil"
    <3>1. drain' = [drain EXCEPT ![c] = d] BY <2>1
    <3>2. d => m = "close" OBVIOUS
    <3> HIDE DEF d
    <3>3. drain'[c] = d BY <1>0, <3>1, Zenon
    <3> QED BY <3>2, <3>3
  <2>7. termBy # None => termBy \in Closers /\ drain'[termBy] = drain[termBy] /\ cpc'[termBy] = cpc[termBy]
    BY <1>0, <2>3, <2>4
  <2>8. DrainEnded' <=> DrainEnded BY <2>2 DEF DrainEnded
  <2> HIDE DEF DrainEnded
  <2>9. \A d \in Closers : drain'[d] => mode'[d] = "close" /\ cpc'[d] # "idle"
    <3> SUFFICES ASSUME NEW d \in Closers, drain'[d] PROVE mode'[d] = "close" /\ cpc'[d] # "idle"
      OBVIOUS
    <3>1. CASE d = c BY <2>5, <2>6, <3>1
    <3>2. CASE d # c BY <2>4, <3>2 DEF DrainInv
    <3> QED BY <3>1, <3>2
  <2>10. \A d \in Closers : cpc'[d] \in {"frame", "finish"} => termBy' = d
    BY <2>2, <2>4, <2>5 DEF DrainInv
  <2> QED BY <2>2, <2>7, <2>8, <2>9, <2>10 DEF DrainInv
<1>2. CASE CloseLocal(c)
  <2>1. /\ cpc[c] = "local" /\ cpc' = [cpc EXCEPT ![c] = "term"]
        /\ UNCHANGED <<mode, drain, termBy, rel, timedOut, released, inEnd, out, acked>>
    BY <1>2 DEF CloseLocal
  <2>2. mustAck' = mustAck \/ (~closed /\ mustAck' = Len(out))
    <3>1. CASE closed BY <1>2, <3>1 DEF CloseLocal
    <3>2. CASE ~closed
      <4>1. mustAck' = Len(out) BY <1>2, <3>2, Zenon DEF CloseLocal
      <4> QED BY <3>2, <4>1
    <3> QED BY <3>1, <3>2
  <2>3. mustAck' <= Len(out') BY <1>0, <2>1, <2>2 DEF DrainInv
  <2>4. termBy # c BY <2>1, <1>a DEF DrainInv
  <2>5. rel # "none" /\ drain[termBy] => closed
    BY <1>0 DEF DrainInv, WriteInv, CloseInv
  <2>6. rel \in {"closeCh", "released"} /\ drain[termBy] => DrainEnded'
    BY <2>1, <2>2, <2>5 DEF DrainInv, DrainEnded
  <2>7. /\ \A d \in Closers : d # c => cpc'[d] = cpc[d]
        /\ cpc'[c] = "term"
    BY <1>0, <2>1
  <2>8. termBy # None => cpc'[termBy] = cpc[termBy] BY <1>0, <2>4, <2>7
  <2> HIDE DEF DrainEnded
  <2> QED BY <2>1, <2>3, <2>6, <2>7, <2>8 DEF DrainInv
<1>3. CASE CloseTerm(c)
  <2>1. /\ cpc[c] = "term" /\ termBy = None /\ termBy' = c
        /\ cpc' = [cpc EXCEPT ![c] = IF wsem = None THEN "frame" ELSE "finish"]
        /\ UNCHANGED <<mode, drain, mustAck, rel, timedOut, released, inEnd, out, acked>>
    BY <1>3 DEF CloseTerm
  <2>2. rel = "none" BY <2>1 DEF DrainInv
  <2>3. /\ \A d \in Closers : d # c => cpc'[d] = cpc[d]
        /\ cpc'[c] \in {"frame", "finish"}
    BY <1>0, <2>1
  <2>4. \A d \in Closers : cpc[d] \notin {"frame", "finish"} BY <1>a, <2>1 DEF DrainInv
  <2>5. \A d \in Closers : cpc'[d] \in {"frame", "finish"} => d = c BY <2>3, <2>4
  <2> QED BY <1>a, <2>1, <2>2, <2>3, <2>5 DEF DrainInv
<1>4. CASE CloseAgain(c)
  <2>1. /\ cpc[c] = "term" /\ cpc' = [cpc EXCEPT ![c] = "done"]
        /\ UNCHANGED <<mode, drain, termBy, mustAck, rel, timedOut, released, inEnd, out, acked>>
    BY <1>4 DEF CloseAgain
  <2>2. /\ \A d \in Closers : d # c => cpc'[d] = cpc[d]
        /\ cpc'[c] = "done"
    BY <1>0, <2>1
  <2>3. termBy # c BY <1>a, <2>1 DEF DrainInv
  <2>4. termBy # None => cpc'[termBy] = cpc[termBy] BY <1>0, <2>2, <2>3
  <2>5. DrainEnded' <=> DrainEnded BY <2>1 DEF DrainEnded
  <2> HIDE DEF DrainEnded
  <2> QED BY <2>1, <2>2, <2>4, <2>5 DEF DrainInv
<1>5. CASE CloseSend(c)
  <2>1. /\ cpc[c] = "frame" /\ cpc' = [cpc EXCEPT ![c] = "finish"]
        /\ UNCHANGED <<mode, drain, termBy, mustAck, rel, timedOut, released, inEnd>>
    BY <1>5 DEF CloseSend
  <2>2. acked' = acked /\ (out' = out \/ out' = Append(out, CloseFrame(c)))
    BY <1>5 DEF CloseSend, ChannelWrite
  <2>3. mustAck' <= Len(out')
    <3>1. Len(out) \in Nat /\ (Len(out') = Len(out) \/ Len(out') = Len(out) + 1) BY <1>0, <2>2
    <3> QED BY <1>0, <2>1, <3>1 DEF DrainInv
  <2>4. termBy = c /\ rel = "none"
    <3>1. termBy = c BY <2>1 DEF DrainInv
    <3> QED BY <2>1, <3>1 DEF DrainInv
  <2>5. /\ \A d \in Closers : d # c => cpc'[d] = cpc[d]
        /\ cpc'[c] = "finish"
    BY <1>0, <2>1
  <2> QED BY <1>a, <2>1, <2>3, <2>4, <2>5 DEF DrainInv
<1>6. CASE CloseFinish(c)
  <2>1. /\ cpc[c] = "finish" /\ cpc' = [cpc EXCEPT ![c] = "done"]
        /\ rel' = IF drain[c] THEN "waitDone" ELSE "closeCh"
        /\ UNCHANGED <<mode, drain, termBy, mustAck, timedOut, released, inEnd, out, acked>>
    BY <1>6 DEF CloseFinish
  <2>2. termBy = c BY <2>1 DEF DrainInv
  <2>3. rel = "none" BY <2>1, <2>2 DEF DrainInv
  <2>4. ~released BY <2>3 DEF DrainInv
  <2>5. /\ \A d \in Closers : d # c => cpc'[d] = cpc[d]
        /\ cpc'[c] = "done"
    BY <1>0, <2>1
  <2>6. rel' \in {"closeCh", "released"} => ~drain'[termBy'] BY <2>1, <2>2
  <2> QED BY <1>a, <2>1, <2>2, <2>4, <2>5, <2>6 DEF DrainInv
<1> QED BY <1>1, <1>2, <1>3, <1>4, <1>5, <1>6 DEF CloseStep

LEMMA DrainRelease == ASSUME TypeOK, DrainInv, ReleaseStep PROVE DrainInv'
<1> USE DEF closeVars, relVars, inVars, outVars
<1>0. /\ acked \in Nat /\ mustAck \in Nat /\ out \in Seq(Frames) /\ Len(out) \in Nat
      /\ UNCHANGED <<cpc, mode, drain, termBy, mustAck, out, acked, inEnd>>
  BY DEF ReleaseStep, ReleaseWait, ReleaseDrained, ReleaseDiscard, ReleaseClose, TypeOK
<1>1. CASE ReleaseWait \/ ReleaseDiscard
  <2>1. rel \in {"waitDone", "acks"} /\ rel' = "acks" /\ released' = released
    BY <1>1 DEF ReleaseWait, ReleaseDiscard
  <2> QED BY <1>0, <2>1 DEF DrainInv
<1>2. CASE ReleaseDrained
  <2>1. rel = "acks" /\ rel' = "closeCh" /\ released' = released BY <1>2 DEF ReleaseDrained
  <2>2. acked = Len(out) \/ inEnd # "open" \/ timedOut'
    <3>1. BufferedAmount = 0 => acked = Len(out) BY <1>0 DEF BufferedAmount
    <3> QED BY <1>2, <3>1 DEF ReleaseDrained
  <2>3. DrainEnded' BY <1>0, <2>2 DEF DrainEnded, DrainInv
  <2> HIDE DEF DrainEnded
  <2> QED BY <1>0, <2>1, <2>3 DEF DrainInv
<1>3. CASE ReleaseClose
  <2>1. rel = "closeCh" /\ rel' = "released" /\ timedOut' = timedOut BY <1>3 DEF ReleaseClose
  <2>2. DrainEnded' <=> DrainEnded BY <1>0, <2>1 DEF DrainEnded
  <2> HIDE DEF DrainEnded
  <2> QED BY <1>0, <2>1, <2>2 DEF DrainInv
<1> QED BY <1>1, <1>2, <1>3 DEF ReleaseStep

LEMMA DrainNext == WriteInv /\ DrainInv /\ [Next]_vars => DrainInv'
<1> SUFFICES ASSUME WriteInv, DrainInv, [Next]_vars PROVE DrainInv'
  OBVIOUS
<1>1. TypeOK BY DEF WriteInv
<1>2. TypeOK' BY <1>1, TypeNext
<1> QED BY <1>1, <1>2, DrainOthers, DrainFrame, DrainClose, DrainRelease

\* A closing call that decided to drain does, whatever other closing calls run with it:
\* the channel is closed only when what was written before the close is acknowledged,
\* the peer is gone, or drainTimeout has passed.
THEOREM DrainIsHonoured == Spec => []DrainHonoured
<1>1. DrainInv => DrainHonoured BY DEF DrainInv, DrainHonoured, DrainEnded
<1> QED BY <1>1, WriteInit, WriteNext, DrainInit, DrainNext, PTL DEF Spec

\* A ping that is under way stays registered, or its pong has come: only its own return
\* and its own pong withdraw it.
LEMMA ProbeKeptNext ==
  ASSUME TypeOK, NEW p \in Pingers, ProbeKept(p), [Next]_vars PROVE ProbeKept(p)'
<1> USE CallsAssumption
        DEF readVars, queueVars, writeVars, pingVars, closeVars, errVars,
            loopVars, relVars, inVars, outVars, dlVars
<1>0. ppc \in [Pingers -> {"idle", "lock", "send", "await", "answered", "failed"}]
  BY DEF TypeOK
<1>1. CASE UNCHANGED pingVars BY <1>1 DEF ProbeKept
<1>2. ASSUME NEW q \in Pingers, PingCall(q) \/ PingStep(q) PROVE ProbeKept(p)'
  <2>1. CASE PingCall(q) BY <1>0, <2>1 DEF PingCall, ProbeKept
  <2>2. CASE PingLock(q) BY <1>0, <2>2 DEF PingLock, ProbeKept
  <2>3. CASE PingSend(q) BY <1>0, <2>3 DEF PingSend, ProbeKept
  <2>4. ASSUME NEW how \in {"answered", "failed"}, PingReturns(q, how) PROVE ProbeKept(p)'
    BY <1>0, <2>4 DEF PingReturns, ProbeKept
  <2> QED BY <1>2, <2>1, <2>2, <2>3, <2>4 DEF PingStep, PingFail, PingDone
<1>3. ASSUME LoopRead PROVE ProbeKept(p)'
  <2> DEFINE f == in[rpos + 1]
  <2>1. CASE LoopPong(f) BY <2>1 DEF LoopPong, DeliverPong, ProbeKept
  <2>2. LoopPong(f) \/ UNCHANGED pingVars
    BY <1>3 DEF LoopRead, LoopData, LoopPing, LoopClose, LoopBad
  <2> QED BY <1>1, <2>1, <2>2
<1>4. ASSUME NEW r \in Readers, ReadCall(r) \/ ReadStep(r) PROVE UNCHANGED pingVars
  BY <1>4 DEF ReadCall, ReadStep, ReadLock, ReadRefused, ReadCur, ReadTake, ReadEnd,
              ReadClosed, ReadBlock, ReadExpired, ReadReturns, Copy
<1>5. ASSUME NEW w \in Writers, WriteCall(w) \/ WriteStep(w) PROVE UNCHANGED pingVars
  BY <1>5 DEF WriteCall, WriteStep, WriteLock, WriteRefused, WriteCheck, WriteChunk,
              WriteFail, WriteReturns
<1>6. ASSUME NEW c \in Closers, CloseCall(c) \/ CloseStep(c) PROVE UNCHANGED pingVars
  BY <1>6 DEF CloseCall, CloseStep, CloseLocal, CloseTerm, CloseAgain, CloseSend, CloseFinish
<1>7. ASSUME LoopStep PROVE LoopRead \/ UNCHANGED pingVars
  BY <1>7 DEF LoopStep, LoopReadErr, LoopEnqueue, LoopDrop, LoopPongLock, LoopPongRefused,
              LoopPongSend, LoopPongFail, LoopCloseData, LoopDone
<1>8. ASSUME ReleaseStep PROVE UNCHANGED pingVars
  BY <1>8 DEF ReleaseStep, ReleaseWait, ReleaseDrained, ReleaseDiscard, ReleaseClose
<1>9. ASSUME SetReadDeadline \/ SetWriteDeadline \/ Environment \/ UNCHANGED vars
      PROVE  UNCHANGED pingVars
  BY <1>9 DEF SetReadDeadline, SetWriteDeadline, Environment, PeerSend, PeerEnd, PeerAck, vars
<1> QED BY <1>1, <1>2, <1>3, <1>4, <1>5, <1>6, <1>7, <1>8, <1>9 DEF Next, Calls, Steps

\* Only the read loop settles a ping, by the pong it has just taken off the channel; and a
\* Ping reports a round trip only when it was settled.
LEMMA ProbeMatchedNext ==
  ASSUME TypeOK, NEW p \in Pingers, ProbeMatched(p), [Next]_vars PROVE ProbeMatched(p)'
<1>0. /\ in \in Seq(InFrames) /\ rpos \in Nat /\ rpos <= Len(in) /\ Len(in) \in Nat
      /\ ppc \in [Pingers -> {"idle", "lock", "send", "await", "answered", "failed"}]
  BY DEF TypeOK
<1> DEFINE Grown == /\ rpos' \in Nat /\ rpos <= rpos'
                    /\ \A i \in 1 .. rpos : in'[i] = in[i]
           NotSettled == p \in reply' \/ ppc'[p] = "answered" => p \in reply \/ ppc[p] = "answered"
<1>a. ASSUME Grown, NotSettled PROVE ProbeMatched(p)'
  <2>1. 1 .. rpos \subseteq 1 .. rpos' BY <1>0, <1>a
  <2> QED BY <1>a, <2>1 DEF ProbeMatched
<1> USE DEF readVars, queueVars, writeVars, pingVars, closeVars, errVars,
            loopVars, relVars, inVars, outVars, dlVars
<1>1. CASE LoopRead
  <2> DEFINE f == in[rpos + 1]
  <2>1. rpos < Len(in) /\ rpos' = rpos + 1 /\ in' = in BY <1>1 DEF LoopRead
  <2>2. Grown BY <1>0, <2>1
  <2>3. CASE reply' = reply /\ ppc' = ppc BY <1>a, <2>2, <2>3
  <2>4. CASE LoopPong(f)
    <3>1. f.t = "pong" /\ (reply' = reply \/ reply' = reply \cup {f.by}) /\ ppc' = ppc
      BY <2>4 DEF LoopPong, DeliverPong
    <3>2. f \in InFrames BY <1>0, <2>1
    <3>3. f = PongFrame(f.by) BY <3>1, <3>2 DEF InFrames, Frames, PongFrame
    <3>4. rpos + 1 \in 1 .. rpos' /\ in'[rpos + 1] = f BY <1>0, <2>1
    <3> HIDE DEF f
    <3>5. CASE p = f.by /\ reply' # reply BY <3>3, <3>4, <3>5 DEF ProbeMatched
    <3>6. CASE p # f.by \/ reply' = reply BY <1>a, <2>2, <3>1, <3>6
    <3> QED BY <3>5, <3>6
  <2>5. LoopPong(f) \/ (reply' = reply /\ ppc' = ppc)
    BY <1>1 DEF LoopRead, LoopData, LoopPing, LoopClose, LoopBad
  <2> QED BY <2>3, <2>4, <2>5
<1>2. CASE PeerSend
  <2>1. PICK f \in PeerFrames : in' = Append(in, f) BY <1>2 DEF PeerSend
  <2>2. rpos' = rpos /\ reply' = reply /\ ppc' = ppc BY <1>2 DEF PeerSend
  <2>3. \A i \in 1 .. rpos : in'[i] = in[i] BY <1>0, <2>1
  <2> QED BY <1>0, <1>a, <2>2, <2>3
<1>3. ASSUME UNCHANGED <<reply, ppc, in>>, rpos' = rpos \/ rpos' = rpos + 1 PROVE ProbeMatched(p)'
  BY <1>0, <1>a, <1>3
<1>4. ASSUME NEW r \in Readers, ReadCall(r) \/ ReadStep(r) PROVE UNCHANGED <<reply, ppc, in, rpos>>
  BY <1>4 DEF ReadCall, ReadStep, ReadLock, ReadRefused, ReadCur, ReadTake, ReadEnd,
              ReadClosed, ReadBlock, ReadExpired, ReadReturns, Copy
<1>5. ASSUME NEW w \in Writers, WriteCall(w) \/ WriteStep(w) PROVE UNCHANGED <<reply, ppc, in, rpos>>
  BY <1>5 DEF WriteCall, WriteStep, WriteLock, WriteRefused, WriteCheck, WriteChunk,
              WriteFail, WriteReturns
<1>6. ASSUME NEW q \in Pingers, PingCall(q) \/ PingStep(q) PROVE ProbeMatched(p)'
  <2>1. UNCHANGED <<reply, in, rpos>>
    BY <1>6 DEF PingCall, PingStep, PingLock, PingSend, PingFail, PingDone, PingReturns
  <2>2. Grown BY <1>0, <2>1
  <2>3. CASE PingCall(q) \/ PingLock(q) \/ PingSend(q)
    <3>1. \E to \in {"lock", "failed", "send", "await"} : ppc' = [ppc EXCEPT ![q] = to]
      BY <2>3 DEF PingCall, PingLock, PingSend
    <3> QED BY <1>0, <1>a, <2>1, <2>2, <3>1
  <2>4. ASSUME PingReturns(q, "failed") PROVE NotSettled BY <1>0, <2>1, <2>4 DEF PingReturns
  <2>5. ASSUME PingReturns(q, "answered"), q \in reply PROVE NotSettled
    BY <1>0, <2>1, <2>5 DEF PingReturns
  <2>6. CASE PingFail(q) \/ PingDone(q)
    <3>1. PingReturns(q, "failed") \/ (PingReturns(q, "answered") /\ q \in reply)
      BY <2>6, Zenon DEF PingFail, PingDone
    <3> QED BY <1>a, <2>2, <2>4, <2>5, <3>1
  <2> QED BY <1>6, <2>3, <2>6 DEF PingStep
<1>7. ASSUME NEW c \in Closers, CloseCall(c) \/ CloseStep(c) PROVE UNCHANGED <<reply, ppc, in, rpos>>
  BY <1>7 DEF CloseCall, CloseStep, CloseLocal, CloseTerm, CloseAgain, CloseSend, CloseFinish
<1>8. ASSUME LoopStep PROVE LoopRead \/ UNCHANGED <<reply, ppc, in, rpos>>
  BY <1>8 DEF LoopStep, LoopReadErr, LoopEnqueue, LoopDrop, LoopPongLock, LoopPongRefused,
              LoopPongSend, LoopPongFail, LoopCloseData, LoopDone
<1>9. ASSUME ReleaseStep PROVE UNCHANGED <<reply, ppc, in>> /\ (rpos' = rpos \/ rpos' = rpos + 1)
  BY <1>9 DEF ReleaseStep, ReleaseWait, ReleaseDrained, ReleaseDiscard, ReleaseClose
<1>10. ASSUME SetReadDeadline \/ SetWriteDeadline \/ Environment \/ UNCHANGED vars
       PROVE  PeerSend \/ UNCHANGED <<reply, ppc, in, rpos>>
  BY <1>10 DEF SetReadDeadline, SetWriteDeadline, Environment, PeerEnd, PeerAck, vars
<1>11. \/ LoopRead \/ PeerSend \/ ProbeMatched(p)'
       \/ UNCHANGED <<reply, ppc, in>> /\ (rpos' = rpos \/ rpos' = rpos + 1)
  BY <1>4, <1>5, <1>6, <1>7, <1>8, <1>9, <1>10 DEF Next, Calls, Steps
<1> QED BY <1>1, <1>2, <1>3, <1>11

\* A Ping that is under way is the outstanding one or has been answered, whatever other
\* Pings return meanwhile, and one that reports a round trip got its own pong.
THEOREM ProbesAreTracked == Spec => []ProbesTracked
<1>1. Init => ProbesTracked BY DEF Init, ProbesTracked, ProbeKept, ProbeMatched
<1>2. TypeOK /\ ProbesTracked /\ [Next]_vars => ProbesTracked'
  BY ProbeKeptNext, ProbeMatchedNext DEF ProbesTracked
<1> QED BY <1>1, <1>2, TypeInit, TypeNext, PTL DEF Spec
=============================================================================
