------------------------------- MODULE Stream -------------------------------
(***************************************************************************)
(* frame.Stream (internal/frame/stream.go): one end of a connection, which *)
(* turns a message channel into a byte stream.  The processes are the      *)
(* goroutines that meet in it: callers of Read, Write, Ping and of the     *)
(* three closing calls, the read loop that NewStream starts, and the       *)
(* release goroutine that the first closing call starts.                   *)
(*                                                                         *)
(* A Go select is one disjunct per ready case, a channel used as a mutex   *)
(* is a variable that names its holder, sync.Once is the name of the       *)
(* caller that runs it.  Bytes are their offsets: a payload is an interval *)
(* of them.  The message channel is external: `in' is every message the    *)
(* peer has sent, `rpos' how many were taken off it, `out' every message   *)
(* written and `acked' how many the peer has acknowledged.                 *)
(***************************************************************************)
EXTENDS Integers, Sequences, FiniteSets

CONSTANTS
  Readers,      \* goroutines that call Read, again and again
  Writers,      \* calls of Write
  Pingers,      \* calls of Ping; a call is its own nonce
  Closers,      \* calls of CloseWith, Shutdown or ShutdownEOF
  CloseModes,   \* which of those three: a subset of AllCloseModes
  Loop,         \* the read loop, as a holder of the write lock
  None,
  Depth,        \* capacity of dataCh, in frames
  MaxPayload,   \* most bytes in one frame
  WriteSizes,   \* byte counts passed to Write
  MaxRead,      \* largest buffer passed to Read
  Window,       \* unacknowledged frames at which a channel write blocks
  PeerSizes,    \* payload sizes of the data frames the peer sends
  PeerControl,  \* other frames the peer sends: "ping", "pong", "close", "bad"
  MaxIn,        \* most frames the peer sends
  MaxCalls,     \* most calls that writers, pingers and closers make in all
  Deadlines     \* the deadlines that callers set: a subset of {"read", "write"}

AllCloseModes == {"close", "shutdown", "eof"}

ASSUME CallsAssumption ==
  /\ CloseModes \subseteq AllCloseModes
  /\ Writers \cap (Pingers \cup Closers) = {}
  /\ Pingers \cap Closers = {}
  /\ Loop \notin Writers \cup Pingers \cup Closers \cup {None}
  /\ None \notin Readers \cup Writers \cup Pingers \cup Closers

ASSUME BoundsAssumption ==
  /\ Depth \in Nat \ {0}
  /\ MaxPayload \in Nat \ {0}
  /\ WriteSizes \subseteq Nat
  /\ MaxRead \in Nat \ {0}
  /\ Window \in Nat \ {0}
  /\ MaxIn \in Nat /\ MaxCalls \in Nat
  /\ PeerSizes \subseteq 0 .. MaxPayload
  /\ PeerControl \subseteq {"ping", "pong", "close", "bad"}
  /\ Deadlines \subseteq {"read", "write"}

VARIABLES
  rpc,          \* where each reader is: idle, lock, poll, wait
  rsem,         \* holder of the read lock
  cur,          \* unread remainder of the current payload
  dataCh,       \* received payloads not yet read
  dataClosed,   \* close(dataCh) happened
  got,          \* the payloads returned by Read, in order (history)
  rres,         \* how each reader's last Read ended
  wpc,          \* where each Write is: idle, lock, check, chunk, done
  wlen, wn,     \* bytes asked for and bytes committed, per Write
  wres,         \* how each Write ended
  wsem,         \* holder of the write lock
  ppc,          \* where each Ping is: idle, lock, send, await; then answered or failed
  pending,      \* the outstanding ping
  reply,        \* pings whose pong was delivered
  cpc,          \* where each closing call is: idle, local, term, frame, finish, done
  mode, drain,  \* its kind, and its drain flag
  termBy,       \* the call that runs termOnce
  closed, term, done, released,   \* the four Go channels of that name
  readErr,      \* terminal error of the stream
  remoteClose,  \* a close frame arrived
  lpc,          \* where the read loop is
  held,         \* the payload it is about to queue
  ponging,      \* the ping it is answering
  rcvd,         \* data bytes it has taken off the channel (history)
  rel,          \* where the release goroutine is
  timedOut,     \* drainTimeout passed while it waited (history)
  mustAck,      \* Len(out) when the stream was closed locally (history)
  in, rpos, inEnd, out, acked, chClosed,
  rdl, wdl      \* the read and the write deadline have passed

readVars  == <<rpc, rsem, cur, got, rres>>
queueVars == <<dataCh, dataClosed>>
writeVars == <<wpc, wlen, wn, wres>>
pingVars  == <<ppc, pending, reply>>
closeVars == <<cpc, mode, drain, termBy, closed, term, mustAck>>
errVars   == <<readErr, remoteClose>>
loopVars  == <<lpc, held, ponging, rcvd, done>>
relVars   == <<rel, timedOut, released, chClosed>>
inVars    == <<in, rpos, inEnd>>
outVars   == <<out, acked>>
dlVars    == <<rdl, wdl>>

vars == <<readVars, queueVars, writeVars, wsem, pingVars, closeVars, errVars,
          loopVars, relVars, inVars, outVars, dlVars>>

-----------------------------------------------------------------------------
(* Frames and payloads.  A data frame carries bytes lo..hi of one Write.   *)

Errors == {"nil", "EOF", "closed", "deadline", "transport", "protocol"}

Payloads == [lo : Nat, hi : Nat]
NoData   == [lo |-> 1, hi |-> 0]
Size(p)  == p.hi - p.lo + 1

DataFrame(w, lo, hi) == [t |-> "data", by |-> w, lo |-> lo, hi |-> hi]
PingFrame(p)         == [t |-> "ping", by |-> p]
PongFrame(p)         == [t |-> "pong", by |-> p]
CloseFrame(c)        == [t |-> "close", by |-> c]
BadFrame             == [t |-> "bad", by |-> None]

Smaller(a, b) == IF a < b THEN a ELSE b

\* The bytes handed to the application so far.
ReadSoFar == IF got = <<>> THEN 0 ELSE got[Len(got)].hi

-----------------------------------------------------------------------------
(* Errors.  The first error recorded wins.                                 *)

SetReadErr(e) == readErr' = IF readErr = "nil" THEN e ELSE readErr

TerminalErr == IF readErr = "nil" THEN "EOF" ELSE readErr

WriteTerminalErr == IF TerminalErr = "EOF" THEN "closed" ELSE TerminalErr

Writable == IF closed THEN "closed"
            ELSE IF term \/ done THEN WriteTerminalErr
            ELSE "nil"

MapWriteErr(e) == IF closed THEN "closed"
                  ELSE IF term THEN WriteTerminalErr
                  ELSE e

-----------------------------------------------------------------------------
(* The channel underneath (external): a blocking, ordered message write    *)
(* that fails once the channel is closed or the transport has failed.      *)

ChannelDown == chClosed \/ inEnd = "failed"
ChannelFull == Len(out) - acked >= Window

ChannelWrite(f) ==
  /\ ~ChannelDown
  /\ ~ChannelFull
  /\ out' = Append(out, f)
  /\ UNCHANGED acked

\* What a write that does not go through reports; `timeout' says whether its
\* deadline can have passed.
ChannelWriteErr(timeout) ==
  IF ChannelDown THEN {"transport"} ELSE IF timeout THEN {"deadline"} ELSE {}

-----------------------------------------------------------------------------
(* Read.                                                                   *)

ReadCall(r) ==
  /\ rpc[r] = "idle"
  /\ rpc' = [rpc EXCEPT ![r] = "lock"]
  /\ UNCHANGED <<rsem, cur, got, rres, queueVars, writeVars, wsem, pingVars, closeVars,
                 errVars, loopVars, relVars, inVars, outVars, dlVars>>

ReadLock(r) ==
  /\ rpc[r] = "lock"
  /\ rsem = None
  /\ rsem' = r
  /\ rpc' = [rpc EXCEPT ![r] = "poll"]
  /\ UNCHANGED <<cur, got, rres, queueVars, writeVars, wsem, pingVars, closeVars,
                 errVars, loopVars, relVars, inVars, outVars, dlVars>>

\* A Read that returns no bytes; it gives the read lock back if it has it.
ReadReturns(r, e) ==
  /\ rpc' = [rpc EXCEPT ![r] = "idle"]
  /\ rres' = [rres EXCEPT ![r] = e]
  /\ rsem' = IF rsem = r THEN None ELSE rsem
  /\ UNCHANGED <<cur, got, queueVars, writeVars, wsem, pingVars, closeVars,
                 errVars, loopVars, relVars, inVars, outVars, dlVars>>

ReadRefused(r) ==
  /\ rpc[r] = "lock"
  /\ \/ closed /\ ReadReturns(r, "closed")
     \/ rdl /\ ReadReturns(r, "deadline")

\* Mutant of Copy: the rest of a payload larger than the buffer is forgotten.
CopyForgetsRest(r, b) ==
  \E n \in 1 .. MaxRead :
    /\ got' = Append(got, [lo |-> b.lo, hi |-> Smaller(b.hi, b.lo + n - 1)])
    /\ cur' = NoData
    /\ rpc' = [rpc EXCEPT ![r] = "idle"]
    /\ rres' = [rres EXCEPT ![r] = "nil"]
    /\ rsem' = None
    /\ UNCHANGED <<dataClosed, writeVars, wsem, pingVars, closeVars, errVars,
                   loopVars, relVars, inVars, outVars, dlVars>>

\* Hand out the first n bytes of payload b and keep the rest.
Copy(r, b) ==
  \E n \in 1 .. MaxRead :
    LET hi == Smaller(b.hi, b.lo + n - 1)
    IN  /\ got' = Append(got, [lo |-> b.lo, hi |-> hi])
        /\ cur' = IF hi = b.hi THEN NoData ELSE [lo |-> hi + 1, hi |-> b.hi]
        /\ rpc' = [rpc EXCEPT ![r] = "idle"]
        /\ rres' = [rres EXCEPT ![r] = "nil"]
        /\ rsem' = None
        /\ UNCHANGED <<dataClosed, writeVars, wsem, pingVars, closeVars, errVars,
                       loopVars, relVars, inVars, outVars, dlVars>>

\* A remainder is handed out without a look at `closed'.
ReadCur(r) ==
  /\ rpc[r] = "poll"
  /\ cur # NoData
  /\ Copy(r, cur)
  /\ UNCHANGED dataCh

\* The poll looks at `closed' first; the blocking select takes any ready case.
Looking(r) == /\ rpc[r] \in {"poll", "wait"}
              /\ cur = NoData
              /\ rpc[r] = "poll" => ~closed

ReadTake(r) ==
  /\ Looking(r)
  /\ dataCh # <<>>
  /\ Copy(r, Head(dataCh))
  /\ dataCh' = Tail(dataCh)

\* Mutant of ReadEnd: the terminal error is reported before the queue is empty.
ReadEndsEarly(r) ==
  /\ Looking(r)
  /\ dataClosed
  /\ ReadReturns(r, TerminalErr)

ReadEnd(r) ==
  /\ Looking(r)
  /\ dataCh = <<>>
  /\ dataClosed
  /\ ReadReturns(r, TerminalErr)

ReadClosed(r) ==
  /\ rpc[r] \in {"poll", "wait"}
  /\ cur = NoData
  /\ closed
  /\ ReadReturns(r, "closed")

ReadBlock(r) ==
  /\ rpc[r] = "poll"
  /\ Looking(r)
  /\ dataCh = <<>>
  /\ ~dataClosed
  /\ rpc' = [rpc EXCEPT ![r] = "wait"]
  /\ UNCHANGED <<rsem, cur, got, rres, queueVars, writeVars, wsem, pingVars, closeVars,
                 errVars, loopVars, relVars, inVars, outVars, dlVars>>

ReadExpired(r) ==
  /\ rpc[r] = "wait"
  /\ rdl
  /\ ReadReturns(r, "deadline")

ReadStep(r) == \/ ReadLock(r) \/ ReadRefused(r) \/ ReadCur(r) \/ ReadTake(r)
               \/ ReadEnd(r) \/ ReadClosed(r) \/ ReadBlock(r) \/ ReadExpired(r)

-----------------------------------------------------------------------------
(* Write.                                                                  *)

\* An empty write emits no frame and takes no lock.
WriteCall(w) ==
  /\ wpc[w] = "idle"
  /\ \E n \in WriteSizes :
       /\ wlen' = [wlen EXCEPT ![w] = n]
       /\ wpc' = [wpc EXCEPT ![w] = IF n = 0 THEN "done" ELSE "lock"]
       /\ wres' = [wres EXCEPT ![w] = IF n = 0 THEN Writable ELSE "nil"]
  /\ UNCHANGED <<readVars, queueVars, wn, wsem, pingVars, closeVars, errVars, loopVars,
                 relVars, inVars, outVars, dlVars>>

WriteLock(w) ==
  /\ wpc[w] = "lock"
  /\ wsem = None
  /\ wsem' = w
  /\ wpc' = [wpc EXCEPT ![w] = "check"]
  /\ UNCHANGED <<readVars, queueVars, wlen, wn, wres, pingVars, closeVars, errVars,
                 loopVars, relVars, inVars, outVars, dlVars>>

\* A Write that sends nothing more; it gives the write lock back if it has it.
WriteReturns(w, e) ==
  /\ wpc' = [wpc EXCEPT ![w] = "done"]
  /\ wres' = [wres EXCEPT ![w] = e]
  /\ wsem' = IF wsem = w THEN None ELSE wsem
  /\ UNCHANGED <<readVars, queueVars, wlen, wn, pingVars, closeVars, errVars, loopVars,
                 relVars, inVars, outVars, dlVars>>

WriteRefused(w) ==
  /\ wpc[w] = "lock"
  /\ \/ closed /\ WriteReturns(w, "closed")
     \/ term /\ WriteReturns(w, WriteTerminalErr)
     \/ wdl /\ WriteReturns(w, "deadline")

\* Mutant of WriteCheck: writable is not consulted once the lock is held.
WriteUnchecked(w) ==
  /\ wpc[w] = "check"
  /\ wpc' = [wpc EXCEPT ![w] = "chunk"]
  /\ UNCHANGED <<readVars, queueVars, wlen, wn, wres, wsem, pingVars, closeVars,
                 errVars, loopVars, relVars, inVars, outVars, dlVars>>

WriteCheck(w) ==
  /\ wpc[w] = "check"
  /\ \/ /\ Writable = "nil"
        /\ wpc' = [wpc EXCEPT ![w] = "chunk"]
        /\ UNCHANGED <<readVars, queueVars, wlen, wn, wres, wsem, pingVars, closeVars,
                       errVars, loopVars, relVars, inVars, outVars, dlVars>>
     \/ /\ Writable # "nil"
        /\ WriteReturns(w, Writable)

\* Mutant of WriteChunk: the lock covers one frame instead of the whole Write.
WriteChunkUnlocks(w) ==
  LET hi == Smaller(wlen[w], wn[w] + MaxPayload)
  IN  /\ wpc[w] = "chunk"
      /\ ChannelWrite(DataFrame(w, wn[w] + 1, hi))
      /\ wn' = [wn EXCEPT ![w] = hi]
      /\ wpc' = [wpc EXCEPT ![w] = IF hi = wlen[w] THEN "done" ELSE "chunk"]
      /\ wsem' = None
      /\ UNCHANGED <<readVars, queueVars, wlen, wres, pingVars, closeVars, errVars,
                     loopVars, relVars, inVars, dlVars>>

\* One frame of a Write that may take several; the lock is kept until the last.
WriteChunk(w) ==
  LET hi   == Smaller(wlen[w], wn[w] + MaxPayload)
      last == hi = wlen[w]
  IN  /\ wpc[w] = "chunk"
      /\ ChannelWrite(DataFrame(w, wn[w] + 1, hi))
      /\ wn' = [wn EXCEPT ![w] = hi]
      /\ wpc' = [wpc EXCEPT ![w] = IF last THEN "done" ELSE "chunk"]
      /\ wsem' = IF last THEN None ELSE wsem
      /\ UNCHANGED <<readVars, queueVars, wlen, wres, pingVars, closeVars, errVars,
                     loopVars, relVars, inVars, dlVars>>

\* Mutant of WriteFail: the channel's error is swallowed.
WriteFailSwallowed(w) ==
  /\ wpc[w] = "chunk"
  /\ ChannelWriteErr(wdl) # {}
  /\ WriteReturns(w, "nil")

WriteFail(w) ==
  /\ wpc[w] = "chunk"
  /\ \E e \in ChannelWriteErr(wdl) : WriteReturns(w, MapWriteErr(e))

WriteStep(w) == \/ WriteLock(w) \/ WriteRefused(w) \/ WriteCheck(w)
                \/ WriteChunk(w) \/ WriteFail(w)

-----------------------------------------------------------------------------
(* Ping: a control frame borrows the write lock for a bounded time, then   *)
(* the call waits for the pong that carries its nonce.                     *)

PingCall(p) ==
  /\ ppc[p] = "idle"
  /\ ppc' = [ppc EXCEPT ![p] = IF pending = None THEN "lock" ELSE "failed"]
  /\ pending' = IF pending = None THEN p ELSE pending
  /\ UNCHANGED <<readVars, queueVars, writeVars, wsem, reply, closeVars, errVars, loopVars,
                 relVars, inVars, outVars, dlVars>>

PingLock(p) ==
  /\ ppc[p] = "lock"
  /\ wsem = None
  /\ wsem' = p
  /\ ppc' = [ppc EXCEPT ![p] = "send"]
  /\ UNCHANGED <<readVars, queueVars, writeVars, pending, reply, closeVars, errVars,
                 loopVars, relVars, inVars, outVars, dlVars>>

PingSend(p) ==
  /\ ppc[p] = "send"
  /\ ChannelWrite(PingFrame(p))
  /\ wsem' = None
  /\ ppc' = [ppc EXCEPT ![p] = "await"]
  /\ UNCHANGED <<readVars, queueVars, writeVars, pending, reply, closeVars, errVars,
                 loopVars, relVars, inVars, dlVars>>

\* Mutant of PingReturns: the ping withdrawn may be another call's.
PingWithdrawsAny(p, how) ==
  /\ ppc' = [ppc EXCEPT ![p] = how]
  /\ pending' = None
  /\ wsem' = IF wsem = p THEN None ELSE wsem
  /\ UNCHANGED <<readVars, queueVars, writeVars, reply, closeVars, errVars, loopVars,
                 relVars, inVars, outVars, dlVars>>

\* Ping returns, with a round-trip time or an error, and withdraws itself if it
\* is still the outstanding one.
PingReturns(p, how) ==
  /\ ppc' = [ppc EXCEPT ![p] = how]
  /\ pending' = IF pending = p THEN None ELSE pending
  /\ wsem' = IF wsem = p THEN None ELSE wsem
  /\ UNCHANGED <<readVars, queueVars, writeVars, reply, closeVars, errVars, loopVars,
                 relVars, inVars, outVars, dlVars>>

\* The lock is refused when the stream ends, or after controlAcquireTimeout.
ControlRefused == closed \/ term \/ wsem # None

PingFail(p) ==
  /\ \/ ppc[p] = "lock" /\ ControlRefused
     \/ ppc[p] = "send" /\ ChannelWriteErr(ChannelFull) # {}
  /\ PingReturns(p, "failed")

\* The pong; or the caller's context, or the end of the stream.
PingDone(p) ==
  /\ ppc[p] = "await"
  /\ \/ p \in reply /\ PingReturns(p, "answered")
     \/ PingReturns(p, "failed")

PingStep(p) == PingLock(p) \/ PingSend(p) \/ PingFail(p) \/ PingDone(p)

-----------------------------------------------------------------------------
(* The read loop, the only reader of the channel until it has exited.      *)

LoopExits(e) == SetReadErr(e) /\ lpc' = "exit"

\* deliverPong: only the pong of the outstanding ping counts.
DeliverPong(p) ==
  LET match == pending # None /\ pending = p
  IN  /\ pending' = IF match THEN None ELSE pending
      /\ reply' = IF match THEN reply \cup {p} ELSE reply

LoopData(f) ==
  /\ f.t = "data"
  /\ lpc' = IF Size(f) = 0 THEN "read" ELSE "enqueue"
  /\ held' = IF Size(f) = 0 THEN held ELSE [lo |-> rcvd + 1, hi |-> rcvd + Size(f)]
  /\ rcvd' = rcvd + Size(f)
  /\ UNCHANGED <<ponging, pingVars, errVars>>

LoopPing(f) ==
  /\ f.t = "ping"
  /\ lpc' = "pongLock"
  /\ ponging' = f.by
  /\ UNCHANGED <<held, rcvd, pingVars, errVars>>

LoopPong(f) ==
  /\ f.t = "pong"
  /\ DeliverPong(f.by)
  /\ UNCHANGED <<lpc, held, ponging, rcvd, ppc, errVars>>

LoopClose(f) ==
  /\ f.t = "close"
  /\ remoteClose' = TRUE
  /\ LoopExits("EOF")
  /\ UNCHANGED <<held, ponging, rcvd, pingVars>>

\* Parse or ParseClose refuses the message.
LoopBad(f) ==
  /\ f.t = "bad"
  /\ LoopExits("protocol")
  /\ UNCHANGED <<held, ponging, rcvd, remoteClose, pingVars>>

LoopRead ==
  /\ lpc = "read"
  /\ rpos < Len(in)
  /\ rpos' = rpos + 1
  /\ LET f == in[rpos + 1]
     IN  LoopData(f) \/ LoopPing(f) \/ LoopPong(f) \/ LoopClose(f) \/ LoopBad(f)
  /\ UNCHANGED <<readVars, queueVars, writeVars, wsem, closeVars, done, relVars,
                 in, inEnd, outVars, dlVars>>

\* classifyReadErr.  After term the read deadline is in the past, so a read may
\* fail whether or not messages are left.
ReadErrors ==
  (IF term THEN {"closed"} ELSE {}) \cup
  (IF ~term /\ rpos = Len(in) /\ inEnd = "eof" THEN {"EOF"} ELSE {}) \cup
  (IF ~term /\ rpos = Len(in) /\ inEnd = "failed" THEN {"transport"} ELSE {})

LoopReadErr ==
  /\ lpc = "read"
  /\ \E e \in ReadErrors : LoopExits(e)
  /\ UNCHANGED <<readVars, queueVars, writeVars, wsem, pingVars, closeVars, remoteClose,
                 held, ponging, rcvd, done, relVars, inVars, outVars, dlVars>>

\* Mutant of LoopEnqueue: the queue has no bound.
LoopEnqueueUnbounded ==
  /\ lpc = "enqueue"
  /\ dataCh' = Append(dataCh, held)
  /\ held' = NoData
  /\ lpc' = "read"
  /\ UNCHANGED <<readVars, dataClosed, writeVars, wsem, pingVars, closeVars, errVars,
                 ponging, rcvd, done, relVars, inVars, outVars, dlVars>>

LoopEnqueue ==
  /\ lpc = "enqueue"
  /\ Len(dataCh) < Depth
  /\ dataCh' = Append(dataCh, held)
  /\ held' = NoData
  /\ lpc' = "read"
  /\ UNCHANGED <<readVars, dataClosed, writeVars, wsem, pingVars, closeVars, errVars,
                 ponging, rcvd, done, relVars, inVars, outVars, dlVars>>

\* Mutant of LoopDrop: a payload that finds the queue full is dropped.
LoopDropsWhenFull ==
  /\ lpc = "enqueue"
  /\ term \/ Len(dataCh) = Depth
  /\ lpc' = "read"
  /\ held' = NoData
  /\ UNCHANGED <<readVars, queueVars, writeVars, wsem, pingVars, closeVars, errVars,
                 ponging, rcvd, done, relVars, inVars, outVars, dlVars>>

\* The stream ended while the payload waited for room: it is dropped.
LoopDrop ==
  /\ lpc = "enqueue"
  /\ term
  /\ LoopExits("closed")
  /\ held' = NoData
  /\ UNCHANGED <<readVars, queueVars, writeVars, wsem, pingVars, closeVars, remoteClose,
                 ponging, rcvd, done, relVars, inVars, outVars, dlVars>>

LoopPongLock ==
  /\ lpc = "pongLock"
  /\ wsem = None
  /\ wsem' = Loop
  /\ lpc' = "pongSend"
  /\ UNCHANGED <<readVars, queueVars, writeVars, pingVars, closeVars, errVars, held,
                 ponging, rcvd, done, relVars, inVars, outVars, dlVars>>

\* errControlBusy drops the pong; the end of the stream ends the loop.
LoopPongRefused ==
  /\ lpc = "pongLock"
  /\ \/ /\ wsem # None
        /\ lpc' = "read"
        /\ UNCHANGED readErr
     \/ /\ closed \/ term
        /\ LoopExits("closed")
  /\ ponging' = None
  /\ UNCHANGED <<readVars, queueVars, writeVars, wsem, pingVars, closeVars, remoteClose,
                 held, rcvd, done, relVars, inVars, outVars, dlVars>>

LoopPongSend ==
  /\ lpc = "pongSend"
  /\ ChannelWrite(PongFrame(ponging))
  /\ wsem' = None
  /\ ponging' = None
  /\ lpc' = "read"
  /\ UNCHANGED <<readVars, queueVars, writeVars, pingVars, closeVars, errVars, held, rcvd,
                 done, relVars, inVars, dlVars>>

LoopPongFail ==
  /\ lpc = "pongSend"
  /\ \E e \in ChannelWriteErr(ChannelFull) : LoopExits(MapWriteErr(e))
  /\ wsem' = None
  /\ ponging' = None
  /\ UNCHANGED <<readVars, queueVars, writeVars, pingVars, closeVars, remoteClose, held,
                 rcvd, done, relVars, inVars, outVars, dlVars>>

\* The two deferred closes, in the order they run.
LoopCloseData ==
  /\ lpc = "exit"
  /\ dataClosed' = TRUE
  /\ lpc' = "exited"
  /\ UNCHANGED <<readVars, dataCh, writeVars, wsem, pingVars, closeVars, errVars, held,
                 ponging, rcvd, done, relVars, inVars, outVars, dlVars>>

LoopDone ==
  /\ lpc = "exited"
  /\ done' = TRUE
  /\ lpc' = "stopped"
  /\ UNCHANGED <<readVars, queueVars, writeVars, wsem, pingVars, closeVars, errVars, held,
                 ponging, rcvd, relVars, inVars, outVars, dlVars>>

LoopStep == \/ LoopRead \/ LoopReadErr \/ LoopEnqueue \/ LoopDrop
            \/ LoopPongLock \/ LoopPongRefused \/ LoopPongSend \/ LoopPongFail
            \/ LoopCloseData \/ LoopDone

-----------------------------------------------------------------------------
(* CloseWith, Shutdown and ShutdownEOF: terminate.                         *)

\* ShutdownEOF overwrites the terminal error before anything else.  The drain
\* flag is computed from the error as it is when the call begins.
CloseCall(c) ==
  /\ cpc[c] = "idle"
  /\ \E m \in CloseModes :
       /\ mode' = [mode EXCEPT ![c] = m]
       /\ drain' = [drain EXCEPT ![c] = m = "close" /\ readErr = "nil"]
       /\ cpc' = [cpc EXCEPT ![c] = IF m = "close" THEN "local" ELSE "term"]
       /\ readErr' = IF m = "eof" THEN "EOF" ELSE readErr
  /\ UNCHANGED <<readVars, queueVars, writeVars, wsem, pingVars, termBy, closed, term,
                 mustAck, remoteClose, loopVars, relVars, inVars, outVars, dlVars>>

\* localOnce
CloseLocal(c) ==
  /\ cpc[c] = "local"
  /\ cpc' = [cpc EXCEPT ![c] = "term"]
  /\ \/ closed /\ UNCHANGED <<readErr, closed, mustAck>>
     \/ /\ ~closed
        /\ SetReadErr("closed")
        /\ closed' = TRUE
        /\ mustAck' = Len(out)
  /\ UNCHANGED <<readVars, queueVars, writeVars, wsem, pingVars, mode, drain, termBy, term,
                 remoteClose, loopVars, relVars, inVars, outVars, dlVars>>

\* Mutant of CloseTerm: the close frame waits for the write lock.
CloseTermWaits(c) ==
  /\ cpc[c] = "term"
  /\ termBy = None
  /\ wsem = None
  /\ termBy' = c
  /\ cpc' = [cpc EXCEPT ![c] = "frame"]
  /\ wsem' = c
  /\ UNCHANGED <<readVars, queueVars, writeVars, pingVars, mode, drain, closed, term,
                 mustAck, errVars, loopVars, relVars, inVars, outVars, dlVars>>

\* termOnce: the first call runs it and tries the write lock once for the close
\* frame; any other waits until it has run.
CloseTerm(c) ==
  /\ cpc[c] = "term"
  /\ termBy = None
  /\ termBy' = c
  /\ cpc' = [cpc EXCEPT ![c] = IF wsem = None THEN "frame" ELSE "finish"]
  /\ wsem' = IF wsem = None THEN c ELSE wsem
  /\ UNCHANGED <<readVars, queueVars, writeVars, pingVars, mode, drain, closed, term,
                 mustAck, errVars, loopVars, relVars, inVars, outVars, dlVars>>

CloseAgain(c) ==
  /\ cpc[c] = "term"
  /\ term
  /\ cpc' = [cpc EXCEPT ![c] = "done"]
  /\ UNCHANGED <<readVars, queueVars, writeVars, wsem, pingVars, mode, drain, termBy, closed,
                 term, mustAck, errVars, loopVars, relVars, inVars, outVars, dlVars>>

CloseSend(c) ==
  /\ cpc[c] = "frame"
  /\ \/ ChannelWrite(CloseFrame(c))
     \/ /\ ChannelWriteErr(ChannelFull) # {}
        /\ UNCHANGED outVars
  /\ wsem' = None
  /\ cpc' = [cpc EXCEPT ![c] = "finish"]
  /\ UNCHANGED <<readVars, queueVars, writeVars, pingVars, mode, drain, termBy, closed,
                 term, mustAck, errVars, loopVars, relVars, inVars, dlVars>>

\* The error, close(term), the expired read deadline, and the release goroutine.
CloseFinish(c) ==
  /\ cpc[c] = "finish"
  /\ IF mode[c] = "close" THEN UNCHANGED readErr ELSE SetReadErr("EOF")
  /\ term' = TRUE
  /\ rel' = IF drain[c] THEN "waitDone" ELSE "closeCh"
  /\ cpc' = [cpc EXCEPT ![c] = "done"]
  /\ UNCHANGED <<readVars, queueVars, writeVars, wsem, pingVars, mode, drain, termBy,
                 closed, mustAck, remoteClose, loopVars, timedOut, released, chClosed,
                 inVars, outVars, dlVars>>

CloseStep(c) == \/ CloseLocal(c) \/ CloseTerm(c) \/ CloseAgain(c)
                \/ CloseSend(c) \/ CloseFinish(c)

-----------------------------------------------------------------------------
(* The release goroutine: release and awaitAcks.                           *)

BufferedAmount == Len(out) - acked

\* Mutant of ReleaseWait: the channel is closed as soon as the read loop exits.
ReleaseSkipsAcks ==
  /\ rel = "waitDone"
  /\ done
  /\ rel' = "closeCh"
  /\ UNCHANGED <<readVars, queueVars, writeVars, wsem, pingVars, closeVars, errVars,
                 loopVars, timedOut, released, chClosed, inVars, outVars, dlVars>>

ReleaseWait ==
  /\ rel = "waitDone"
  /\ done
  /\ rel' = "acks"
  /\ UNCHANGED <<readVars, queueVars, writeVars, wsem, pingVars, closeVars, errVars,
                 loopVars, timedOut, released, chClosed, inVars, outVars, dlVars>>

\* Everything acknowledged, or the peer gone, or drainTimeout.
ReleaseDrained ==
  /\ rel = "acks"
  /\ \/ BufferedAmount = 0 /\ UNCHANGED timedOut
     \/ rpos = Len(in) /\ inEnd # "open" /\ UNCHANGED timedOut
     \/ BufferedAmount > 0 /\ timedOut' = TRUE
  /\ rel' = "closeCh"
  /\ UNCHANGED <<readVars, queueVars, writeVars, wsem, pingVars, closeVars, errVars,
                 loopVars, released, chClosed, inVars, outVars, dlVars>>

\* Messages that arrive while it waits are discarded.
ReleaseDiscard ==
  /\ rel = "acks"
  /\ BufferedAmount > 0
  /\ rpos < Len(in)
  /\ rpos' = rpos + 1
  /\ UNCHANGED <<readVars, queueVars, writeVars, wsem, pingVars, closeVars, errVars,
                 loopVars, relVars, in, inEnd, outVars, dlVars>>

ReleaseClose ==
  /\ rel = "closeCh"
  /\ rel' = "released"
  /\ chClosed' = TRUE
  /\ released' = TRUE
  /\ UNCHANGED <<readVars, queueVars, writeVars, wsem, pingVars, closeVars, errVars,
                 loopVars, timedOut, inVars, outVars, dlVars>>

ReleaseStep == ReleaseWait \/ ReleaseDrained \/ ReleaseDiscard \/ ReleaseClose

-----------------------------------------------------------------------------
(* Deadlines set by the application, to a time that has passed (or will    *)
(* have) or cleared; refused once closed.                                  *)

SetReadDeadline ==
  /\ ~closed
  /\ "read" \in Deadlines
  /\ rdl' = ~rdl
  /\ UNCHANGED <<readVars, queueVars, writeVars, wsem, pingVars, closeVars, errVars,
                 loopVars, relVars, inVars, outVars, wdl>>

SetWriteDeadline ==
  /\ ~closed
  /\ "write" \in Deadlines
  /\ wdl' = ~wdl
  /\ UNCHANGED <<readVars, queueVars, writeVars, wsem, pingVars, closeVars, errVars,
                 loopVars, relVars, inVars, outVars, rdl>>

-----------------------------------------------------------------------------
(* The peer and the transport (external).                                  *)

PeerFrames ==
  {DataFrame(None, 1, n) : n \in PeerSizes} \cup
  {[t |-> k, by |-> None] : k \in PeerControl} \cup
  {PongFrame(p) : p \in {p \in Pingers : \E i \in 1 .. acked : out[i] = PingFrame(p)}}

PeerSend ==
  /\ inEnd = "open"
  /\ Len(in) < MaxIn
  /\ \E f \in PeerFrames : in' = Append(in, f)
  /\ UNCHANGED <<readVars, queueVars, writeVars, wsem, pingVars, closeVars, errVars,
                 loopVars, relVars, rpos, inEnd, outVars, dlVars>>

\* The peer closes the channel, or the transport fails.
PeerEnd ==
  /\ inEnd = "open"
  /\ inEnd' \in {"eof", "failed"}
  /\ UNCHANGED <<readVars, queueVars, writeVars, wsem, pingVars, closeVars, errVars,
                 loopVars, relVars, in, rpos, outVars, dlVars>>

PeerAck ==
  /\ inEnd # "failed"
  /\ acked < Len(out)
  /\ acked' = acked + 1
  /\ UNCHANGED <<readVars, queueVars, writeVars, wsem, pingVars, closeVars, errVars,
                 loopVars, relVars, inVars, out, dlVars>>

-----------------------------------------------------------------------------

Init ==
  /\ rpc = [r \in Readers |-> "idle"]
  /\ rsem = None
  /\ cur = NoData
  /\ dataCh = <<>>
  /\ dataClosed = FALSE
  /\ got = <<>>
  /\ rres = [r \in Readers |-> "nil"]
  /\ wpc = [w \in Writers |-> "idle"]
  /\ wlen = [w \in Writers |-> 0]
  /\ wn = [w \in Writers |-> 0]
  /\ wres = [w \in Writers |-> "nil"]
  /\ wsem = None
  /\ ppc = [p \in Pingers |-> "idle"]
  /\ pending = None
  /\ reply = {}
  /\ cpc = [c \in Closers |-> "idle"]
  /\ mode = [c \in Closers |-> "close"]
  /\ drain = [c \in Closers |-> FALSE]
  /\ termBy = None
  /\ closed = FALSE /\ term = FALSE /\ done = FALSE /\ released = FALSE
  /\ readErr = "nil"
  /\ remoteClose = FALSE
  /\ lpc = "read"
  /\ held = NoData
  /\ ponging = None
  /\ rcvd = 0
  /\ rel = "none"
  /\ timedOut = FALSE
  /\ mustAck = 0
  /\ in = <<>> /\ rpos = 0 /\ inEnd = "open"
  /\ out = <<>> /\ acked = 0 /\ chClosed = FALSE
  /\ rdl = FALSE /\ wdl = FALSE

\* The bound on the calls.
MayCall == Cardinality({w \in Writers : wpc[w] # "idle"} \cup
                       {p \in Pingers : ppc[p] # "idle"} \cup
                       {c \in Closers : cpc[c] # "idle"}) < MaxCalls

Calls == \/ \E r \in Readers : ReadCall(r)
         \/ MayCall /\ \E w \in Writers : WriteCall(w)
         \/ MayCall /\ \E p \in Pingers : PingCall(p)
         \/ MayCall /\ \E c \in Closers : CloseCall(c)
         \/ SetReadDeadline
         \/ SetWriteDeadline

Steps == \/ \E r \in Readers : ReadStep(r)
         \/ \E w \in Writers : WriteStep(w)
         \/ \E p \in Pingers : PingStep(p)
         \/ \E c \in Closers : CloseStep(c)
         \/ LoopStep
         \/ ReleaseStep

Environment == PeerSend \/ PeerEnd \/ PeerAck

Next == Calls \/ Steps \/ Environment

(* Go schedules every runnable goroutine and fires every armed timer, so    *)
(* each goroutine's enabled step is eventually taken.  Nothing is assumed of *)
(* the callers, the peer or the transport.                                  *)
Fairness ==
  /\ \A r \in Readers : WF_vars(ReadStep(r))
  /\ \A w \in Writers : WF_vars(WriteStep(w))
  /\ \A p \in Pingers : WF_vars(PingStep(p))
  /\ \A c \in Closers : WF_vars(CloseStep(c))
  /\ WF_vars(LoopStep)
  /\ WF_vars(ReleaseStep)

Spec == Init /\ [][Next]_vars
FairSpec == Spec /\ Fairness

-----------------------------------------------------------------------------
(* Properties.                                                             *)

Holders == Writers \cup Pingers \cup Closers \cup {Loop, None}

Frames == [t : {"data"}, by : Writers \cup {None}, lo : Nat, hi : Nat] \cup
          [t : {"ping", "pong", "close", "bad"}, by : Pingers \cup Closers \cup {None}]

\* A received data frame has a payload length, which Parse has checked.
InFrames == {f \in Frames : f.t = "data" => f.lo <= f.hi + 1}

\* The variables keep their types, the receive queue its capacity included.
TypeOK ==
  /\ rpc \in [Readers -> {"idle", "lock", "poll", "wait"}]
  /\ rsem \in Readers \cup {None}
  /\ cur \in Payloads
  /\ dataCh \in Seq(Payloads) /\ Len(dataCh) <= Depth
  /\ dataClosed \in BOOLEAN
  /\ got \in Seq(Payloads)
  /\ rres \in [Readers -> Errors]
  /\ wpc \in [Writers -> {"idle", "lock", "check", "chunk", "done"}]
  /\ wlen \in [Writers -> Nat] /\ wn \in [Writers -> Nat]
  /\ wres \in [Writers -> Errors]
  /\ wsem \in Holders
  /\ ppc \in [Pingers -> {"idle", "lock", "send", "await", "answered", "failed"}]
  /\ pending \in Pingers \cup {None}
  /\ reply \subseteq Pingers
  /\ cpc \in [Closers -> {"idle", "local", "term", "frame", "finish", "done"}]
  /\ mode \in [Closers -> AllCloseModes]
  /\ drain \in [Closers -> BOOLEAN]
  /\ termBy \in Closers \cup {None}
  /\ closed \in BOOLEAN /\ term \in BOOLEAN /\ done \in BOOLEAN /\ released \in BOOLEAN
  /\ readErr \in Errors
  /\ remoteClose \in BOOLEAN
  /\ lpc \in {"read", "enqueue", "pongLock", "pongSend", "exit", "exited", "stopped"}
  /\ held \in Payloads
  /\ ponging \in Pingers \cup Closers \cup {None}
  /\ rcvd \in Nat
  /\ rel \in {"none", "waitDone", "acks", "closeCh", "released"}
  /\ timedOut \in BOOLEAN
  /\ mustAck \in Nat
  /\ in \in Seq(InFrames) /\ rpos \in Nat /\ rpos <= Len(in)
  /\ inEnd \in {"open", "eof", "failed"}
  /\ out \in Seq(Frames) /\ acked \in Nat /\ acked <= Len(out)
  /\ chClosed \in BOOLEAN
  /\ rdl \in BOOLEAN /\ wdl \in BOOLEAN

\* The bytes that Read hands out, to whichever reader, are the bytes the peer
\* sent, in order, none twice and none skipped (Read, take, readLoop).
ReadsInOrder ==
  \A i \in 1 .. Len(got) :
    /\ got[i].lo = (IF i = 1 THEN 1 ELSE got[i - 1].hi + 1)
    /\ got[i].lo <= got[i].hi

\* The frames of one Write are contiguous on the wire: no frame of another
\* Write and no ping, pong or close frame splits them (Write holds wsem).
WriteContiguous ==
  \A i \in 1 .. Len(out) :
    out[i].t = "data" =>
      \/ out[i].lo = 1
      \/ /\ i > 1
         /\ out[i - 1].t = "data"
         /\ out[i - 1].by = out[i].by
         /\ out[i - 1].hi = out[i].lo - 1

\* The count a Write returns is what it put on the wire, whole on success and
\* a prefix on failure (Write's documented partial result).
WriteCommitted ==
  \A w \in Writers :
    /\ wn[w] > 0 => \E i \in 1 .. Len(out) : out[i].t = "data" /\ out[i].by = w /\ out[i].hi = wn[w]
    /\ \A i \in 1 .. Len(out) : out[i].t = "data" /\ out[i].by = w => out[i].hi <= wn[w]
    /\ wpc[w] = "done" /\ wres[w] = "nil" => wn[w] = wlen[w]

\* No application byte follows the close frame of a local close: the peer
\* stops reading at that frame, so a later Write that succeeded would be lost.
NoDataAfterClose ==
  \A i, j \in 1 .. Len(out) :
    out[i].t = "close" /\ mode[out[i].by] = "close" /\ i < j => out[j].t # "data"

\* What readers have before them, the rest of a short read included, has ended.
Drained == dataClosed /\ dataCh = <<>> /\ cur = NoData

ReadSide == INSTANCE ByteStream
              WITH arrived <- rcvd, delivered <- got, cut <- term, ended <- Drained

\* The read side implements a byte stream: whatever readers, the read loop and
\* closing calls do, the bytes taken off the channel are handed out in order and
\* without a gap, and the stream ends for its readers only when all of them were,
\* or when it was ended from this side; nothing comes after that.  A reader that is
\* told EOF is at that end, and so is every other.
ReadsAreByteStream ==
  /\ ReadSide!Spec
  /\ [](\A r \in Readers : rres[r] = "EOF" => Drained)

\* A closing call that decided to drain does: the channel is closed only when
\* what was written before the close is acknowledged, the peer is gone, or
\* drainTimeout has passed (release, awaitAcks).
DrainHonoured ==
  released /\ termBy # None /\ drain[termBy] =>
    acked >= mustAck \/ timedOut \/ inEnd # "open"

ProbeKept(p) ==
  ppc[p] \in {"lock", "send", "await"} => pending = p \/ p \in reply

ProbeMatched(p) ==
  p \in reply \/ ppc[p] = "answered" => \E i \in 1 .. rpos : in[i] = PongFrame(p)

\* A probe is neither forgotten nor mistaken for another.  A Ping that is under way
\* is the outstanding one, or its pong has come, whatever an earlier Ping that was
\* answered or given up does when it returns meanwhile (Ping's deferred
\* withdrawal); and one that reports a round trip got its own pong, never the late
\* pong of an earlier Ping (deliverPong).
ProbesTracked == \A p \in Pingers : ProbeKept(p) /\ ProbeMatched(p)

\* Nothing is blocked, the read loop has exited and the channel is closed.
Quiet ==
  /\ done /\ released /\ wsem = None
  /\ \A r \in Readers : rpc[r] = "idle"
  /\ \A w \in Writers : wpc[w] \in {"idle", "done"}
  /\ \A p \in Pingers : ppc[p] \in {"idle", "answered", "failed"}
  /\ \A c \in Closers : cpc[c] \in {"idle", "done"}

\* A closing call unblocks every pending Read, Write and Ping and returns
\* itself, even when the peer never acknowledges anything, and the channel is
\* released in the end.
CloseUnblocks == (\E c \in Closers : cpc[c] # "idle") ~> Quiet

\* stream.go:226 says the channel is released only after the acknowledgement
\* or the timeout, whichever call closed the stream.
ReleasedAfterDrain ==
  released /\ closed => acked >= mustAck \/ timedOut \/ inEnd # "open"

\* stream.go:562 says Shutdown keeps data that has already been received: reads
\* report EOF only after every byte the read loop took off the channel.
ShutdownKeepsReceived ==
  \A r \in Readers : rres[r] = "EOF" /\ ~closed => ReadSoFar = rcvd
=============================================================================
