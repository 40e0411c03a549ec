# A TLA+ model of pipe

pipe gives Go programs `net.Conn` connections between two peers over WebRTC
data channels. This directory holds TLA+ modules that model its concurrent
core, the TLC instances that check them, and TLAPS proofs. `PROJECT.json` is
the index: components, runs, mutants, findings, hazards, theorems, and for
every definition the source lines it stands for.

Contents: [Inventory](#inventory) · [Modules](#modules) · [Runs](#runs) ·
[Bounds](#bounds) · [Fairness](#fairness) · [Proofs](#proofs) ·
[Findings](#findings) · [Not modelled](#not-modelled) · [Plan](#plan)

## Inventory

How the parts fit together:

```
 Dial / Accept / Close                     Read / Write / Close
        |                                          |
   Endpoint, Listener  ---- one per session --->  Conn
        |  receive loop        |                   |
        |                 session loop ---- frame.Stream (read loop,
   dedupe, route ---> mailbox  |              release goroutine)
        |                      |                   |
   Signaler.Receive/Send       +---- pionx ---- PeerConnection, DataChannel
        |
   SSE client  === HTTP: GET stream, POST send ===  SSE server, one record per peer
   SSE mux     === HTTP: GET, PUT join, DELETE leave ===  shared streams, their members
```

| Component | State | Operations | What is hard | What makes it correct |
|---|---|---|---|---|
| **Stream** `internal/frame/stream.go` | read and write locks (channels used as mutexes), payload queue, remainder of a short read, ping waiters, terminal state, the once of the release | Read, Write, Ping, deadlines, CloseWith, Shutdown, ShutdownEOF, the read loop, the release goroutine | every call is several steps with a `select` between; closing races with all of them; a write may be stuck in the channel while the deadline fires | bytes read are the bytes sent, in order; chunks of two writes do not mix; EOF only after the last byte; nothing follows the close frame; every call returns once the stream is closed |
| **Endpoint** `endpoint.go` | session registry, backlog slots, closed flags, the outage | receive loop (route, onOffer), Dial, Listen, Close, ending on a lost signaler | an offer is admitted in several steps, each of which races with Close; four parties may own a slot | slots taken are the slots owned; Close ends everything; a cancelled Dial leaks nothing |
| **Listener** `listener.go` | accept queue, closed channel | push, AcceptConn, Close | push checks and sends in two steps | whoever pushes finds room; queued connections are accepted or closed |
| **Mailbox** `mailbox.go` | bounded queue, overflow flag, wake-up token | post, drain, close | the wake-up is sent after the mutex is released | no event waits unnoticed; events are handled in order without a gap, or the session ends |
| **Dedupe cache** `dedupe.go` | ID to sequence number, next number | seenBefore, evict | half of the cache goes at once | a repeat gets through only if it is far away from the original |
| **Session** `session.go` | state, remote description, generation, attempts, four timers, candidate buffer, keepalive probe, close intent | start, onSignal, onPionEvent, keepalive, recovery, teardown | signals are lost, repeated and reordered; a probe answers after the path has recovered; both ends recover and close at once | no candidate is lost; every wait has a timer; when one end is gone so is the other; recovery is bounded |
| **SSE server** `signaling/sse/server.go` | one record per peer: log, sequence numbers, the current stream, the reaper | admit, attach, takeUnsent, detach, enqueue, expire, Close | GET handlers of one peer overlap; POSTs, the reaper and Close race with them | nothing that is still in the log is skipped; a stream that goes does not take its successor along; no signal waits unnoticed |
| **SSE client** `signaling/sse/client.go` | last event ID, current stream, send queue | run, streamOnce, handleEvent, Close, Send | reconnecting with an ID that the server may not know | as above, end to end |
| **SSE mux** `mux.go`, `mux_server.go` | client: the connections by peer, the stream goroutine and its reader; server: streams, their members, the members taken over | Open, Close, join, leave, reconnect; serveMuxStream, serveJoin, serveLeave | a join, a leave, a takeover, an expiry and the end of the stream overlap, and every request may be lost or come late | no record is attached to a stream that is gone; a joined connection is served or told; nobody is overlooked; an idle Mux lets go of its stream |
| **Memory signaler** `signaling/memory` | inboxes | Send, Receive, Close | — | delivery or an error |
| **TURN relay** `relay/relay.go` | listeners, counters per user, a token bucket per relay socket and direction | Start, Close, authentication, quota, allocation events, ReadFrom, WriteTo | Start fails half-way; the quota is checked and counted in different callbacks; a packet is held on credit | a failed Start keeps nothing; a user exceeds its quota at most by the handlers at work and is refused only at it; the rate holds over any span |
| **Frame codec** `internal/frame/frame.go` | — | Encode, Append, Parse, EncodeClose, ParseClose | lengths at the limits, a reason cut inside a character, damaged frames | what is accepted is what was sent, and there is one message for each frame |
| **Conn, dial.go** | a session, a stream; an endpoint of its own | Close, deadlines, Dial with its own endpoint | teardown order | closing a connection closes what was made for it |

The remaining parts (configuration, envelope validation, authentication,
clock, metrics, errors, statistics, the Pion adapter, conformance tests,
examples) keep no shared state of their own, or only pass calls on. They are
listed in `PROJECT.json` with the reason.

The hazards, that is what could go wrong and is hard to test, are listed there
too, at the line where each bites.

## Modules

### Stream

One end of a `frame.Stream`. A process is a goroutine: the callers of Read,
Write, Ping and of the three closing calls, the read loop, and the goroutine
that releases the channel. A `select` is one disjunct per ready case. A channel
used as a mutex (`rsem`, `wsem`) is a variable that names its holder. Bytes are
their offsets, so a payload is an interval and "in order" needs no data.

| State | Code |
|---|---|
| `rpc`, `rsem`, `cur`, `dataCh` | Read: its place, the read lock, `cur`, `dataCh` |
| the write and ping places, the write lock | Write, Ping and the read loop's pongs |
| the terminal fields | `terminate`, `termOnce`, `closedCh`, `readErr` |
| `in`, `rpos`, `out`, `acked` | the data channel, which is external |

Each action is one piece of code between two points at which another goroutine
can be seen: a lock, a `select`, a write to the channel.

### ByteStream

What one direction of a connection promises its reader: bytes arrive, are
delivered in order and without a gap, and then the stream ends; it ends early
only if this side has cut it. `Stream` implements it (`ReadSide`) with `arrived`
as the bytes taken off the channel, `delivered` as what readers got, `cut` as
`terminate` having been called, and `ended` as `Drained`: the queue is closed and
empty and no short read has left a rest. `ReadsAreByteStream` is this refinement,
together with the fact that a reader is told EOF only there.

### Frame

The codec as operators on sequences of bytes: header, limits, the payloads of
control frames, and the close reason with its cut at a character boundary.
UTF-8 and big-endian numbers are external. Its assumptions: a length fits its field
as far as TLC's integers go (the code's limit is 2^18), payloads are bytes, and a
reason is made of whole characters.

### Wire

`Stream` composed with `Frame`: what `Write` puts on the channel is encoded, and
`readLoop` of a peer with the same limit parses it. It assumes what the
configuration enforces, that the stream's payload limit is within the codec's.

### Endpoint

The registry, the listener and the outer life of a session: who is handed a
connection, who gives its backlog slot back, how Dial, AcceptConn,
Listener.Close and Endpoint.Close end. A step under `e.mu` is one action.
Negotiation is abstract here: a running session becomes established or fails.
`Session` has the inside.

### Inbox

How an event reaches a session: the cache of `dedupe.go`, the mailbox, and the
loop that empties it. Posting is two steps, as in `mailbox.post`: append under
the mutex, then a non-blocking send to `notify`.

### Session

The two ends of one connection, from the offer to the teardown. `s` is a record
per end with the fields of `session` and, for its PeerConnection, what Pion was
told and has reported. `net` is the set of signals in flight: they are
reordered, and a lost one is never taken out. Every call of Pion or of
signaling may fail. Events are handled where they arrive, since the mailbox
keeps no order between events of different origin; `Inbox` has the mailbox.

`teardown` is two actions: the notification and the end of the stream, and the
release of the PeerConnection, because the peer may act in between. `fin` is
what the reader of the stream sees. The stream's read loop may exit at any time
(`StreamEnds`): a transport error under a live peer is taken for the peer's end, as
in `onStreamDone`. Reconnect policy, keepalive, the candidates an end finds and the
bound on generations are the setting `cfg`, which never changes.

### Sse

The server's record of one peer, the handlers of GET and POST requests, the
reaper, Server.Close, and the clients that receive as that peer, with their
connections. A step is a critical section of the server's or the record's
mutex, a batch of events written, or one event read. A connection may be cut at
any time; what was on it is lost, and a write to it may still succeed. A record
that was forgotten is followed by a new one, which numbers from 1 again.

### Mux

Both ends of a shared stream. On the client: each call of Open and Close with its
connection, the goroutine of `run` (`ses`: keepRunning, connect, joinPending and
the select of session), and `read` (`rd`). On the server: the handler of each
stream with its members, the handler of each PUT, each DELETE, and the records of
the peers, with another client that takes a peer over, the grace period, and
Close. A PUT makes one attachment and is its identity. A stream is also its
connection: what was written and not yet read, and whether it is up. Of signals
only whether one waits (`unsent`) is kept; their numbers are in `Sse`. When a stream
breaks, the receiver may open another by itself (`Reconnects`); `read` takes the new
stream's first event for the end of the session (mux.go:622), which starts over. Until
then the reader's events come from the new stream (`Receiving`).

A step is a critical section of one mutex. Joins in particular are four or five
steps: lookup and admit, insert the member, detach what a forgotten record had,
attach, and the second look at the stream.

### Relay

Start as a sequence of steps that each may fail, with the listeners that are
open; the request of a client as the callbacks that Pion's server makes (auth,
quota, socket, created, and later deleted), interleaved over the handlers of
several TCP connections; and the traffic of a socket against its token buckets on
a discrete clock. A username is whether it has an expiry prefix, and its plan
suffix. Of the address of a listener it matters whether it is a UDP address at all
(`LocalAddr`: the type assertion at relay.go:273, which closes the listener it has
just opened) and whether it, or a given `RelayIP`, is unspecified, which Start refuses.

### MC modules

`MCStream`, `MCEndpoint`, `MCInbox`, `MCSession`, `MCSse`, `MCMux` and `MCRelay`
extend their module and add symmetry sets or constant values. No definition is
replaced.

## Runs

| Run | Shows |
|---|---|
| `stream_read` | two readers, a peer that sends data, empty, close and bad frames, a closing call of each kind, and a read deadline: the read side implements `ByteStream` (`ReadsAreByteStream`): bytes in order, none skipped, EOF after the last of them and for good |
| `stream_write` | two writers, two pingers, the pongs of the read loop, a local close and a write deadline: writes are contiguous on the channel (`WriteContiguous`), what Write reports as written was (`WriteCommitted`), no data follows the close frame of a local close (`NoDataAfterClose`; Shutdown frees the write lock before it closes `term`, stream.go:600-605, and a data frame may follow its close frame), the call that closes the stream drains (`DrainHonoured`), a ping that is under way is not forgotten when an earlier one returns and is not answered by an earlier one's pong (`ProbesTracked`) |
| `stream_live` | a reader, a writer that the full channel blocks, and two closing calls, local or not: once a stream is closed every call on it returns (`CloseUnblocks`), with a peer that never acknowledges anything; and each chunk on the wire is what the peer takes for it, with a codec that is exact (`WireExact`). Ping's return is in `StreamPing.cfg`, see the bounds |
| `endpoint` | three offers for two slots, an acceptor, both closing calls, an outage: slots taken are slots owned (`SlotsMatch`), whoever pushes to the queue finds room (`QueueHasRoom`) |
| `endpoint_live` | a dial, an offer and the closing calls: Close returns (`CloseSettles`), and then nothing is left (`CloseReleasesAll`); a cancelled dial is given back (`CancelledDialReleased`) |
| `inbox` | repeats that get through are half a cache apart (`RepeatsFarApart`), no wake-up is lost (`WakeupPending`), events are handled in order without a gap (`HandledNoGap`) and are handled (`PostedIsHandled`) |
| `session` | candidates are kept (`CandidatesKept`), every wait has its timer (`WaitsAreBounded`), a connected session keeps probing (`ProbeScheduled`), restart generations stay ordered although restarts and their answers overtake each other (`GenerationsOrdered`), and no end outlives the other (`NoHalfOpen`) |
| `sse` | the log covers what a reconnect can rewind to (`LogCovers`), no signal waits unnoticed (`NoLostWake`), and a client gets the signals of one record, every one in order, apart from repeats and from those the record had let go of (`MissedOnlyTrimmed`) |
| `mux` | a record's shared stream has it as a member or is about to be detached, but for two cases (`AttachmentOwned`); a connection that has joined is served or told, but for two cases (`JoinedOrTold`); a connection that waits to join and a signal that waits for a member are noticed (`NobodyOverlooked`); and with no connection left the stream ends at both ends (`IdleSettles`) |
| `relay` | a failed Start and a closed server hold no listener (`NoListenerLeft`); a user exceeds its quota by at most one socket per other handler, and not at all without TCP (`QuotaBounded`); nobody is refused below the quota (`RefusedOnlyWhenFull`); what passes a socket in any span is within burst and rate (`WithinBudget`) |
| `listener_leak`, `session_recovery` | one finding each: TLC refutes what the code's comments say |

Every property of a passing run has a mutant: a definition changed the way a
plausible bug would change it, under which TLC refutes the property. The
mutants stand before the definitions they change.

## Bounds

* **Stream.** Two readers, or two writers and two pingers, suffice to hold a lock
  while another waits; the second ping is under way when the first returns.
  `MaxCalls` bounds the calls of writers, pingers and closers in all: four of five,
  or three, so that each combination happens and the instance stays small. `Depth = 1` fills the queue with one frame, `MaxRead` and
  `MaxPayload` of 2 make a short read leave a remainder, and `WriteSizes`
  contains 0, because an empty write takes no lock, and 2, which is two chunks.
  `Window = 1` makes the channel full after each chunk that is not acknowledged.
  Readers and writers share only the terminal state and are checked apart,
  which is what makes both complete. Two closing calls meet in `stream_live`, with
  a reader and a writer. A pinger in addition exceeds the time of a run, so
  `StreamPing.cfg` has the same question with a pinger in the reader's place
  (200,969 states, `CloseUnblocks` holds).
* **Endpoint.** `Backlog = 2` with three offers makes the third one find the
  backlog full and leaves room for a slot to be given back and taken again.
* **Inbox.** Three IDs and a cache of two force an eviction; five deliveries let
  an evicted ID return; the mailbox of two overflows with two callbacks.
* **Session.** The buffer holds one candidate and the answerer has two and
  End: the second overflows it. Only the answerer's candidates can come before
  their description, so the offerer has none. There is one attempt in the setting
  with candidates and keepalive, so that each recovery is either the last one or one
  too many; the other setting has two attempts and generations, so that two
  restarts, or the answers to them, are under way at once and overtake each other.
  Restart offers of a generation above the setting's count as lost.
* **Sse.** Two streams overlap on one record, or follow each other; two records
  are the forgotten one and its successor; four signals exceed
  `QueueSize + ReplayDepth`, so the log is trimmed. Three streams with three
  signals and one record were checked once too (5.3 million states, no error)
  and are left out for their time.
* **Mux.** A behaviour is one scenario: whom Open is called for, and which troubles
  happen once. The scenarios of `MCMux` pair the troubles that can meet (a lost
  stream or a lost answer with a takeover, a signal, an expiry or Mux.Close; the
  server's Close with a signal; a lost stream that the receiver opens again by
  itself), open the second connection of a peer after the first, and put two peers
  on one stream. Three streams are one, the receiver's next and the session's
  successor; three PUTs a join, its retry and a join to the successor; two records
  a forgotten one and the next. Beyond these the server cannot be reached, which
  the code handles like any failure.
* **Relay.** Two handlers race for plans of one and two sockets; four requests let
  a socket end and be asked for again; three names are one user twice (static and
  ephemeral) and one with a plan suffix. Four packets of up to two units meet a
  bucket of two units and a rate of one or two per tick within three ticks.
  Requests and packets are in different loads, as they share only the plan. The
  configurations have one for each refusal of Start and each way to find a plan.
* **Frame.** Payloads of every size at which the codec decides, with a payload limit
  of 9 bytes and a reason limit of 4, characters of every width, and every
  damage of one byte. The limits of the code, 256 KiB and 256 bytes, are
  constants here; nothing depends on their values.

Deadlock checking is off everywhere: each of these systems may stop, once all
calls have returned and the peers are silent.

## Fairness

* **Stream.** The goroutines inside the stream run: read loop, release, and
  callers that can move. The peer and the channel need do nothing.
* **Endpoint.** The session goroutines, the receive loop and the callers run.
  Signaling need not deliver, and peers need not answer.
* **Inbox.** The loop runs, and a goroutine that has appended to the mailbox
  sends its wake-up.
* **Session.** The loop runs, armed timers fire, and on a session that believes
  itself connected Pion notices that the peer has closed its PeerConnection: the
  stream ends or connectivity is reported lost. This is what Pion's consent
  checks are for. No signal need arrive.
* **Sse.** Safety only.
* **Mux.** While a goroutine of the client or a handler of the server can go on,
  one of them does. Users, the network, other clients and the endpoint that
  empties an inbox need do nothing.
* **Relay.** Safety only.

No action has strong fairness.

## Proofs

For every value of the constants, from the assumptions named in the modules.
These only say what the code itself requires or what the constants mean: sets of
callers are disjoint, queues and limits are positive where a Config fills in a
default, plans are records of integers, `None` is no peer.

| Module | Theorems |
|---|---|
| `StreamProofs` | `TypeCorrect`, `WritesContiguous`, `CloseFrameIsLast`, `WritesAreCommitted`, `ReadsOrdered`, `ReadSideImplements` (refinement), `DrainIsHonoured`, `ProbesAreTracked` |
| `WireProofs` | `FramesRoundTrip`, `FramesCanonical`, `ReasonsRoundTrip`, `CodecIsSound`, `WireIsExact` |
| `EndpointProofs` | `TypeCorrect`, `SlotsCounted`, `AcceptQueueHasRoom`, `ClosedEndpointIsEmpty`, `CancelledDialLeavesNothing` |
| `InboxProofs` | `TypeCorrect`, `RepeatsApart`, `NoLostWakeup`, `HandledInOrder` |
| `SessionProofs` | `TypeCorrect`, `CandidatesAreKept`, `WaitsBounded`, `ProbesScheduled`, `GenerationsAreOrdered` |
| `SseProofs` | `TypeCorrect`, `LogsCover`, `WakesAreKept`, `OnlyTrimmedMissed` (action property) |
| `MuxProofs` | `TypeCorrect`, `AttachmentsOwned`, `NobodyIsOverlooked`, `JoinedAreTold` |
| `RelayProofs` | `TypeCorrect`, `ListenersGivenBack`, `QuotaHolds`, `RefusedWhenFull` (action property), `BudgetKept` |

Each module follows one pattern: an inductive invariant, one lemma per action that
the action preserves it, and theorems that read the properties off. The
strengthenings, and why the properties do not stand by themselves:

**StreamProofs.** Contiguity is not inductive, since nothing in it says why the
next chunk belongs where it goes. `WriteInv` adds who holds the write lock
(`LockInv`), that the last chunk on the channel is the one the holder wrote last,
and how far it is (`ChunkInv`), and that a close frame has been written only when
nobody can pass the check for it (`CloseInv`). What Write returns follows from the
same `ChunkInv`. `ReadInv` has `ChainInv`: what readers have got, the remainder, the
queue and the read loop's payload, one after the other, are the bytes taken off the
channel.

`ReadSideImplements` is the refinement `Spec => ReadsAreByteStream`. A step of the
stream maps to `Arrive` (the read loop takes a payload), `Deliver` (a reader
copies), `Finish` (the loop closes the queue, or the last bytes go), `Cut`
(`terminate`), or to a stutter. What this needs beyond `ReadInv` is `EndInv`: once
the queue is closed the read loop holds nothing and is gone, and unless the stream
was cut, the bytes handed out, left over and queued are all that arrived; and a
reader that has been told EOF has found the queue closed, empty and nothing left.

`DrainInv` ties the release goroutine to the one closing call that ran the once: it
acts on that call's drain flag, and what must be acknowledged is settled before it
looks. `CloseFrameIsLast` is about the close frame of a local close only, as the
property is.

**WireProofs.** The theorems are about every payload, every message of bytes and every
reason. The provers cannot use the library's induction theorems, which take an
operator; but that a set of numbers has a least member (`LeastNumber`) takes a set,
and `Counting` makes an induction of it: a set of numbers that has 0, and with a
number the next, has them all. Four steps rest on it.

1. Numbers: `Digits32` and `Number32` say that a length has its four digits and is
   read back from them; then `EncodeShape` and `ParseResult` give `FramesRoundTrip`,
   and `FramesCanonical` in the other direction.
2. Reasons: `PrefixStep` is what the first `k` characters are as bytes, `Offset` where
   they end; every number is such an end or lies inside a character (`Located`).
3. `Valid` is a recursive function, so first a function that satisfies its equation
   must exist (`ScanExists`, from the end of the bytes). At the beginning of a
   character exactly one width reads a character (`AtBoundary`: the first byte gives
   it), hence `ValidAtBoundary`: the first `m` bytes of a reason are valid exactly
   when a character ends at `m`. So the cut of `EncodeClose` is the last boundary
   within the limit (`TruncatedIsPrefix`), and `ParseClose` accepts it.
4. `ChunksFit` is the invariant of the stream: no chunk is empty or above the limit,
   which needs `ChunkInv` for the place of a Write in its loop. `WireIsExact` follows.

**EndpointProofs.** The count of slots says nothing about where each one is;
`PlaceInv` says which place of its session or of the router goes with a slot,
`OfferInv` what the router holds, and `QueueInv` that the queue has each connection
once and only those that own a slot. The queue then fits into the slots, and a
session about to push owns one that is not in it. For Close, `LifeInv` relates a
Dial's place to its session's and the registry to the sessions that are not
finished, and `CloseInv` says that a session registered before the endpoint was
closed is in Close's copy of the registry and so is waited for until the grace
period is over; a Dial between its registration and its goroutine is the only
session that may outlive it.

**InboxProofs.** `CacheInv` numbers the cached IDs as they were admitted and says
that the newer half of the numbers is all there; `ChainInv` says that what was
handled, the batch and the queue, one after the other, are what was posted.

**SessionProofs.** `EndsInv` is about one end at a time: what a session in its loop
has (`LoopInv`), and that an end that has not started is untouched. Timers are
bounded only together with `stream`: an established session is one with a stream,
which is why a late result of a probe finds the timer it expects. `GenInv` extends
the order of the generations to the signals in flight, since a late answer or
restart offer carries a number from the past; an end that has closed has forgotten
its own, which is where the order stops. That the answer an offerer holds is the
one to its latest restart is not claimed: answers carry no generation, and a late
one is taken for the newer offer's (a hazard, bounded by the recovery timer).

**SseProofs.** `LogInv` says that the log is the interval from `Floor` to the newest
number, and that what has been sent is within `ReplayDepth` of the floor, without
which the limit of enqueue does not bound the log. `ClientsInv` follows a client to
the wire of its stream: the signals on it are of one record, go on from where the
client is, each at most one further than the last, and the record goes on from the
last one on the wire. A client whose last event ID belongs to a forgotten record is
`stale`, and nothing is claimed for it (the hazard at server.go:500). Replaced
streams may still have events on their wire, so the last part holds only of the
stream that the record has.

**MuxProofs.** `MuxInv` has a part for each party. On the client: the registry and
the connections (`RegInv`), the goroutine of `run` with its stream and its reader
(`SessionInv`), Mux.Close (`ClosedInv`), the DELETEs (`LeaveInv`: a connection that
joinPending still has to join has none). On the server: what a PUT knows at each of
its steps (`PutInv`), that a record or a member is a PUT that has entered
(`RecordInv`, `MemberInv`), the snapshot a handler works through (`SnapshotInv`), and
that an entered PUT that has not attached is still a member of a stream that is
served, or was overwritten (`EnteredInv`), without which the second look at the
stream after the attach would not be enough. `JoinNoticed` extends `PendingNoticed`
to the time in which joinPending works through its list, and `JoiningTold` extends
`JoinedOrTold` to a PUT that has entered and whose answer has not been read: a
takeover whose event is read in that window is one of the ways that `lost` records,
until a join makes the peer a member again. `AttachmentsOwned` has two exceptions,
which `late` records: an attachment that was no member any more before it was
attached, because a second join of the peer overwrote it or because a leave that
overlaps the join removed it.
`StreamInv` keeps a stream's number from being used again.

**RelayProofs.** `Counters` says that a user's counter is the number of its sockets
between the created and the deleted callback; `Quotas` adds to those the requests
that have passed the check and are not counted yet (`Passed`), each of which may
become one socket more. `SocketOwned` and `OneByOne` say whose request a new socket
belongs to and that there is one handler without TCP.

`Budgets` is about one socket and one limiter. A bound on what has passed is not
inductive: it does not say what the bucket still lets through, and peer-to-client the
bucket may be in debt for a packet that waits. So for every tick `t`, what has passed
since `t`, what the bucket holds and what is owed to the waiting packet (`Owed`) are
together at most the burst and the rate since `t`, and inbound one datagram more:
`t` may be later than the reservation of the packet, which then counts beside a
bucket that has filled up again. `Paid` says that a debt is that of a waiting packet
and is paid back when the packet is due; a packet is released only then, so the
bucket is not in debt after it, and the next reservation starts from zero or above.
The arithmetic is in `LevelTick` (a tick adds the rate or fills the bucket),
`LevelTaken` and `DelayCovers` (the delay that a reservation is given, rounded up, is
long enough to earn what it lacks).

TLC finds each of these inductive invariants true on the instance of its component's
run.

**Only model-checked.**

* The liveness properties `CloseUnblocks`, `CloseSettles`, `PostedIsHandled`,
  `NoHalfOpen` and `IdleSettles`: they need fairness and `ENABLED`, which are out of
  the prover's reach.
* The two findings, which are violations.

## Findings

Each is a run that TLC ends with a counterexample.

* `listener_leak`: push looks at the closed channel and then sends. When Close
  has drained in between, the connection stays in a queue that nobody reads.
* `session_recovery`: the answer to a restart resets the count of attempts
  before connectivity is back; with signaling up and ICE down, recovery goes on
  without end although `MaxAttempts` bounds it.

Further instances give counterexamples too. Their properties are sentences of the
code or of its documents, and each is a hazard in `PROJECT.json`:

| Instance | Sentence | What the code does |
|---|---|---|
| `StreamDrain.cfg` | stream.go:226, the channel is released after the acknowledgement or the timeout | of two concurrent closing calls the second does not drain and may win the once |
| `StreamShutdown.cfg` | stream.go:562, Shutdown keeps received data | a payload that the read loop holds when Shutdown is called is dropped |
| `SessionClose.cfg` | guides/11-protocol.md:117, the stream is drained | a close that arrives during recovery discards received data |
| `SseClose.cfg` | sse/server.go:150, Close detaches every stream | a handler admitted before Close attaches afterwards, and nothing ends its stream |
| `MuxLost.cfg` | mux.go:656, failed is closed when the connection can no longer be used | a late DELETE of an earlier connection, or a takeover read before the answer to the join, leaves a connection without membership and without a word |
| `MuxStranded.cfg` | mux_server.go:157, a peer that leaves "then keeps its queue for the offline grace period" | a late DELETE takes the new member away between a join's insert and its attach; join then attaches the record and looks again only for the end of the stream (mux_server.go:234), so the record stays attached without a member and its grace period never starts |
| `RelayQuota.cfg` | relay.go:77, MaxAllocations bounds the sockets of a user | requests on two TCP connections pass the check before either is counted |

One more limit is in the condition of `ControlFits` in `Frame`: a `FramePayload`
below 8, which the configuration accepts, makes each end refuse the other's pings.

## Not modelled

* Time is not measured: an armed timer may fire at any moment.
* Pion, the network and HTTP are external, modelled by how the code uses them.
* In `Sse` and `Mux`: authentication beyond its outcome, validation of envelopes,
  the client's send queue, the length of the backoff, the keepalive comments.
* In `Relay`: what Pion's server does with a packet, the issue and the check of
  credentials (HMAC), statistics and their formatting.
* The memory signaler, a transport for tests: its losses and repeats are among
  those that `Session` and `Inbox` take from any transport. `dial.go`: its calls are
  those of an endpoint with one session. The state that `Conn.State` reports:
  nothing in the code reads it.
* `Frame.Encode` does not have the error for a destination that is too small
  (frame.go:112): its callers size the buffer by the payload, and the operator has none.
* The goroutines of keepalive probes that Endpoint.Close waits for: `Endpoint` has the
  goroutines of sessions and Dials only. A probe ends with its stream (`CloseUnblocks`).
* The loss of the endpoint's context during start is part of failing to start.
* See `PROJECT.json` for the parts that are left out, and why.

## Plan

Done: `Stream` with `ByteStream`, `Frame` and `Wire`, `Endpoint`, `Inbox`, `Session`,
`Sse`, `Mux` and `Relay`; proofs for all of them. Every safety property of a run,
invariant or action property, is proved for every value of the constants.

Left: what needs fairness or `ENABLED` (see "Only model-checked"), and the parts under
"Not modelled".
