--------------------------------- MODULE Sse ---------------------------------
(***************************************************************************)
(* Signaling over HTTP: the server's record of a peer (sse/server.go) and  *)
(* the clients that receive as that peer (sse/client.go).                  *)
(*                                                                         *)
(* The handler of a GET attaches itself to the peer's record as its stream *)
(* and writes out the signals that POSTs queue there.  A client that loses *)
(* its stream opens another and names the last event it has.  A record     *)
(* without a stream for OfflineGrace is forgotten, and the next GET makes  *)
(* a new one, which numbers its signals from 1 again.                      *)
(*                                                                         *)
(* A step is a critical section of the server's or the record's mutex, or  *)
(* a batch of events written, or one read.  A signal is its number in its  *)
(* record.  Authentication and the validation of signals are left out:     *)
(* requests that fail them change nothing here.                            *)
(***************************************************************************)
EXTENDS Integers, Sequences, FiniteSets, SequencesExt

CONSTANTS
  Clients,      \* signaling connections opened for this peer
  Posters,      \* POST requests that run at the same time
  QueueSize,    \* Config.QueueSize
  ReplayDepth,  \* Config.ReplayDepth
  MaxStreams,   \* GET requests in all
  MaxRecords,   \* records made for the peer; then MaxPeers is reached
  MaxSignals    \* signals queued in all

ASSUME SseAssumption ==
  /\ QueueSize \in Nat \ {0} /\ ReplayDepth \in Nat \ {0}
  /\ MaxStreams \in Nat /\ MaxRecords \in Nat /\ MaxSignals \in Nat

None    == 0
Streams == 1 .. MaxStreams
Records == 1 .. MaxRecords

VARIABLES
  peers,   \* Server.peers for this peer: its record, or None
  closed,  \* Server.closed
  doomed,  \* records that Server.Close has still to shut down
  rec,     \* the records (peer)
  get,     \* the GET requests (serveStream), each with its connection
  post,    \* the POST requests (serveSend)
  cli      \* the clients (conn)

vars == <<peers, closed, doomed, rec, get, post, cli>>

-----------------------------------------------------------------------------
(* Initial values.                                                         *)

\* timer: the reaper is armed; expire: where its function is
NewRecord == [made |-> FALSE, seq |-> 0, sentUpTo |-> 0, log |-> <<>>, stream |-> None,
              down |-> FALSE, timer |-> FALSE, expire |-> "idle"]

\* pc    of the handler; rec: the record it was admitted to
\* end   the reason with which its attachment was ended
\* conn  its connection: "up", "eof" once the handler has returned, "cut"
\* wire  events written and not yet read
NewGet == [pc |-> "none", client |-> None, last |-> 0, rec |-> None,
           wake |-> FALSE, end |-> "none", conn |-> "up", wire |-> <<>>]

NewPost == [pc |-> "idle", rec |-> None, stream |-> None]

\* from  the record that lastID counts in, and stale: whether lastID has been
\*       presented to another one (history)
\* floor what the record had let go of when the client's stream attached (history)
NewClient == [pc |-> "connect", get |-> None, lastID |-> 0,
              from |-> None, stale |-> FALSE, floor |-> 0]

Init ==
  /\ peers = None
  /\ closed = FALSE
  /\ doomed = {}
  /\ rec = [r \in Records |-> NewRecord]
  /\ get = [g \in Streams |-> NewGet]
  /\ post = [p \in Posters |-> NewPost]
  /\ cli = [c \in Clients |-> NewClient]

Event(e, r, i) == [event |-> e, rec |-> r, id |-> i]

\* The handler's loop.
Serving == {"take", "wait"}

\* The number of the last signal that record r has let go of.
Trimmed(r) == rec[r].seq - Len(rec[r].log)

-----------------------------------------------------------------------------
(* serveStream: the handler of GET request g.                              *)

\* The handler returns and its connection ends; detach comes first.
Returns(h) == [NewGet EXCEPT !.pc = "detach", !.rec = h.rec, !.wire = h.wire,
                             !.conn = IF h.conn = "up" THEN "eof" ELSE h.conn]

\* All that is left is what the client has yet to read.
Gone(h) == [NewGet EXCEPT !.pc = "gone", !.conn = h.conn, !.wire = h.wire]

\* ServeHTTP and admit: the record is found or made, or the request refused.
Admit(g) ==
  /\ get[g].pc = "request"
  /\ \/ /\ ~closed
        /\ peers # None
        /\ get' = [get EXCEPT ![g].pc = "attach", ![g].rec = peers]
        /\ UNCHANGED <<peers, rec>>
     \/ /\ ~closed
        /\ peers = None
        /\ \E r \in Records :
             /\ ~rec[r].made /\ \A q \in Records : q < r => rec[q].made
             /\ peers' = r
             /\ rec' = [rec EXCEPT ![r].made = TRUE, ![r].timer = TRUE]
             /\ get' = [get EXCEPT ![g].pc = "attach", ![g].rec = r]
     \/ /\ closed \/ (peers = None /\ \A r \in Records : rec[r].made)
        /\ get' = [get EXCEPT ![g] = Gone(Returns(@))]
        /\ UNCHANGED <<peers, rec>>
  /\ UNCHANGED <<closed, doomed, post, cli>>

\* Mutant of Rewound: the new stream goes on where the old one stopped.
NotRewound(r, last) == r.sentUpTo

\* Mutant of Rewound: signals that are gone count as not sent.
RewoundTooFar(r, last) == IF last < r.sentUpTo THEN last ELSE r.sentUpTo

\* Where a stream that has everything up to last goes on.
Rewound(r, last) ==
  IF last < r.sentUpTo
  THEN LET floor == IF r.log = <<>> THEN r.seq ELSE r.log[1] - 1
       IN  IF last > floor THEN last ELSE floor
  ELSE r.sentUpTo

\* attach.  Its poke is left out: the handler takes next in any case.
Attach(g) ==
  /\ get[g].pc = "attach"
  /\ LET r   == get[g].rec
         old == rec[r].stream
         c   == get[g].client
     IN  /\ rec' = [rec EXCEPT ![r].stream = g, ![r].timer = FALSE,
                               ![r].sentUpTo = Rewound(rec[r], get[g].last)]
         /\ get' = [h \in Streams |->
                      IF h = g THEN [get[g] EXCEPT !.pc = "take", !.last = 0]
                      ELSE IF h = old THEN [get[h] EXCEPT !.end = "replaced"]
                      ELSE get[h]]
         /\ cli' = [cli EXCEPT ![c].stale = @ \/ (get[g].last > 0 /\ cli[c].from # r),
                               ![c].floor = IF cli[c].get = g THEN Trimmed(r) ELSE @]
  /\ UNCHANGED <<peers, closed, doomed, post>>

\* The events of the signals ids go out; what is written to a connection that
\* is cut is lost, and the write may still succeed.
Written(h, ids) ==
  IF h.conn = "up"
  THEN [h EXCEPT !.wire = h.wire \o [i \in DOMAIN ids |-> Event("signal", h.rec, ids[i])]]
  ELSE h

\* The log from the first signal on that has not been sent.
Unsent(p) ==
  LET later == {i \in DOMAIN p.log : p.log[i] > p.sentUpTo}
      start == IF later = {} THEN Len(p.log) + 1 ELSE Min(later)
  IN  SubSeq(p.log, start, Len(p.log))

\* takeUnsent, while this is the record's stream, and the writing of what was
\* taken.  All of it counts as sent, also when a write fails after n signals.
TakeUnsent(g) ==
  /\ get[g].pc = "take"
  /\ LET r   == get[g].rec
         p   == rec[r]
         out == Unsent(p)
     IN  \/ /\ p.stream # g
            /\ get' = [get EXCEPT ![g].pc = "wait"]
            /\ UNCHANGED rec
         \/ /\ p.stream = g
            /\ rec' = [rec EXCEPT
                         ![r].sentUpTo = IF out = <<>> THEN @ ELSE Last(out),
                         ![r].log = IF Len(@) > ReplayDepth
                                    THEN SubSeq(@, Len(@) - ReplayDepth + 1, Len(@))
                                    ELSE @]
            /\ \/ get' = [get EXCEPT ![g] = [Written(get[g], out) EXCEPT !.pc = "wait"]]
               \/ \E n \in 0 .. Len(out) - 1 :
                    get' = [get EXCEPT ![g] = Returns(Written(get[g], SubSeq(out, 1, n)))]
  /\ UNCHANGED <<peers, closed, doomed, post, cli>>

\* The last event, which tells why the attachment has ended.
Told(h) ==
  IF h.conn = "up" THEN [h EXCEPT !.wire = Append(h.wire, Event(h.end, h.rec, 0))] ELSE h

\* The select of serveStream: more signals, or the end of this attachment.
Wake(g) ==
  /\ get[g].pc = "wait"
  /\ \/ /\ get[g].wake
        /\ get' = [get EXCEPT ![g].pc = "take", ![g].wake = FALSE]
     \/ /\ get[g].end # "none"
        /\ get' = [get EXCEPT ![g] = Returns(Told(get[g]))]
  /\ UNCHANGED <<peers, closed, doomed, rec, post, cli>>

\* The response cannot be streamed; writing the first event or a keepalive
\* fails; or the request's context ends.
StreamFails(g) ==
  /\ \/ /\ get[g].pc = "attach"
        /\ get' = [get EXCEPT ![g] = Gone(Returns(@))]
     \/ /\ get[g].pc \in Serving
        /\ get' = [get EXCEPT ![g] = Returns(@)]
  /\ UNCHANGED <<peers, closed, doomed, rec, post, cli>>

Detach(g) ==
  /\ get[g].pc = "detach"
  /\ LET r == get[g].rec
     IN  rec' = IF rec[r].stream = g
                THEN [rec EXCEPT ![r].stream = None, ![r].timer = @ \/ ~rec[r].down]
                ELSE rec
  /\ get' = [get EXCEPT ![g] = Gone(@)]
  /\ UNCHANGED <<peers, closed, doomed, post, cli>>

Handler(g) == \/ Admit(g) \/ Attach(g) \/ TakeUnsent(g) \/ Wake(g)
              \/ StreamFails(g) \/ Detach(g)

-----------------------------------------------------------------------------
(* serveSend.                                                              *)

\* lookup: the record, or 404.
Lookup(p) ==
  /\ post[p].pc = "idle"
  /\ ~closed /\ peers # None
  /\ post' = [post EXCEPT ![p].pc = "enqueue", ![p].rec = peers]
  /\ UNCHANGED <<peers, closed, doomed, rec, get, cli>>

Queued == {s \in Records \X (1 .. MaxSignals) : s[2] <= rec[s[1]].seq}

\* Mutant of Enqueue: one signal too many is queued.
EnqueueOffByOne(p) ==
  /\ post[p].pc = "enqueue"
  /\ LET r == post[p].rec
     IN  /\ rec[r].seq - rec[r].sentUpTo <= QueueSize
         /\ Cardinality(Queued) < MaxSignals
         /\ rec' = [rec EXCEPT ![r].seq = @ + 1, ![r].log = Append(@, rec[r].seq + 1)]
         /\ post' = [post EXCEPT ![p] = NewPost]
  /\ UNCHANGED <<peers, closed, doomed, get, cli>>

\* enqueue: the signal is queued and the stream of that moment is noted, or the
\* answer is 503.
Enqueue(p) ==
  /\ post[p].pc = "enqueue"
  /\ LET r    == post[p].rec
         full == rec[r].down \/ rec[r].seq - rec[r].sentUpTo >= QueueSize
     IN  \/ /\ full
            /\ post' = [post EXCEPT ![p] = NewPost]
            /\ UNCHANGED rec
         \/ /\ ~full
            /\ Cardinality(Queued) < MaxSignals
            /\ rec' = [rec EXCEPT ![r].seq = @ + 1, ![r].log = Append(@, rec[r].seq + 1)]
            /\ post' = [post EXCEPT ![p] =
                           IF rec[r].stream = None THEN NewPost
                           ELSE [NewPost EXCEPT !.pc = "poke", !.stream = rec[r].stream]]
  /\ UNCHANGED <<peers, closed, doomed, get, cli>>

\* Mutant of Poke: the stream is not woken.
PokeNobody(p) ==
  /\ post[p].pc = "poke"
  /\ post' = [post EXCEPT ![p] = NewPost]
  /\ UNCHANGED <<peers, closed, doomed, rec, get, cli>>

\* poke, outside the mutex.  Only a handler that is still serving will look.
Poke(p) ==
  /\ post[p].pc = "poke"
  /\ LET g == post[p].stream
     IN  get' = IF get[g].pc \in Serving THEN [get EXCEPT ![g].wake = TRUE]
                ELSE get
  /\ post' = [post EXCEPT ![p] = NewPost]
  /\ UNCHANGED <<peers, closed, doomed, rec, cli>>

-----------------------------------------------------------------------------
(* The reaper, and Server.Close.                                           *)

\* OfflineGrace is over.  A Stop that comes from now on is too late.
ReaperFires(r) ==
  /\ rec[r].timer /\ rec[r].expire = "idle"
  /\ rec' = [rec EXCEPT ![r].timer = FALSE, ![r].expire = "fired"]
  /\ UNCHANGED <<peers, closed, doomed, get, post, cli>>

\* expire
Expire(r) ==
  /\ rec[r].expire = "fired"
  /\ rec' = IF rec[r].stream # None \/ rec[r].down
            THEN [rec EXCEPT ![r].expire = "idle"]
            ELSE [rec EXCEPT ![r].expire = "forget", ![r].down = TRUE, ![r].log = <<>>]
  /\ UNCHANGED <<peers, closed, doomed, get, post, cli>>

\* forget
Forget(r) ==
  /\ rec[r].expire = "forget"
  /\ rec' = [rec EXCEPT ![r].expire = "idle"]
  /\ peers' = IF peers = r THEN None ELSE peers
  /\ UNCHANGED <<closed, doomed, get, post, cli>>

\* Close, under the server's mutex.
ServerClose ==
  /\ ~closed
  /\ closed' = TRUE
  /\ doomed' = {peers} \ {None}
  /\ peers' = None
  /\ UNCHANGED <<rec, get, post, cli>>

\* shutdown
Shutdown(r) ==
  /\ r \in doomed
  /\ doomed' = doomed \ {r}
  /\ rec' = [rec EXCEPT ![r].down = TRUE, ![r].log = <<>>, ![r].timer = FALSE,
                        ![r].stream = None]
  /\ get' = IF rec[r].stream = None THEN get
            ELSE [get EXCEPT ![rec[r].stream].end = "shutdown"]
  /\ UNCHANGED <<peers, closed, post, cli>>

-----------------------------------------------------------------------------
(* The client's connection: run, streamOnce and handleEvent.               *)

\* A new stream is requested, from the last event on.
Open(c) ==
  /\ cli[c].pc = "connect"
  /\ \E g \in Streams :
       /\ get[g].pc = "none" /\ \A h \in Streams : h < g => get[h].pc # "none"
       /\ get' = [get EXCEPT ![g] = [NewGet EXCEPT !.pc = "request", !.client = c,
                                                   !.last = cli[c].lastID]]
       /\ cli' = [cli EXCEPT ![c].pc = "stream", ![c].get = g]
  /\ UNCHANGED <<peers, closed, doomed, rec, post>>

\* The client leaves its stream, or the network does: nothing more is read.
Cut(g) == [get EXCEPT ![g].conn = "cut", ![g].wire = <<>>]

\* handleEvent.  A signal goes to the inbox, when there is room; "replaced" ends
\* the client's connection for good, and "shutdown" this stream.
HandleEvent(c) ==
  /\ cli[c].pc = "stream"
  /\ LET g == cli[c].get
         e == Head(get[g].wire)
     IN  /\ get[g].conn # "cut" /\ get[g].wire # <<>>
         /\ \/ /\ e.event = "signal"
               /\ get' = [get EXCEPT ![g].wire = Tail(@)]
               /\ cli' = [cli EXCEPT ![c].lastID = e.id, ![c].from = e.rec]
            \/ /\ e.event = "replaced"
               /\ get' = Cut(g)
               /\ cli' = [cli EXCEPT ![c].pc = "over", ![c].get = None]
            \/ /\ e.event = "shutdown"
               /\ get' = Cut(g)
               /\ cli' = [cli EXCEPT ![c].pc = "connect", ![c].get = None]
  /\ UNCHANGED <<peers, closed, doomed, rec, post>>

\* The stream is over: run connects again after its backoff.
StreamOver(c) ==
  /\ cli[c].pc = "stream"
  /\ LET g == cli[c].get
     IN  /\ get[g].conn = "cut" \/ (get[g].conn = "eof" /\ get[g].wire = <<>>)
         /\ get' = Cut(g)
  /\ cli' = [cli EXCEPT ![c].pc = "connect", ![c].get = None]
  /\ UNCHANGED <<peers, closed, doomed, rec, post>>

\* Close
ClientClose(c) ==
  /\ cli[c].pc \in {"connect", "stream"}
  /\ cli' = [cli EXCEPT ![c].pc = "over", ![c].get = None]
  /\ get' = IF cli[c].get = None THEN get ELSE Cut(cli[c].get)
  /\ UNCHANGED <<peers, closed, doomed, rec, post>>

\* The network loses a connection, and what was on its way.
NetworkCut(g) ==
  /\ get[g].pc # "none" /\ get[g].conn = "up"
  /\ get' = Cut(g)
  /\ UNCHANGED <<peers, closed, doomed, rec, post, cli>>

Client(c) == Open(c) \/ HandleEvent(c) \/ StreamOver(c) \/ ClientClose(c)

-----------------------------------------------------------------------------

Next ==
  \/ \E g \in Streams : Handler(g) \/ NetworkCut(g)
  \/ \E p \in Posters : Lookup(p) \/ Enqueue(p) \/ Poke(p)
  \/ \E r \in Records : ReaperFires(r) \/ Expire(r) \/ Forget(r) \/ Shutdown(r)
  \/ ServerClose
  \/ \E c \in Clients : Client(c)

Spec == Init /\ [][Next]_vars

-----------------------------------------------------------------------------
(* Properties.                                                             *)

Events == [event : {"signal", "replaced", "shutdown"}, rec : Records, id : Nat]

\* The variables keep their types; the signals of a record that have not been
\* taken are at most QueueSize, or what a reconnect has put back.
TypeOK ==
  /\ peers \in Records \cup {None} /\ closed \in BOOLEAN /\ doomed \subseteq Records
  /\ rec \in [Records -> [made : BOOLEAN, seq : Nat, sentUpTo : Nat, log : Seq(Nat),
                          stream : Streams \cup {None}, down : BOOLEAN, timer : BOOLEAN,
                          expire : {"idle", "fired", "forget"}]]
  /\ get \in [Streams -> [pc : {"none", "request", "attach", "take", "wait",
                                "detach", "gone"},
                          client : Clients \cup {None}, last : Nat,
                          rec : Records \cup {None}, wake : BOOLEAN,
                          end : {"none", "replaced", "shutdown"},
                          conn : {"up", "eof", "cut"}, wire : Seq(Events)]]
  /\ post \in [Posters -> [pc : {"idle", "enqueue", "poke"}, rec : Records \cup {None},
                           stream : Streams \cup {None}]]
  /\ cli \in [Clients -> [pc : {"connect", "stream", "over"},
                          get : Streams \cup {None}, lastID : Nat,
                          from : Records \cup {None},
                          stale : BOOLEAN, floor : Nat]]
  /\ \A r \in Records : Len(rec[r].log) <= QueueSize + ReplayDepth

\* The log of a record that is up is its newest signals without a hole, and
\* covers all that have not been taken: whatever a reconnect rewinds to, each
\* signal from there on can be delivered.
LogCovers ==
  \A r \in Records :
    ~rec[r].down =>
      /\ \A i \in DOMAIN rec[r].log : rec[r].log[i] = Trimmed(r) + i
      /\ rec[r].sentUpTo \in Trimmed(r) .. rec[r].seq

\* No signal waits unnoticed: while one has not been taken, the record's stream
\* is about to take, has been woken, or is about to be woken by whoever queued
\* it, however queueing, attaching and taking interleave.
NoLostWake ==
  \A r \in Records : \A g \in Streams :
    rec[r].stream = g /\ ~rec[r].down /\ rec[r].sentUpTo < rec[r].seq =>
      \/ get[g].pc \in {"take", "detach"} \/ get[g].wake
      \/ \E p \in Posters : post[p].pc = "poke" /\ post[p].stream = g

\* A client whose last event has only been named to the record that it is of
\* receives the signals of one record, every one in the order in which they were
\* queued, over all its streams, apart from repeats and from signals that the
\* record had let go of when the stream attached; it keeps the ReplayDepth last.
MissedOnlyTrimmed ==
  [][\A c \in Clients :
       LET old == cli[c]
           new == cli'[c]
       IN  ~old.stale =>
             /\ old.from # None => new.from = old.from
             /\ new.lastID <= old.lastID + 1 \/ new.lastID <= old.floor + 1]_vars

\* server.go:150 says that Close detaches every stream and that in-flight
\* handlers return: once it has shut every record down, none has a stream.
CloseDetaches ==
  closed /\ doomed = {} => \A r \in Records : rec[r].stream = None
=============================================================================
